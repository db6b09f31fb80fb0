----------------------------- MODULE Interface ------------------------------
(***************************************************************************)
(* The interface's screen: which view and pane are up, who owns the keys   *)
(* (search bar, score prompt, connect modal, filter overlay, delete        *)
(* confirm, a settings row being edited), the full-screen show page with   *)
(* its grid of episodes and its section of recommendations, and the keys   *)
(* and background answers that move them (tui/app.cpp on_key, on_mouse,    *)
(* tick; tui/views.cpp; tui/settings.cpp).                                 *)
(*                                                                         *)
(* One thread runs every handler.  A list is its selected row: the cursor  *)
(* keys, the mouse and a reload choose another.  An action of this module  *)
(* is one event and ends with reconcile_char_recs, as tick does.           *)
(***************************************************************************)
EXTENDS Naturals, FiniteSets

CONSTANTS Shows,
          Stocked,     \* the lists that may have rows
          Sections,    \* whether the section of recommendations is modelled
          None,
          MaxFetches   \* bound: fetches of the section in flight

ASSUME InterfaceAssumption ==
    /\ None \notin Shows
    /\ Stocked \subseteq {"Browse", "History", "Discover", "Schedule"}
    /\ Sections \in BOOLEAN
    /\ MaxFetches \in Nat

VARIABLES
    scr,     \* App::view, pane, detail_origin, view_back, bar
    win,     \* is the window wide enough for two panes, tall enough to split
    own,     \* App::connect, discover_filters.visible, confirm_delete,
             \* SettingsState editing_
    sel,     \* the row under each list's cursor
    grid,    \* EpisodeState: the show it was opened for, and what it holds
    play,    \* App::play: the show being played, or None
    landing, \* App::resume_pending, resume_demote
    recs,    \* CharactersRecsState
    jobs     \* fetches of the section whose answer has not been handled

vars == <<scr, win, own, sel, grid, play, landing, recs, jobs>>

-----------------------------------------------------------------------------
(* State *)

Lists == {"Browse", "History", "Discover", "Schedule"}
View == Lists \cup {"Settings", "Detail"}
OrNone(S) == S \cup {None}

\* The selection the show page and the detail pane are drawn from: the zoom
\* reads through the view it was opened from.
ShownBy(s, rows) ==
    LET source == IF s.view = "Detail" THEN s.origin ELSE s.view
    IN  IF source = "Settings" THEN rows["Browse"] ELSE rows[source]
Shown == ShownBy(scr, sel)

\* The selection the keys act on: it knows the lists, and reads Browse's row
\* in every other view.
KeyShow(view, rows) ==
    IF view \in {"History", "Schedule", "Discover"} THEN rows[view]
    ELSE rows["Browse"]

NoRecs == [visible |-> FALSE, focused |-> FALSE, show |-> None,
           phase |-> "none", of |-> None]
NoGrid == [show |-> None, holds |-> "nothing"]

SectionShown == recs.visible /\ win.tall

InGrid == \/ scr.view = "Detail"
          \/ scr.view \in {"Browse", "History"} /\ scr.pane = "Detail"

\* Nothing owns the keys: the chain reaches the normal mode.
Normal == /\ scr.bar = "idle"
          /\ ~own.connect /\ ~own.filters /\ own.confirm = None /\ ~own.editing

TypeOK ==
    /\ scr \in [view : View, pane : {"List", "Detail"}, origin : Lists,
                back : OrNone(Lists \cup {"Settings"}),
                bar : {"idle", "search", "score"}]
    /\ win \in [wide : BOOLEAN, tall : BOOLEAN]
    /\ own \in [connect : BOOLEAN, filters : BOOLEAN, confirm : OrNone(Shows),
                editing : BOOLEAN]
    /\ sel \in [Lists -> OrNone(Shows)]
    /\ grid \in [show : OrNone(Shows),
                 holds : {"nothing", "loading", "episodes", "no_source"}]
    /\ play \in OrNone(Shows)
    /\ landing \in [pending : BOOLEAN, demote : OrNone(Shows)]
    /\ recs \in [visible : BOOLEAN, focused : BOOLEAN, show : OrNone(Shows),
                 phase : {"none", "loading", "fetched", "failed"},
                 of : OrNone(Shows)]
    /\ jobs \in [Shows -> Nat]

\* The program starts on Browse, or on History with the last watched row
\* under the cursor and its opening still to come.
Init ==
    /\ \E onHistory, resume \in BOOLEAN :
          /\ resume => onHistory /\ "History" \in Stocked
          /\ scr = [view |-> IF onHistory THEN "History" ELSE "Browse",
                    pane |-> "List", origin |-> "Browse", back |-> None,
                    bar |-> "idle"]
          /\ landing = [pending |-> resume, demote |-> None]
          /\ sel \in [Lists -> OrNone(Shows)]
          /\ \A l \in Lists : sel[l] = None \/ (onHistory /\ l = "History" /\ l \in Stocked)
          /\ resume => sel["History"] # None
    /\ win \in [wide : BOOLEAN, tall : BOOLEAN]
    /\ own = [connect |-> FALSE, filters |-> FALSE, confirm |-> None,
              editing |-> FALSE]
    /\ grid = NoGrid
    /\ play = None
    /\ recs = NoRecs
    /\ jobs = [x \in Shows |-> 0]

-----------------------------------------------------------------------------
(* What every event ends with, and what the keys are built from *)

\* The section follows the show page: another show drops what it holds, and
\* a show it holds nothing of is fetched.
Reconcile(r) ==
    LET shown == ShownBy(scr', sel')
        held  == IF r.show = shown THEN r
                 ELSE [NoRecs EXCEPT !.visible = TRUE, !.show = shown]
    IN  IF scr'.view = "Detail" /\ r.visible /\ shown # None
        THEN IF held.phase = "none"
             THEN /\ jobs[shown] < MaxFetches
                  /\ recs' = [held EXCEPT !.phase = "loading"]
                  /\ jobs' = [jobs EXCEPT ![shown] = @ + 1]
             ELSE recs' = held /\ UNCHANGED jobs
        ELSE recs' = r /\ UNCHANGED jobs

\* open_detail from `view': the pane is focused and the grid is opened for
\* the row the keys act on, unless it is already open for it.
Open(view, s, rows) ==
    LET k == KeyShow(view, rows)
    IN  IF k = None THEN scr' = s /\ UNCHANGED grid
        ELSE /\ scr' = [s EXCEPT !.pane = "Detail"]
             /\ IF grid.show = k THEN UNCHANGED grid
                ELSE \E h \in {"loading", "episodes", "no_source"} :
                        grid' = [show |-> k, holds |-> h]

\* What Esc returns to.
BackTarget == IF scr.view = "Detail" THEN scr.origin ELSE scr.view

\* demote_zoom that always lands in the pane, whatever the width.
DemotedWide ==
    [scr EXCEPT !.view = scr.origin,
                !.pane = IF scr.origin \in {"Browse", "History"}
                         THEN "Detail" ELSE "List"]

\* The bar, the pane and the section's focus after the show page is left for
\* the view it was opened from.
Demoted ==
    [scr EXCEPT !.view = scr.origin,
                !.pane = IF scr.origin \in {"Browse", "History"} /\ win.wide
                         THEN "Detail" ELSE "List"]

\* A reload may leave any row of the list under the cursor, or none.
Reloaded(l) == IF l \in Stocked THEN {[sel EXCEPT ![l] = x] : x \in OrNone(Shows)}
               ELSE {sel}

-----------------------------------------------------------------------------
(* Normal mode *)

\* A view letter, or its tab: History and Schedule are read again on the way
\* in.
SwitchView(v, back) ==
    /\ scr.view # v
    /\ scr' = [scr EXCEPT !.view = v, !.back = back,
                          !.pane = IF v \in {"Browse", "History"} THEN "List" ELSE @]
    /\ sel' \in (IF v \in {"History", "Schedule"} THEN Reloaded(v) ELSE {sel})
    /\ UNCHANGED <<win, own, grid, play, landing>>
    /\ Reconcile(recs)

Letter ==
    /\ Normal
    /\ \E v \in View \ {"Detail"} : SwitchView(v, BackTarget)

\* `/' filters History in place, and searches the catalog from anywhere else.
Slash ==
    /\ Normal
    /\ scr' = IF scr.view \in {"Browse", "History"}
              THEN [scr EXCEPT !.bar = "search"]
              ELSE [scr EXCEPT !.bar = "search", !.back = BackTarget,
                               !.view = "Browse", !.pane = "List"]
    /\ UNCHANGED <<win, own, sel, grid, play, landing>>
    /\ Reconcile(recs)

\* `~': the feed of shows similar to the one on screen, empty until it comes.
Similar ==
    /\ Normal
    /\ scr.view # "Settings" /\ Shown # None
    /\ scr' = [scr EXCEPT !.back = BackTarget, !.view = "Discover"]
    /\ sel' = [sel EXCEPT !["Discover"] = None]
    /\ UNCHANGED <<win, own, grid, play, landing>>
    /\ Reconcile(recs)

\* The cursor keys, the jumps, the axis keys and a click choose another row.
\* A click in Browse or History takes the focus back to the list.
ChooseRow ==
    /\ Normal
    /\ scr.view \in Lists /\ sel[scr.view] # None
    /\ \E x \in Shows : sel' = [sel EXCEPT ![scr.view] = x]
    /\ scr' \in {scr, [scr EXCEPT !.pane = "List"]}
    /\ scr.view \in {"Browse", "History"} /\ scr.pane = "Detail" => scr'.pane = "List"
    /\ scr.view = "Discover" => scr' = scr
    /\ UNCHANGED <<win, own, grid, play, landing>>
    /\ Reconcile(recs)

\* `l', and a click on the detail column, of a list beside its pane.
EnterPane ==
    /\ Normal
    /\ scr.view \in {"Browse", "History"} /\ scr.pane = "List" /\ win.wide
    /\ Open(scr.view, scr, sel)
    /\ UNCHANGED <<win, own, sel, play, landing>>
    /\ Reconcile(recs)

\* Space from a pane shows the page of what the pane holds.
ZoomPane ==
    /\ Normal
    /\ scr.view \in {"Browse", "History"} /\ scr.pane = "Detail"
    /\ scr' = [scr EXCEPT !.origin = scr.view, !.view = "Detail"]
    /\ UNCHANGED <<win, own, sel, grid, play, landing>>
    /\ Reconcile(recs)

\* Space on a row, Enter on a card, and Enter on a row of a narrow list:
\* the view is the show page before the grid is opened.
ZoomRow ==
    /\ Normal
    /\ \/ scr.view = "Discover"
       \/ scr.view \in {"Browse", "History"} /\ scr.pane = "List"
    /\ Shown # None \/ (scr.view = "History" /\ ~win.wide)
    /\ Open("Detail", [scr EXCEPT !.origin = scr.view, !.view = "Detail"], sel)
    /\ UNCHANGED <<win, own, sel, play, landing>>
    /\ Reconcile(recs)

\* Schedule opens the grid first.
ZoomSchedule ==
    /\ Normal
    /\ scr.view = "Schedule" /\ Shown # None
    /\ Open("Schedule", [scr EXCEPT !.origin = "Schedule", !.view = "Detail"], sel)
    /\ UNCHANGED <<win, own, sel, play, landing>>
    /\ Reconcile(recs)

\* Enter in the grid, and a double click on a cell: the grid must be of the
\* row the keys act on, and have landed.
PlayFocused ==
    /\ Normal
    /\ InGrid
    /\ ~(scr.view = "Detail" /\ SectionShown /\ recs.focused)
    /\ grid.holds = "episodes"
    /\ play = None
    /\ KeyShow(scr.view, sel) = grid.show
    /\ play' = grid.show
    /\ UNCHANGED <<scr, win, own, sel, grid, landing>>
    /\ Reconcile(recs)

\* A click on a cell of the grid takes the focus; the grid is only hit when
\* it is of the show on screen.
ClickCell ==
    /\ Normal
    /\ scr.view = "Detail" \/ (scr.view \in {"Browse", "History"} /\ win.wide)
    /\ grid.holds = "episodes" /\ Shown = grid.show
    /\ scr' = IF scr.view = "Detail" THEN scr ELSE [scr EXCEPT !.pane = "Detail"]
    /\ UNCHANGED <<win, own, sel, grid, play, landing>>
    /\ Reconcile([recs EXCEPT !.focused = FALSE])

\* `c' on the show page: the section comes (and is asked for again after a
\* failure) or goes.
ToggleRecs ==
    /\ Sections
    /\ Normal
    /\ scr.view = "Detail"
    /\ UNCHANGED <<scr, win, own, sel, grid, play, landing>>
    /\ Reconcile(IF recs.visible
                 THEN [recs EXCEPT !.visible = FALSE, !.focused = FALSE]
                 ELSE [recs EXCEPT !.visible = TRUE,
                                   !.phase = IF @ = "failed" THEN "none" ELSE @])

\* Tab on the show page.
FocusRecs ==
    /\ Normal
    /\ scr.view = "Detail"
    /\ UNCHANGED <<scr, win, own, sel, grid, play, landing>>
    /\ Reconcile([recs EXCEPT !.focused = SectionShown /\ ~@])

\* Enter in the section: the recommendation becomes a row of Browse, and its
\* page is shown.
Promote ==
    /\ Normal
    /\ scr.view = "Detail" /\ SectionShown /\ recs.focused /\ recs.of # None
    /\ \E t \in Shows \ {recs.of} :
          /\ sel' = [sel EXCEPT !["Browse"] = t]
          /\ Open("Detail", [scr EXCEPT !.origin = "Browse"], sel')
    /\ UNCHANGED <<win, own, play, landing>>
    /\ Reconcile(NoRecs)

\* Space or Esc on the show page.
LeaveZoom ==
    /\ Normal
    /\ scr.view = "Detail"
    /\ scr' = Demoted
    /\ UNCHANGED <<win, own, sel, grid, play, landing>>
    /\ Reconcile([recs EXCEPT !.focused = FALSE])

\* Esc in a pane, and `h' out of every grid but Discover's.
LeavePane ==
    /\ Normal
    /\ scr.view \notin {"Detail", "Discover"} /\ scr.pane = "Detail"
    /\ scr' = [scr EXCEPT !.pane = "List"]
    /\ UNCHANGED <<win, own, sel, grid, play, landing>>
    /\ Reconcile(recs)

\* Esc on a view: its letter is typed, and the way back is forgotten.
GoBack ==
    /\ Normal
    /\ scr.view # "Detail"
    /\ ~(scr.view \in {"Browse", "History"} /\ scr.pane = "Detail")
    /\ scr.back # None
    /\ SwitchView(scr.back, None)

-----------------------------------------------------------------------------
(* Owners of the keys *)

\* The search bar: each key filters History, Enter locks it, Esc drops it.
SearchKey ==
    /\ scr.bar = "search"
    /\ scr' \in {scr, [scr EXCEPT !.bar = "idle"],
                 [scr EXCEPT !.bar = "idle", !.pane = "List"]}
    /\ sel' \in (IF scr.view = "History" THEN Reloaded("History") ELSE {sel})
    /\ UNCHANGED <<win, own, grid, play, landing>>
    /\ Reconcile(recs)

AskScore ==
    /\ Normal
    /\ scr.view = "History" /\ scr.pane = "List" /\ sel["History"] # None
    /\ scr' = [scr EXCEPT !.bar = "score"]
    /\ UNCHANGED <<win, own, sel, grid, play, landing>>
    /\ Reconcile(recs)

\* Enter writes the score and reads History again; Esc does not.
ScoreKey ==
    /\ scr.bar = "score"
    /\ scr' = [scr EXCEPT !.bar = "idle"]
    /\ sel' \in Reloaded("History")
    /\ UNCHANGED <<win, own, grid, play, landing>>
    /\ Reconcile(recs)

AskDelete ==
    /\ Normal
    /\ scr.view = "History" /\ scr.pane = "List" /\ sel["History"] # None
    /\ own' = [own EXCEPT !.confirm = sel["History"]]
    /\ UNCHANGED <<scr, win, sel, grid, play, landing>>
    /\ Reconcile(recs)

\* `y' deletes and reads History again; any other key, and a click, does not.
ConfirmKey ==
    /\ scr.bar = "idle" /\ own.confirm # None
    /\ own' = [own EXCEPT !.confirm = None]
    /\ sel' \in Reloaded("History")
    /\ UNCHANGED <<scr, win, grid, play, landing>>
    /\ Reconcile(recs)

OpenFilters ==
    /\ Normal
    /\ scr.view = "Discover"
    /\ own' = [own EXCEPT !.filters = TRUE]
    /\ UNCHANGED <<scr, win, sel, grid, play, landing>>
    /\ Reconcile(recs)

\* Esc drops the draft; Enter commits it, and every feed starts again.
CloseFilters ==
    /\ scr.bar = "idle" /\ own.filters
    /\ own' = [own EXCEPT !.filters = FALSE]
    /\ sel' \in {sel, [sel EXCEPT !["Discover"] = None]}
    /\ UNCHANGED <<scr, win, grid, play, landing>>
    /\ Reconcile(recs)

\* Space and the cycle keys of Settings change the configuration; Enter
\* starts editing a text row, or opens a connect session.
SettingsKey ==
    /\ Normal
    /\ scr.view = "Settings"
    /\ own' \in {own, [own EXCEPT !.editing = TRUE], [own EXCEPT !.connect = TRUE]}
    /\ UNCHANGED <<scr, win, sel, grid, play, landing>>
    /\ Reconcile(recs)

\* A row being edited takes every key of the Settings view, a click on a tab
\* included; Enter commits it and Esc drops it.
EditKey ==
    /\ scr.bar = "idle" /\ ~own.connect /\ own.confirm = None
    /\ scr.view = "Settings" /\ own.editing
    /\ own' \in {own, [own EXCEPT !.editing = FALSE]}
    /\ UNCHANGED <<scr, win, sel, grid, play, landing>>
    /\ Reconcile(recs)

\* Esc closes the connect session; so does its answer, whatever has the keys.
CloseConnect ==
    /\ own.connect
    /\ own' = [own EXCEPT !.connect = FALSE]
    /\ UNCHANGED <<scr, win, sel, grid, play, landing>>
    /\ Reconcile(recs)

-----------------------------------------------------------------------------
(* Events that are not keys *)

\* The show watched last, x, opens on its own when the program has started.
OpenResumeLanding(s, x) ==
    /\ scr' = IF win'.wide THEN [s EXCEPT !.pane = "Detail"]
              ELSE [s EXCEPT !.origin = "History", !.view = "Detail"]
    /\ \E h \in {"loading", "episodes", "no_source"} :
          /\ grid' = IF grid.show = x THEN grid ELSE [show |-> x, holds |-> h]
          /\ landing' = [pending |-> FALSE,
                         demote |-> IF grid'.holds = "episodes" THEN None ELSE x]

\* The window settled at another size: below the split a focused pane would
\* be invisible.  The first one also opens the last watched show.
Resize ==
    /\ win' \in [wide : BOOLEAN, tall : BOOLEAN]
    /\ LET s == IF ~win'.wide /\ scr.view # "Detail"
                THEN [scr EXCEPT !.pane = "List"] ELSE scr
           x == sel["History"]
       IN  \/ landing.pending /\ x # None /\ OpenResumeLanding(s, x)
           \/ /\ ~landing.pending \/ x = None
              /\ scr' = s
              /\ landing' = [landing EXCEPT !.pending = FALSE]
              /\ UNCHANGED grid
    /\ UNCHANGED <<own, sel, play>>
    /\ Reconcile(recs)

\* A sync, a heal or a play reads History and Schedule again; a page of
\* search results replaces Browse; the first page of a feed fills Discover.
Refresh ==
    /\ \E l \in Lists : sel' \in Reloaded(l) /\ (l = "Discover" => sel[l] = None)
    /\ UNCHANGED <<scr, win, own, grid, play, landing>>
    /\ Reconcile(recs)

\* The resolve walk lands the grid, or runs out of providers: then the show
\* that was opened at start gives way to the list.
GridLands ==
    /\ grid.holds = "loading"
    /\ \E h \in {"episodes", "no_source"} :
          /\ grid' = [grid EXCEPT !.holds = h]
          /\ IF landing.demote = grid.show
             THEN /\ landing' = [landing EXCEPT !.demote = None]
                  /\ scr' = IF h = "episodes" THEN scr
                            ELSE [scr EXCEPT !.pane = "List",
                                             !.view = IF @ = "Detail" THEN "History" ELSE @]
             ELSE UNCHANGED <<scr, landing>>
    /\ UNCHANGED <<win, own, sel, play>>
    /\ Reconcile(recs)

PlayEnds ==
    /\ play # None
    /\ play' = None
    /\ UNCHANGED <<scr, win, own, sel, grid, landing>>
    /\ Reconcile(recs)

\* Every answer files while the section is up.
AnyAnswer(x) == recs.visible

\* An answer for the section is dropped when the section has moved on.
Awaited(x) == recs.show = x

RecsAnswer ==
    \E x \in Shows :
        /\ jobs[x] > 0
        /\ jobs' = [jobs EXCEPT ![x] = @ - 1]
        /\ recs' \in IF ~Awaited(x) THEN {recs}
                     ELSE {[recs EXCEPT !.phase = "fetched", !.of = x],
                           [recs EXCEPT !.phase = "fetched", !.of = None],
                           [recs EXCEPT !.phase = "failed"]}
        /\ UNCHANGED <<scr, win, own, sel, grid, play, landing>>

Next ==
    \/ Letter \/ Slash \/ Similar \/ ChooseRow \/ EnterPane
    \/ ZoomPane \/ ZoomRow \/ ZoomSchedule \/ PlayFocused \/ ClickCell
    \/ ToggleRecs \/ FocusRecs \/ Promote \/ LeaveZoom \/ LeavePane \/ GoBack
    \/ SearchKey \/ AskScore \/ ScoreKey \/ AskDelete \/ ConfirmKey
    \/ OpenFilters \/ CloseFilters \/ SettingsKey \/ EditKey \/ CloseConnect
    \/ Resize \/ Refresh \/ GridLands \/ PlayEnds \/ RecsAnswer

Spec == Init /\ [][Next]_vars

-----------------------------------------------------------------------------
(* Properties *)

\* Keys never go to a pane that is not drawn: in Browse and History the
\* detail pane has the focus only where the window has room for it, through
\* zooms, resizes, the way back and the landing (app.cpp demote_zoom, the
\* Resize arm, open_resume_landing).
FocusIsOnScreen ==
    scr.view \in {"Browse", "History"} /\ scr.pane = "Detail" => win.wide

\* A recommendation that is opened was recommended for the show whose page is
\* on screen, whatever was asked for before and answered late
\* (reconcile_char_recs, on_char_recs_done).
PromotesForTheShownShow ==
    [][Promote /\ Shown # None => recs.of = Shown]_vars

\* A play that starts is of the show that is on screen (views.cpp: the zoom
\* reads through its origin view).
PlaysWhatIsShown ==
    [][play = None /\ play' # None /\ Shown # None => play' = Shown]_vars
=============================================================================
