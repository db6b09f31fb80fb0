--------------------------- MODULE ScreensProofs ----------------------------
(***************************************************************************)
(* What holds of the interface's screens whatever the shows, the feeds,    *)
(* the queries, the covers and the size of the pool: of Interface, and of  *)
(* the modules MCScreens puts beside it under the names they have there.   *)
(***************************************************************************)
EXTENDS MCScreens, FiniteSetTheorems, SequenceTheorems, TLAPS

-----------------------------------------------------------------------------
(* The screen, its keys and its section of recommendations (Interface)     *)

Screen == [view : View, pane : {"List", "Detail"}, origin : Lists,
           back : OrNone(Lists \cup {"Settings"}), bar : {"idle", "search", "score"}]

Section == [visible : BOOLEAN, focused : BOOLEAN, show : OrNone(Shows),
            phase : {"none", "loading", "fetched", "failed"}, of : OrNone(Shows)]

\* A section that holds recommendations holds those of the show it is for.
ForItsShow(r) == r \in Section /\ (r.of # None => r.of = r.show)

\* On the show page the section is for the show on screen.
OfTheShown == scr.view = "Detail" /\ recs.visible /\ Shown # None => recs.show = Shown

\* Every event ends with the section following the screen, so both hold
\* between events.
ScreenInv == TypeOK /\ FocusIsOnScreen /\ ForItsShow(recs) /\ OfTheShown

LEMMA NoRecsIsForItsShow == ForItsShow(NoRecs)
BY DEF ForItsShow, NoRecs, Section, OrNone

\* What reconcile_char_recs leaves is for the show on screen.
LEMMA ReconcileFollows ==
  ASSUME NEW r, ForItsShow(r), jobs \in [Shows -> Nat],
         scr' \in Screen, sel' \in [Lists -> OrNone(Shows)], Reconcile(r)
  PROVE  ForItsShow(recs)' /\ OfTheShown' /\ (jobs \in [Shows -> Nat])'
<1> DEFINE on   == ShownBy(scr', sel')
           kept == IF r.show = on THEN r
                    ELSE [NoRecs EXCEPT !.visible = TRUE, !.show = on]
<1>1. on \in OrNone(Shows)
  BY DEF ShownBy, Screen, View, Lists
<1>2. ForItsShow(kept) /\ kept.show = on
  BY <1>1 DEF ForItsShow, NoRecs, Section, OrNone
<1>3. Shown' = on
  BY DEF Shown
<1>4. CASE scr'.view = "Detail" /\ r.visible /\ on # None /\ kept.phase = "none"
  <2>1. recs' = [kept EXCEPT !.phase = "loading"] /\ jobs' = [jobs EXCEPT ![on] = @ + 1]
    BY <1>4 DEF Reconcile
  <2>2. ForItsShow(recs') /\ recs'.show = on
    BY <2>1, <1>2 DEF ForItsShow, Section
  <2>3. on \in Shows
    BY <1>1, <1>4 DEF OrNone
  <2>4. jobs' \in [Shows -> Nat]
    BY <2>1, <2>3
  <2> QED
    BY <2>2, <2>4, <1>3 DEF OfTheShown, ForItsShow, Section
<1>5. CASE scr'.view = "Detail" /\ r.visible /\ on # None /\ kept.phase # "none"
  <2>1. recs' = kept /\ jobs' = jobs
    BY <1>5 DEF Reconcile
  <2> QED
    BY <2>1, <1>2, <1>3 DEF OfTheShown, ForItsShow, Section
<1>6. CASE ~(scr'.view = "Detail" /\ r.visible /\ on # None)
  <2>1. recs' = r /\ jobs' = jobs
    BY <1>6 DEF Reconcile
  <2> QED
    BY <2>1, <1>3, <1>6 DEF OfTheShown, ForItsShow, Section
<1> QED
  BY <1>4, <1>5, <1>6

Selected == [Lists -> OrNone(Shows)]
Owner == [connect : BOOLEAN, filters : BOOLEAN, confirm : OrNone(Shows), editing : BOOLEAN]
EpisodeGrid == [show : OrNone(Shows), holds : {"nothing", "loading", "episodes", "no_source"}]
Landing == [pending : BOOLEAN, demote : OrNone(Shows)]

\* What reconcile_char_recs does not write.
RestTyped == /\ scr \in Screen /\ sel \in Selected /\ own \in Owner /\ grid \in EpisodeGrid
             /\ win \in [wide : BOOLEAN, tall : BOOLEAN]
             /\ play \in OrNone(Shows) /\ landing \in Landing

LEMMA TypesOfTheScreen ==
  ASSUME ScreenInv
  PROVE  /\ RestTyped /\ recs \in Section /\ jobs \in [Shows -> Nat]
         /\ ForItsShow(recs) /\ FocusIsOnScreen /\ OfTheShown
BY DEF ScreenInv, TypeOK, RestTyped, Screen, Section, Selected, Owner, EpisodeGrid, Landing

\* An event keeps the invariant if what it writes itself is typed and leaves
\* the focus on the screen.
LEMMA EventKeeps ==
  ASSUME ScreenInv, NEW r, ForItsShow(r), Reconcile(r), RestTyped', FocusIsOnScreen'
  PROVE  ScreenInv'
<1>1. ForItsShow(recs)' /\ OfTheShown' /\ (jobs \in [Shows -> Nat])'
  BY ReconcileFollows, TypesOfTheScreen DEF RestTyped, Selected
<1>2. TypeOK'
  BY <1>1 DEF TypeOK, RestTyped, Screen, Section, Selected, Owner, EpisodeGrid, Landing,
              ForItsShow
<1> QED
  BY <1>1, <1>2 DEF ScreenInv

LEMMA OpenTyped ==
  ASSUME RestTyped, NEW v, NEW s \in Screen, NEW rows \in Selected, Open(v, s, rows)
  PROVE  /\ scr' \in {s, [s EXCEPT !.pane = "Detail"]} /\ scr' \in Screen
         /\ grid' \in EpisodeGrid
<1> DEFINE k == KeyShow(v, rows)
<1>1. k \in OrNone(Shows)
  BY DEF KeyShow, Selected, Lists
<1>2. CASE k = None
  BY <1>2 DEF Open, RestTyped
<1>3. CASE k # None
  <2>1. scr' = [s EXCEPT !.pane = "Detail"]
    BY <1>3 DEF Open
  <2>2. grid' \in EpisodeGrid
    BY <1>3, <1>1 DEF Open, RestTyped, EpisodeGrid
  <2> QED
    BY <2>1, <2>2 DEF Screen
<1> QED
  BY <1>2, <1>3

LEMMA ReloadedTyped ==
  ASSUME RestTyped, NEW l \in Lists
  PROVE  \A q \in Reloaded(l) : q \in Selected
BY DEF Reloaded, RestTyped, Selected

LEMMA SwitchViewKeeps ==
  ASSUME ScreenInv, NEW v \in View \ {"Detail"}, NEW b \in OrNone(Lists \cup {"Settings"}),
         SwitchView(v, b)
  PROVE  ScreenInv'
<1>1. RestTyped /\ ForItsShow(recs)
  BY TypesOfTheScreen
<1>2. scr' = [scr EXCEPT !.view = v, !.back = b,
                          !.pane = IF v \in {"Browse", "History"} THEN "List" ELSE @]
  BY DEF SwitchView
<1>3. scr' \in Screen /\ FocusIsOnScreen'
  BY <1>1, <1>2 DEF RestTyped, Screen, View, FocusIsOnScreen
<1>4. sel' \in Selected
  BY <1>1, ReloadedTyped DEF SwitchView, RestTyped, Lists
<1>5. RestTyped'
  BY <1>1, <1>3, <1>4 DEF RestTyped, SwitchView
<1> QED
  BY <1>1, <1>3, <1>5, EventKeeps DEF SwitchView

LEMMA BackTargetTyped ==
  ASSUME RestTyped
  PROVE  BackTarget \in Lists \cup {"Settings"}
BY DEF RestTyped, Screen, View, Lists, BackTarget

\* The keys of the normal mode.
LEMMA KeysKeep ==
  ASSUME ScreenInv,
         \/ Letter \/ Slash \/ Similar \/ ChooseRow \/ EnterPane \/ ZoomPane
         \/ ZoomRow \/ ZoomSchedule \/ PlayFocused \/ ClickCell \/ GoBack
  PROVE  ScreenInv'
<1>t. RestTyped /\ recs \in Section /\ ForItsShow(recs) /\ FocusIsOnScreen
  BY TypesOfTheScreen
<1>1. CASE Letter
  BY <1>1, <1>t, BackTargetTyped, SwitchViewKeeps DEF Letter, OrNone
<1>2. CASE Slash
  <2>1. scr' \in Screen /\ FocusIsOnScreen'
    BY <1>2, <1>t, BackTargetTyped
    DEF Slash, RestTyped, Screen, View, Lists, OrNone, FocusIsOnScreen
  <2> QED
    BY <1>2, <1>t, <2>1, EventKeeps DEF Slash, RestTyped
<1>3. CASE Similar
  <2>1. scr' \in Screen /\ FocusIsOnScreen'
    BY <1>3, <1>t, BackTargetTyped
    DEF Similar, RestTyped, Screen, View, Lists, OrNone, FocusIsOnScreen
  <2>2. sel' \in Selected
    BY <1>3, <1>t DEF Similar, RestTyped, Selected, OrNone
  <2> QED
    BY <1>3, <1>t, <2>1, <2>2, EventKeeps DEF Similar, RestTyped
<1>4. CASE ChooseRow
  <2>1. scr' \in Screen /\ FocusIsOnScreen'
    BY <1>4, <1>t DEF ChooseRow, RestTyped, Screen, FocusIsOnScreen
  <2>2. sel' \in Selected
    BY <1>4, <1>t DEF ChooseRow, RestTyped, Selected, OrNone
  <2> QED
    BY <1>4, <1>t, <2>1, <2>2, EventKeeps DEF ChooseRow, RestTyped
<1>5. CASE EnterPane
  <2>1. scr' \in Screen /\ grid' \in EpisodeGrid /\ scr'.view = scr.view
    BY <1>5, <1>t, OpenTyped DEF EnterPane, RestTyped, Screen
  <2>2. FocusIsOnScreen'
    BY <1>5, <2>1 DEF EnterPane, FocusIsOnScreen
  <2> QED
    BY <1>5, <1>t, <2>1, <2>2, EventKeeps DEF EnterPane, RestTyped
<1>6. CASE ZoomPane
  <2>1. scr' \in Screen /\ FocusIsOnScreen'
    BY <1>6, <1>t DEF ZoomPane, RestTyped, Screen, View, Lists, FocusIsOnScreen
  <2> QED
    BY <1>6, <1>t, <2>1, EventKeeps DEF ZoomPane, RestTyped
<1>7. CASE ZoomRow
  <2> DEFINE zoomed == [scr EXCEPT !.origin = scr.view, !.view = "Detail"]
  <2>1. zoomed \in Screen /\ zoomed.view = "Detail"
    BY <1>7, <1>t DEF ZoomRow, RestTyped, Screen, View, Lists
  <2>2. Open("Detail", zoomed, sel)
    BY <1>7 DEF ZoomRow
  <2> HIDE DEF zoomed
  <2>3. scr' \in {zoomed, [zoomed EXCEPT !.pane = "Detail"]} /\ scr' \in Screen
        /\ grid' \in EpisodeGrid
    BY <1>t, <2>1, <2>2, OpenTyped DEF RestTyped
  <2>4. scr'.view = "Detail"
    BY <2>1, <2>3 DEF Screen
  <2>5. FocusIsOnScreen'
    BY <2>4 DEF FocusIsOnScreen
  <2> QED
    BY <1>7, <1>t, <2>3, <2>5, EventKeeps DEF ZoomRow, RestTyped
<1>8. CASE ZoomSchedule
  <2> DEFINE zoomed == [scr EXCEPT !.origin = "Schedule", !.view = "Detail"]
  <2>1. zoomed \in Screen /\ zoomed.view = "Detail"
    BY <1>t DEF RestTyped, Screen, View, Lists
  <2>2. Open("Schedule", zoomed, sel)
    BY <1>8 DEF ZoomSchedule
  <2> HIDE DEF zoomed
  <2>3. scr' \in {zoomed, [zoomed EXCEPT !.pane = "Detail"]} /\ scr' \in Screen
        /\ grid' \in EpisodeGrid
    BY <1>t, <2>1, <2>2, OpenTyped DEF RestTyped
  <2>4. scr'.view = "Detail"
    BY <2>1, <2>3 DEF Screen
  <2>5. FocusIsOnScreen'
    BY <2>4 DEF FocusIsOnScreen
  <2> QED
    BY <1>8, <1>t, <2>3, <2>5, EventKeeps DEF ZoomSchedule, RestTyped
<1>9. CASE PlayFocused
  <2>1. FocusIsOnScreen'
    BY <1>9, <1>t DEF PlayFocused, FocusIsOnScreen
  <2>2. RestTyped'
    BY <1>9, <1>t DEF PlayFocused, RestTyped, EpisodeGrid
  <2> QED
    BY <1>9, <1>t, <2>1, <2>2, EventKeeps DEF PlayFocused
<1>10. CASE ClickCell
  <2>1. scr' \in Screen /\ FocusIsOnScreen'
    BY <1>10, <1>t DEF ClickCell, RestTyped, Screen, FocusIsOnScreen
  <2>2. ForItsShow([recs EXCEPT !.focused = FALSE])
    BY <1>t DEF ForItsShow, Section
  <2> QED
    BY <1>10, <1>t, <2>1, <2>2, EventKeeps DEF ClickCell, RestTyped
<1>11. CASE GoBack
  <2>1. scr.back \in View \ {"Detail"}
    BY <1>11, <1>t DEF GoBack, RestTyped, Screen, OrNone, View, Lists
  <2> QED
    BY <1>11, <2>1, SwitchViewKeeps DEF GoBack, OrNone
<1> QED
  BY <1>1, <1>2, <1>3, <1>4, <1>5, <1>6, <1>7, <1>8, <1>9, <1>10, <1>11

\* The show page: its section, a recommendation opened, and the way out.
LEMMA ShowPageKeeps ==
  ASSUME ScreenInv, ToggleRecs \/ FocusRecs \/ Promote \/ LeaveZoom \/ LeavePane
  PROVE  ScreenInv'
<1>t. RestTyped /\ recs \in Section /\ ForItsShow(recs) /\ FocusIsOnScreen
  BY TypesOfTheScreen
<1>1. CASE ToggleRecs
  <2>1. ForItsShow(IF recs.visible
                   THEN [recs EXCEPT !.visible = FALSE, !.focused = FALSE]
                   ELSE [recs EXCEPT !.visible = TRUE,
                                     !.phase = IF @ = "failed" THEN "none" ELSE @])
    BY <1>t DEF ForItsShow, Section
  <2>2. RestTyped' /\ FocusIsOnScreen'
    BY <1>1, <1>t DEF ToggleRecs, RestTyped, FocusIsOnScreen
  <2> QED
    BY <1>1, <2>1, <2>2, EventKeeps DEF ToggleRecs
<1>2. CASE FocusRecs
  <2>1. SectionShown \in BOOLEAN
    BY <1>t DEF SectionShown, RestTyped, Section
  <2>2. ForItsShow([recs EXCEPT !.focused = SectionShown /\ ~@])
    BY <1>t, <2>1 DEF ForItsShow, Section
  <2>3. RestTyped' /\ FocusIsOnScreen'
    BY <1>2, <1>t DEF FocusRecs, RestTyped, FocusIsOnScreen
  <2> QED
    BY <1>2, <2>2, <2>3, EventKeeps DEF FocusRecs
<1>3. CASE Promote
  <2> DEFINE from == [scr EXCEPT !.origin = "Browse"]
  <2>1. PICK t \in Shows \ {recs.of} :
          sel' = [sel EXCEPT !["Browse"] = t] /\ Open("Detail", from, sel')
    BY <1>3 DEF Promote
  <2>2. sel' \in Selected
    BY <1>t, <2>1 DEF RestTyped, Selected, OrNone
  <2>3. from \in Screen /\ from.view = "Detail"
    BY <1>3, <1>t DEF Promote, RestTyped, Screen, Lists
  <2> HIDE DEF from
  <2>4. scr' \in {from, [from EXCEPT !.pane = "Detail"]} /\ scr' \in Screen
        /\ grid' \in EpisodeGrid
    BY <1>t, <2>1, <2>2, <2>3, OpenTyped DEF RestTyped
  <2>5. scr'.view = "Detail"
    BY <2>3, <2>4 DEF Screen
  <2>6. FocusIsOnScreen' /\ RestTyped'
    BY <1>3, <1>t, <2>2, <2>4, <2>5 DEF FocusIsOnScreen, RestTyped, Promote
  <2> QED
    BY <1>3, <2>6, NoRecsIsForItsShow, EventKeeps DEF Promote
<1>4. CASE LeaveZoom
  <2>1. scr' \in Screen /\ FocusIsOnScreen'
    BY <1>4, <1>t DEF LeaveZoom, Demoted, RestTyped, Screen, View, FocusIsOnScreen
  <2>2. ForItsShow([recs EXCEPT !.focused = FALSE])
    BY <1>t DEF ForItsShow, Section
  <2> QED
    BY <1>4, <1>t, <2>1, <2>2, EventKeeps DEF LeaveZoom, RestTyped
<1>5. CASE LeavePane
  <2>1. scr' \in Screen /\ FocusIsOnScreen'
    BY <1>5, <1>t DEF LeavePane, RestTyped, Screen, FocusIsOnScreen
  <2> QED
    BY <1>5, <1>t, <2>1, EventKeeps DEF LeavePane, RestTyped
<1> QED
  BY <1>1, <1>2, <1>3, <1>4, <1>5

\* Whoever else owns the keys.
LEMMA OwnersKeep ==
  ASSUME ScreenInv,
         \/ SearchKey \/ AskScore \/ ScoreKey \/ AskDelete \/ ConfirmKey \/ OpenFilters
         \/ CloseFilters \/ SettingsKey \/ EditKey \/ CloseConnect
  PROVE  ScreenInv'
<1>t. RestTyped /\ recs \in Section /\ ForItsShow(recs) /\ FocusIsOnScreen
  BY TypesOfTheScreen
<1>1. CASE SearchKey \/ AskScore \/ ScoreKey
  <2>1. scr' \in Screen /\ FocusIsOnScreen'
    BY ZenonT(60), <1>1, <1>t DEF SearchKey, AskScore, ScoreKey, RestTyped, Screen, FocusIsOnScreen
  <2>2. sel' \in Selected
    BY <1>1, <1>t, ReloadedTyped DEF SearchKey, AskScore, ScoreKey, RestTyped, Lists
  <2> QED
    BY <1>1, <1>t, <2>1, <2>2, EventKeeps DEF SearchKey, AskScore, ScoreKey, RestTyped
<1>2. CASE AskDelete \/ ConfirmKey \/ OpenFilters \/ CloseFilters \/ SettingsKey
           \/ EditKey \/ CloseConnect
  <2>1. UNCHANGED <<scr, win, grid, play, landing>> /\ Reconcile(recs)
    BY <1>2 DEF AskDelete, ConfirmKey, OpenFilters, CloseFilters, SettingsKey, EditKey,
                CloseConnect
  <2>2. own' \in Owner
    BY <1>2, <1>t DEF AskDelete, ConfirmKey, OpenFilters, CloseFilters, SettingsKey,
                      EditKey, CloseConnect, RestTyped, Owner, Selected, Lists, OrNone
  <2>3. sel' \in Selected
    BY <1>2, <1>t, ReloadedTyped
    DEF AskDelete, ConfirmKey, OpenFilters, CloseFilters, SettingsKey, EditKey,
        CloseConnect, RestTyped, Lists, Selected, OrNone
  <2>4. FocusIsOnScreen'
    BY <2>1, <1>t DEF FocusIsOnScreen
  <2> QED
    BY <1>t, <2>1, <2>2, <2>3, <2>4, EventKeeps DEF RestTyped
<1> QED
  BY <1>1, <1>2

\* A resize, an answer, the end of a play.
LEMMA EventsKeep ==
  ASSUME ScreenInv, Resize \/ Refresh \/ GridLands \/ PlayEnds \/ RecsAnswer
  PROVE  ScreenInv'
<1>t. /\ RestTyped /\ recs \in Section /\ ForItsShow(recs) /\ FocusIsOnScreen /\ OfTheShown
      /\ jobs \in [Shows -> Nat]
  BY TypesOfTheScreen
<1>1. CASE Resize
  <2> DEFINE narrowed == IF ~win'.wide /\ scr.view # "Detail"
                         THEN [scr EXCEPT !.pane = "List"] ELSE scr
             row == sel["History"]
  <2>1. narrowed \in Screen /\ win' \in [wide : BOOLEAN, tall : BOOLEAN]
    BY <1>1, <1>t DEF Resize, OpenResumeLanding, RestTyped, Screen
  <2>2. row \in OrNone(Shows)
    BY <1>t DEF RestTyped, Selected, Lists
  <2>3. narrowed.view \in {"Browse", "History"} /\ narrowed.pane = "Detail" => win'.wide
    BY <1>t DEF RestTyped, Screen
  <2>4. CASE landing.pending /\ row # None
    <3>1. scr' = IF win'.wide THEN [narrowed EXCEPT !.pane = "Detail"]
                 ELSE [narrowed EXCEPT !.origin = "History", !.view = "Detail"]
      BY <1>1, <2>4 DEF Resize, OpenResumeLanding
    <3>2. PICK h \in {"loading", "episodes", "no_source"} :
            /\ grid' = IF grid.show = row THEN grid ELSE [show |-> row, holds |-> h]
            /\ landing' = [pending |-> FALSE,
                           demote |-> IF grid'.holds = "episodes" THEN None ELSE row]
      BY <1>1, <2>4 DEF Resize, OpenResumeLanding
    <3>3. grid' \in EpisodeGrid /\ landing' \in Landing
      BY <1>t, <2>2, <3>2 DEF RestTyped, EpisodeGrid, Landing, OrNone
    <3> HIDE DEF narrowed, row
    <3>4. scr' \in Screen /\ FocusIsOnScreen'
      BY <2>1, <3>1 DEF Screen, View, Lists, FocusIsOnScreen
    <3> QED
      BY <1>1, <1>t, <2>1, <3>3, <3>4, EventKeeps DEF Resize, OpenResumeLanding, RestTyped
  <2>5. CASE ~(landing.pending /\ row # None)
    <3>1. scr' = narrowed /\ landing' = [landing EXCEPT !.pending = FALSE] /\ grid' = grid
      BY <1>1, <2>5 DEF Resize, OpenResumeLanding
    <3>2. landing' \in Landing
      BY <1>t, <3>1 DEF RestTyped, Landing
    <3>3. FocusIsOnScreen'
      BY <2>3, <3>1 DEF FocusIsOnScreen
    <3> QED
      BY <1>1, <1>t, <2>1, <3>1, <3>2, <3>3, EventKeeps DEF Resize, OpenResumeLanding, RestTyped
  <2> QED
    BY <2>4, <2>5
<1>2. CASE Refresh
  <2>1. sel' \in Selected
    BY <1>2, <1>t, ReloadedTyped DEF Refresh
  <2>2. RestTyped' /\ FocusIsOnScreen'
    BY <1>2, <1>t, <2>1 DEF Refresh, RestTyped, FocusIsOnScreen
  <2> QED
    BY <1>2, <1>t, <2>2, EventKeeps DEF Refresh
<1>3. CASE GridLands
  <2>1. PICK h \in {"episodes", "no_source"} :
          /\ grid' = [grid EXCEPT !.holds = h]
          /\ IF landing.demote = grid.show
             THEN /\ landing' = [landing EXCEPT !.demote = None]
                  /\ scr' = IF h = "episodes" THEN scr
                            ELSE [scr EXCEPT !.pane = "List",
                                             !.view = IF @ = "Detail" THEN "History" ELSE @]
             ELSE UNCHANGED <<scr, landing>>
    BY <1>3 DEF GridLands
  <2>2. grid' \in EpisodeGrid /\ landing' \in Landing
    BY <1>t, <2>1 DEF RestTyped, EpisodeGrid, Landing, OrNone
  <2>3. scr' \in Screen /\ FocusIsOnScreen'
    BY ZenonT(60), <1>3, <1>t, <2>1 DEF GridLands, RestTyped, Screen, View, Lists, FocusIsOnScreen
  <2> QED
    BY <1>3, <1>t, <2>2, <2>3, EventKeeps DEF GridLands, RestTyped
<1>4. CASE PlayEnds
  <2>1. RestTyped' /\ FocusIsOnScreen'
    BY <1>4, <1>t DEF PlayEnds, RestTyped, OrNone, FocusIsOnScreen
  <2> QED
    BY <1>4, <1>t, <2>1, EventKeeps DEF PlayEnds
<1>5. CASE RecsAnswer
  <2>1. PICK x \in Shows :
          /\ jobs[x] > 0
          /\ jobs' = [jobs EXCEPT ![x] = @ - 1]
          /\ recs' \in IF ~Awaited(x) THEN {recs}
                       ELSE {[recs EXCEPT !.phase = "fetched", !.of = x],
                             [recs EXCEPT !.phase = "fetched", !.of = None],
                             [recs EXCEPT !.phase = "failed"]}
          /\ UNCHANGED <<scr, win, own, sel, grid, play, landing>>
    BY <1>5 DEF RecsAnswer
  <2>2. jobs' \in [Shows -> Nat]
    <3>1. jobs[x] - 1 \in Nat
      BY <1>t, <2>1
    <3> QED
      BY <1>t, <2>1, <3>1
  <2>3. ForItsShow(recs)' /\ recs'.show = recs.show /\ (recs'.visible <=> recs.visible)
    BY ZenonT(60), <1>t, <2>1 DEF ForItsShow, Section, Awaited, OrNone
  <2>4. OfTheShown' /\ FocusIsOnScreen'
    BY <1>t, <2>1, <2>3 DEF OfTheShown, Shown, FocusIsOnScreen
  <2>5. RestTyped'
    BY <1>t, <2>1 DEF RestTyped
  <2> QED
    BY <2>2, <2>3, <2>4, <2>5
    DEF ScreenInv, TypeOK, RestTyped, Screen, Section, Selected, Owner, EpisodeGrid,
        Landing, ForItsShow
<1> QED
  BY <1>1, <1>2, <1>3, <1>4, <1>5

LEMMA ScreenStarts == Init => ScreenInv
<1> SUFFICES ASSUME Init PROVE ScreenInv
  OBVIOUS
<1>1. /\ scr \in Screen /\ scr.pane = "List" /\ scr.view # "Detail" /\ sel \in Selected
      /\ landing \in Landing
  BY DEF Init, Screen, View, Lists, OrNone, Selected, Landing
<1>2. ForItsShow(recs) /\ own \in Owner /\ grid \in EpisodeGrid /\ play \in OrNone(Shows)
  BY NoRecsIsForItsShow DEF Init, Owner, EpisodeGrid, NoGrid, OrNone
<1> QED
  BY <1>1, <1>2
  DEF Init, ScreenInv, TypeOK, FocusIsOnScreen, OfTheShown, Screen, Section, Selected,
      Owner, EpisodeGrid, Landing, ForItsShow

LEMMA ScreenStep == ScreenInv /\ [Next]_vars => ScreenInv'
<1> SUFFICES ASSUME ScreenInv, [Next]_vars PROVE ScreenInv'
  OBVIOUS
<1>1. CASE UNCHANGED vars
  BY <1>1 DEF ScreenInv, TypeOK, FocusIsOnScreen, OfTheShown, Shown, vars
<1>2. CASE Next
  BY <1>2, KeysKeep, ShowPageKeeps, OwnersKeep, EventsKeep DEF Next
<1> QED
  BY <1>1, <1>2

\* In Browse and History the keys go to the detail pane only where it is
\* drawn, and every variable of the screen has its type, through any sequence
\* of keys, resizes and late answers.
THEOREM FocusStaysOnScreen == Spec => []FocusIsOnScreen
<1>1. ScreenInv => FocusIsOnScreen
  BY DEF ScreenInv
<1> QED
  BY <1>1, ScreenStarts, ScreenStep, PTL DEF Spec

\* A recommendation that is opened was fetched for the show whose page is on
\* screen, however many fetches for other shows answer late.
THEOREM RecommendationsAreOfTheShown == Spec => PromotesForTheShownShow
<1>1. ScreenInv /\ [Next]_vars => [Promote /\ Shown # None => recs.of = Shown]_vars
  BY DEF ScreenInv, ForItsShow, OfTheShown, Promote, SectionShown
<1> QED
  BY <1>1, ScreenStarts, ScreenStep, PTL DEF Spec, PromotesForTheShownShow

-----------------------------------------------------------------------------
(* The cover of the selected show (DetailCover)                            *)

CoverFetch == [of : Shows, box : Boxes \cup {NoBox}, current : BOOLEAN]

\* What is asked for, by the field the code keeps it in.
Asked == [of : OrNone(Shows), box : Boxes \cup {NoBox}, loading : BOOLEAN, has : BOOLEAN]

\* The fetch of the current generation is the one the cover waits for: its
\* show is the cover's only with the cover's box.
CurrentIsAsked(c, jobs_) ==
  /\ c \in Asked /\ jobs_ \subseteq CoverFetch
  /\ \A j \in jobs_ : j.current /\ j.of = c.of => j.box = c.box

HeldFor(c, h) == c.has => h = [of |-> c.of, box |-> c.box]

CoverInv == CurrentIsAsked(cover, coverFetches) /\ HeldFor(cover, held)
            /\ shown \in [show : OrNone(Shows), box : Boxes \cup {NoBox}]

\* reconcile_cover keeps the cover it is given or asks for another.
LEMMA CoverReconciles ==
  ASSUME NEW c, NEW f, NEW h, NEW out, CurrentIsAsked(c, out), HeldFor(c, h),
         shown' \in [show : OrNone(Shows), box : Boxes \cup {NoBox}],
         Detail!Reconcile(c, f, h, out)
  PROVE  CoverInv'
<1> DEFINE x == shown'.show
           box == shown'.box
           asks == x # None /\ Detail!Decides(c, f, x, box) /\ box # NoBox
           new == [of |-> x, box |-> box, loading |-> TRUE, has |-> FALSE]
           late == {[j EXCEPT !.current = FALSE] : j \in out}
           job == [of |-> x, box |-> box, current |-> TRUE]
<1>1. CASE asks
  <2>1. cover' = new /\ coverFetches' = late \cup {job}
    BY <1>1 DEF Detail!Reconcile
  <2>2. x \in Shows /\ box \in Boxes \cup {NoBox}
    BY <1>1 DEF OrNone
  <2>3. new \in Asked /\ job \in CoverFetch
    BY <2>2 DEF Asked, CoverFetch, OrNone
  <2>4. \A j \in late : j \in CoverFetch /\ ~j.current
    BY DEF CurrentIsAsked, CoverFetch
  <2>5. new.box = job.box
    OBVIOUS
  <2> HIDE DEF new, late, job
  <2>6. CurrentIsAsked(new, late \cup {job})
    BY <2>3, <2>4, <2>5 DEF CurrentIsAsked
  <2> QED
    BY <2>1, <2>6 DEF CoverInv, HeldFor, new
<1>2. CASE ~asks
  <2>1. cover' = c /\ coverFetches' = out /\ held' = h
    BY <1>2 DEF Detail!Reconcile
  <2> QED
    BY <2>1 DEF CoverInv
<1> QED
  BY <1>1, <1>2

LEMMA CoverStarts == Detail!Init => CoverInv
BY DEF Detail!Init, Detail!NoCover, CoverInv, CurrentIsAsked, HeldFor, Asked, OrNone

LEMMA CoverStep == CoverInv /\ [Detail!Next]_(Detail!vars) => CoverInv'
<1> SUFFICES ASSUME CoverInv, [Detail!Next]_(Detail!vars) PROVE CoverInv'
  OBVIOUS
<1>t. CurrentIsAsked(cover, coverFetches) /\ HeldFor(cover, held)
  BY DEF CoverInv
<1>u. \A j \in coverFetches : CurrentIsAsked(cover, coverFetches \ {j})
  BY <1>t DEF CurrentIsAsked
<1>s. UNCHANGED shown => shown' \in [show : OrNone(Shows), box : Boxes \cup {NoBox}]
  BY DEF CoverInv
<1>1. CASE UNCHANGED Detail!vars
  BY <1>1 DEF CoverInv, Detail!vars
<1>2. CASE Detail!Select
  BY <1>2, <1>t, CoverReconciles DEF Detail!Select, OrNone
<1>3. CASE Detail!Purge
  BY <1>3 DEF Detail!Purge, CoverInv
<1>4. CASE Detail!CoverDone
  <2>1. PICK j \in coverFetches :
          IF Detail!Fresh(j) /\ cover.of = j.of
          THEN Detail!Reconcile([cover EXCEPT !.loading = FALSE, !.has = TRUE],
                                Detail!NoFailure, [of |-> j.of, box |-> j.box],
                                coverFetches \ {j})
          ELSE Detail!Reconcile(cover, failed, held, coverFetches \ {j})
    BY <1>4 DEF Detail!CoverDone
  <2>2. UNCHANGED shown
    BY <1>4 DEF Detail!CoverDone
  <2>3. CASE Detail!Fresh(j) /\ cover.of = j.of
    <3> DEFINE c == [cover EXCEPT !.loading = FALSE, !.has = TRUE]
    <3>1. c \in Asked /\ c.of = cover.of /\ c.box = cover.box
      BY <1>t DEF CurrentIsAsked, Asked
    <3>2. j.box = cover.box
      BY <1>t, <2>3 DEF CurrentIsAsked, Detail!Fresh
    <3>3. CurrentIsAsked(c, coverFetches \ {j})
      BY <1>t, <3>1 DEF CurrentIsAsked
    <3>4. HeldFor(c, [of |-> j.of, box |-> j.box])
      BY <2>3, <3>1, <3>2 DEF HeldFor
    <3>5. Detail!Reconcile(c, Detail!NoFailure, [of |-> j.of, box |-> j.box],
                           coverFetches \ {j})
      BY <2>1, <2>3
    <3> QED
      BY <1>s, <2>2, <3>3, <3>4, <3>5, CoverReconciles
  <2>4. CASE ~(Detail!Fresh(j) /\ cover.of = j.of)
    BY <1>s, <1>t, <1>u, <2>1, <2>2, <2>4, CoverReconciles
  <2> QED
    BY <2>3, <2>4
<1>5. CASE Detail!CoverError
  <2>1. PICK j \in coverFetches :
          IF Detail!Fresh(j) /\ cover.of = j.of
          THEN Detail!Reconcile([cover EXCEPT !.of = None, !.loading = FALSE, !.has = FALSE],
                                [of |-> j.of, cooling |-> TRUE], held, coverFetches \ {j})
          ELSE Detail!Reconcile(cover, failed, held, coverFetches \ {j})
    BY <1>5 DEF Detail!CoverError
  <2>2. UNCHANGED shown
    BY <1>5 DEF Detail!CoverError
  <2>3. CASE Detail!Fresh(j) /\ cover.of = j.of
    <3> DEFINE c == [cover EXCEPT !.of = None, !.loading = FALSE, !.has = FALSE]
    <3>1. c \in Asked /\ ~c.has /\ c.of = None
      BY <1>t DEF CurrentIsAsked, Asked, OrNone
    <3>2. \A i \in coverFetches : i \in CoverFetch /\ i.of # None
      BY <1>t, InterfaceAssumption DEF CurrentIsAsked, CoverFetch
    <3>3. CurrentIsAsked(c, coverFetches \ {j}) /\ HeldFor(c, held)
      BY <3>1, <3>2 DEF CurrentIsAsked, HeldFor
    <3>4. Detail!Reconcile(c, [of |-> j.of, cooling |-> TRUE], held, coverFetches \ {j})
      BY <2>1, <2>3
    <3> QED
      BY <1>s, <2>2, <3>3, <3>4, CoverReconciles
  <2>4. CASE ~(Detail!Fresh(j) /\ cover.of = j.of)
    BY <1>s, <1>t, <1>u, <2>1, <2>2, <2>4, CoverReconciles
  <2> QED
    BY <2>3, <2>4
<1>6. CASE Detail!CoolsDown
  BY <1>6, <1>s, <1>t, CoverReconciles DEF Detail!CoolsDown
<1> QED
  BY <1>1, <1>2, <1>3, <1>4, <1>5, <1>6 DEF Detail!Next

\* Once the cover is not loading, its pixels are those of the show and the box
\* asked for last, whichever answers come late and whatever is scrolled or
\* resized between them.
THEOREM PixelsAreThoseAskedFor == Detail!Spec => []HeldIsAsAsked
<1>1. CoverInv => HeldIsAsAsked
  BY DEF CoverInv, HeldFor, HeldIsAsAsked, Detail!HeldIsAsAsked
<1> QED
  BY <1>1, CoverStarts, CoverStep, PTL DEF Detail!Spec

-----------------------------------------------------------------------------
(* Browse's search (Search)                                                *)

ResultPage == [query : Queries \cup {Blank}, page : Nat]

\* Only a query that is not empty is asked, so what a cleared list answers is
\* nobody's next page.
SearchInv ==
  /\ query \in Queries \cup {Blank}
  /\ list \in Seq(ResultPage) /\ searchFetches \in Seq(ResultPage)
  /\ answered.query \in Queries \cup {Blank} /\ answered.page \in Nat
  /\ \A i \in DOMAIN searchFetches : searchFetches[i].query # Blank
  /\ \A i \in DOMAIN list : list[i] = [query |-> answered.query, page |-> i]
  /\ answered.query # Blank => Len(list) = answered.page
  /\ answered.query = Blank => list = <<>>

LEMMA SearchStarts == Find!Init => SearchInv
BY DEF Find!Init, Find!NoAnswer, SearchInv

LEMMA FetchKeepsSearch ==
  ASSUME SearchInv, NEW p \in Nat, query # Blank, Find!Fetch(p),
         UNCHANGED <<query, list, answered>>
  PROVE  SearchInv'
<1> DEFINE x == [query |-> query, page |-> p]
<1>1. x \in ResultPage
  BY DEF SearchInv, ResultPage
<1>2. searchFetches' = Append(searchFetches, x)
  BY DEF Find!Fetch
<1>3. searchFetches' \in Seq(ResultPage)
  BY <1>1, <1>2 DEF SearchInv
<1>4. \A i \in DOMAIN searchFetches' : searchFetches'[i].query # Blank
  BY <1>1, <1>2 DEF SearchInv
<1> QED
  BY <1>3, <1>4 DEF SearchInv

LEMMA WithoutIsFetches ==
  ASSUME SearchInv, NEW i \in DOMAIN searchFetches
  PROVE  /\ Find!Without(i) \in Seq(ResultPage)
         /\ \A j \in DOMAIN Find!Without(i) : Find!Without(i)[j].query # Blank
<1> DEFINE n == Len(searchFetches)
<1>1. n \in Nat /\ i \in 1..n /\ searchFetches \in [1..n -> ResultPage]
      /\ \A j \in 1..n : searchFetches[j].query # Blank
  BY DEF SearchInv
<1> HIDE DEF n
<1>2. \A j \in 1..(n - 1) : (IF j < i THEN j ELSE j + 1) \in 1..n
  BY <1>1
<1>3. Find!Without(i) = [j \in 1..(n - 1) |-> searchFetches[IF j < i THEN j ELSE j + 1]]
  BY DEF Find!Without, n
<1>4. Find!Without(i) \in [1..(n - 1) -> ResultPage]
  BY <1>1, <1>2, <1>3
<1>5. n - 1 \in Nat
  BY <1>1
<1>6. Find!Without(i) \in Seq(ResultPage)
  BY <1>4, <1>5
<1>7. \A j \in 1..(n - 1) : Find!Without(i)[j].query # Blank
  BY <1>1, <1>2, <1>3
<1>8. DOMAIN Find!Without(i) = 1..(n - 1)
  BY <1>3
<1> QED
  BY <1>6, <1>7, <1>8

\* What the answer `x' does to the list.
Takes(x, more) ==
  LET taken == [query |-> x.query, page |-> x.page, hasNext |-> more]
  IN  IF x.query # query THEN UNCHANGED <<list, answered>>
      ELSE IF x.page = 1 THEN list' = <<x>> /\ answered' = taken
      ELSE IF Find!NextOfList(x)
      THEN list' = Append(list, x) /\ answered' = [taken EXCEPT !.query = answered.query]
      ELSE UNCHANGED <<list, answered>>

LEMMA SearchDoneKeeps ==
  ASSUME SearchInv, Find!SearchDone
  PROVE  SearchInv'
<1>1. PICK i \in DOMAIN searchFetches :
        /\ searchFetches' = Find!Without(i) /\ query' = query
        /\ \E more \in {FALSE, searchFetches[i].page < LastPage} :
             Takes(searchFetches[i], more)
  BY DEF Find!SearchDone, Takes
<1> DEFINE x == searchFetches[i]
<1>2. PICK more \in {FALSE, x.page < LastPage} : Takes(x, more)
  BY <1>1
<1>3. x \in ResultPage /\ x.query # Blank
  BY DEF SearchInv
<1>4. /\ searchFetches' \in Seq(ResultPage)
      /\ \A j \in DOMAIN searchFetches' : searchFetches'[j].query # Blank
  BY <1>1, WithoutIsFetches
<1> HIDE DEF x
<1>5. CASE UNCHANGED <<list, answered>>
  BY <1>1, <1>4, <1>5 DEF SearchInv
<1>6. CASE /\ x.query = query /\ x.page = 1 /\ list' = <<x>>
           /\ answered' = [query |-> x.query, page |-> x.page, hasNext |-> more]
  <2>1. list' \in Seq(ResultPage) /\ Len(list') = 1 /\ list'[1] = x
    BY <1>3, <1>6
  <2>2. x = [query |-> x.query, page |-> 1]
    BY <1>3, <1>6 DEF ResultPage
  <2>3. answered'.query \in Queries \cup {Blank} /\ answered'.page \in Nat
    BY <1>3, <1>6 DEF ResultPage
  <2> QED
    BY <1>1, <1>3, <1>4, <1>6, <2>1, <2>2, <2>3 DEF SearchInv
<1>7. CASE /\ Find!NextOfList(x) /\ list' = Append(list, x)
           /\ answered' = [[query |-> x.query, page |-> x.page, hasNext |-> more]
                             EXCEPT !.query = answered.query]
  <2>1. answered.query = x.query /\ x.page = answered.page + 1
    BY <1>7 DEF Find!NextOfList
  <2>2. answered' = [query |-> answered.query, page |-> x.page, hasNext |-> more]
    BY <1>7, <2>1
  <2>3. answered'.query \in Queries \cup {Blank} /\ answered'.page \in Nat
    BY <1>3, <2>2, <2>1 DEF ResultPage
  <2>4. list \in Seq(ResultPage) /\ Len(list) = answered.page /\ answered.page \in Nat
    BY <1>3, <2>1 DEF SearchInv
  <2>5. list' \in Seq(ResultPage) /\ Len(list') = x.page
    BY <1>3, <1>7, <2>1, <2>4
  <2>6. x = [query |-> answered.query, page |-> x.page]
    BY <1>3, <2>1 DEF ResultPage
  <2>7. ASSUME NEW j \in DOMAIN list'
        PROVE  list'[j] = [query |-> answered.query, page |-> j]
    <3>1. CASE j = x.page
      BY <1>7, <2>1, <2>4, <2>6, <3>1
    <3>2. CASE j # x.page
      <4>1. j \in DOMAIN list /\ list'[j] = list[j]
        BY <1>3, <1>7, <2>1, <2>4, <2>5, <3>2
      <4> QED
        BY <4>1 DEF SearchInv
    <3> QED
      BY <3>1, <3>2
  <2> QED
    BY <1>1, <1>3, <1>4, <2>1, <2>2, <2>3, <2>5, <2>7 DEF SearchInv
<1> QED
  BY <1>2, <1>5, <1>6, <1>7 DEF Takes

LEMMA SearchStep == SearchInv /\ [Find!Next]_(Find!vars) => SearchInv'
<1> SUFFICES ASSUME SearchInv, [Find!Next]_(Find!vars) PROVE SearchInv'
  OBVIOUS
<1>1. CASE UNCHANGED Find!vars
  BY <1>1 DEF SearchInv, Find!vars
<1>2. CASE Find!OpenBar \/ Find!Type \/ Find!LockBar \/ Find!DropBar
  <2>1. UNCHANGED <<list, answered, searchFetches>> /\ query' \in Queries \cup {Blank}
    BY <1>2
    DEF Find!OpenBar, Find!Type, Find!LockBar, Find!DropBar, Find!Query, SearchInv
  <2> QED
    BY <2>1 DEF SearchInv
<1>3. CASE Find!DebounceFires
  <2>1. CASE query = Blank
    <3>1. /\ list' = <<>> /\ UNCHANGED <<query, searchFetches>>
          /\ answered' = [query |-> Blank, page |-> 1, hasNext |-> FALSE]
      BY <1>3, <2>1 DEF Find!DebounceFires, Find!NoAnswer
    <3>2. list' \in Seq(ResultPage) /\ DOMAIN list' = {}
      BY <3>1
    <3> QED
      BY <3>1, <3>2 DEF SearchInv
  <2>2. CASE query # Blank
    BY <1>3, <2>2, FetchKeepsSearch DEF Find!DebounceFires
  <2> QED
    BY <2>1, <2>2
<1>4. CASE Find!LoadMore
  <2>1. answered.page + 1 \in Nat /\ query # Blank
    BY <1>4 DEF Find!LoadMore, SearchInv
  <2> QED
    BY <1>4, <2>1, FetchKeepsSearch DEF Find!LoadMore
<1>5. CASE Find!SearchDone
  BY <1>5, SearchDoneKeeps
<1>6. CASE Find!SearchError
  <2>1. PICK i \in DOMAIN searchFetches : searchFetches' = Find!Without(i)
    BY <1>6 DEF Find!SearchError
  <2> QED
    BY <1>6, <2>1, WithoutIsFetches DEF Find!SearchError, SearchInv
<1> QED
  BY <1>1, <1>2, <1>3, <1>4, <1>5, <1>6 DEF Find!Next

\* The results on screen are the first pages of one query, in order and none
\* twice, however the answers to earlier queries come in.
THEOREM ResultsAreOfOneQuery == Find!Spec => []ListIsOneQuery
<1>1. SearchInv => ListIsOneQuery
  BY DEF SearchInv, ListIsOneQuery, Find!ListIsOneQuery
<1> QED
  BY <1>1, SearchStarts, SearchStep, PTL DEF Find!Spec

-----------------------------------------------------------------------------
(* Discover's feeds (Feeds)                                                *)

InForce == Filters \cup {CHOOSE x \in Filters : TRUE}
FeedRequest == [feed : Feed!Feed, filters : InForce, seed : OrNone(Seeds)]
FeedPage == [of : FeedRequest, gen : Nat, page : Nat]
AxisSlot == [pages : Seq(FeedPage), page : Nat, loading : BOOLEAN, failed : BOOLEAN,
             exhausted : BOOLEAN]

\* A list of pages of one request, in order, up to the last page filed.
OneList(s, request) ==
  /\ \A i \in DOMAIN s.pages : s.pages[i].of = request /\ s.pages[i].page <= s.page
  /\ \A i \in DOMAIN s.pages : i > 1 => s.pages[i].page > s.pages[i - 1].page

FeedsTyped ==
  /\ axis \in Axes /\ seed \in OrNone(Seeds) /\ filters \in InForce
  /\ similar \in BOOLEAN /\ gens \in [filter : Nat, similar : Nat]
  /\ slots \in [Feed!Feed -> AxisSlot] /\ feedFetches \subseteq FeedPage

\* A fetch of the current generation asks what its feed is of now, and no
\* fetch is of a generation to come.
GenerationsTell ==
  \A x \in feedFetches :
    /\ x.gen <= Feed!GenOf(x.of.feed)
    /\ x.gen = Feed!GenOf(x.of.feed) => x.of = Feed!Asked(x.of.feed)

FeedsInv ==
  /\ FeedsTyped /\ GenerationsTell /\ Feed!LoadingIsFetched
  /\ \A f \in Feed!Feed : OneList(slots[f], Feed!Asked(f))

LEMMA EmptySlotIsOneList ==
  Feed!EmptySlot \in AxisSlot /\ \A r : OneList(Feed!EmptySlot, r)
BY DEF Feed!EmptySlot, AxisSlot, OneList

LEMMA FeedsStart == Feed!Init => FeedsInv
<1> SUFFICES ASSUME Feed!Init PROVE FeedsInv
  OBVIOUS
<1>1. slots = [f \in Feed!Feed |-> Feed!EmptySlot] /\ feedFetches = {}
  BY DEF Feed!Init
<1>2. FeedsTyped
  BY <1>1, EmptySlotIsOneList DEF Feed!Init, FeedsTyped, OrNone, InForce
<1>3. Feed!LoadingIsFetched
  BY <1>1 DEF Feed!LoadingIsFetched, Feed!EmptySlot
<1> QED
  BY <1>1, <1>2, <1>3, EmptySlotIsOneList DEF FeedsInv, GenerationsTell

\* A slot that is tried again keeps its pages.
LEMMA RetryKeepsFeeds ==
  ASSUME FeedsInv, NEW f \in Feed!Feed, slots' = Feed!Retried(f),
         axis' \in Axes, similar' \in BOOLEAN,
         UNCHANGED <<seed, filters, gens, feedFetches>>
  PROVE  FeedsInv'
<1>1. slots \in [Feed!Feed -> AxisSlot] /\ slots' = [slots EXCEPT ![f].failed = FALSE]
  BY DEF FeedsInv, FeedsTyped, Feed!Retried
<1>2. slots' \in [Feed!Feed -> AxisSlot]
  BY <1>1 DEF AxisSlot
<1>3. \A g \in Feed!Feed : /\ slots'[g].pages = slots[g].pages /\ slots'[g].page = slots[g].page
                           /\ slots'[g].loading = slots[g].loading
  BY <1>1 DEF AxisSlot
<1>4. /\ \A g : Feed!Asked(g)' = Feed!Asked(g)
      /\ \A g : Feed!GenOf(g)' = Feed!GenOf(g)
  BY DEF Feed!Asked, Feed!GenOf
<1>5. FeedsTyped'
  BY <1>2 DEF FeedsInv, FeedsTyped
<1>6. GenerationsTell'
  BY <1>4 DEF FeedsInv, GenerationsTell
<1>7. Feed!LoadingIsFetched'
  BY <1>3, <1>4 DEF FeedsInv, Feed!LoadingIsFetched
<1>8. \A g \in Feed!Feed : OneList(slots'[g], Feed!Asked(g)')
  BY <1>3, <1>4 DEF FeedsInv, OneList
<1> QED
  BY <1>5, <1>6, <1>7, <1>8 DEF FeedsInv

\* Another seed: the Similar feed starts over and its fetches are left behind.
LEMMA NewSeedKeepsFeeds ==
  ASSUME FeedsInv, NEW x \in Seeds, seed' = x, similar' = TRUE,
         slots' = [slots EXCEPT ![Feed!Similar] = Feed!EmptySlot],
         gens' = [gens EXCEPT !.similar = @ + 1],
         UNCHANGED <<axis, filters, feedFetches>>
  PROVE  FeedsInv'
<1>1. FeedsTyped /\ Feed!Similar \in Feed!Feed
  BY DEF FeedsInv, Feed!Feed
<1>2. FeedsTyped'
  BY <1>1, EmptySlotIsOneList DEF FeedsTyped, OrNone
<1>3. \A g \in Feed!Feed : g # Feed!Similar =>
        /\ Feed!Asked(g)' = Feed!Asked(g) /\ Feed!GenOf(g)' = Feed!GenOf(g)
        /\ slots'[g] = slots[g]
  BY <1>1 DEF Feed!Asked, Feed!GenOf, FeedsTyped
<1>4. Feed!GenOf(Feed!Similar)' = Feed!GenOf(Feed!Similar) + 1
      /\ Feed!GenOf(Feed!Similar) \in Nat
  BY <1>1 DEF Feed!GenOf, FeedsTyped
<1>5. \A y \in feedFetches : y.of.feed \in Feed!Feed /\ y.gen \in Nat
  BY <1>1 DEF FeedsTyped, FeedPage, FeedRequest
<1>6. GenerationsTell'
  <2> SUFFICES ASSUME NEW y \in feedFetches
               PROVE  /\ y.gen <= Feed!GenOf(y.of.feed)'
                      /\ y.gen = Feed!GenOf(y.of.feed)' => y.of = Feed!Asked(y.of.feed)'
    BY DEF GenerationsTell
  <2>1. /\ y.gen <= Feed!GenOf(y.of.feed)
        /\ y.gen = Feed!GenOf(y.of.feed) => y.of = Feed!Asked(y.of.feed)
    BY DEF FeedsInv, GenerationsTell
  <2>2. CASE y.of.feed = Feed!Similar
    BY <1>4, <1>5, <2>1, <2>2
  <2>3. CASE y.of.feed # Feed!Similar
    BY <1>3, <1>5, <2>1, <2>3
  <2> QED
    BY <2>2, <2>3
<1>7. slots'[Feed!Similar] = Feed!EmptySlot
  BY <1>1 DEF FeedsTyped
<1>8. Feed!LoadingIsFetched'
  BY <1>3, <1>7 DEF FeedsInv, Feed!LoadingIsFetched, Feed!EmptySlot
<1>9. \A g \in Feed!Feed : OneList(slots'[g], Feed!Asked(g)')
  BY <1>3, <1>7, EmptySlotIsOneList DEF FeedsInv
<1> QED
  BY <1>2, <1>6, <1>8, <1>9 DEF FeedsInv

\* Other filters: every feed starts over and every fetch is left behind.
LEMMA SetFiltersKeepsFeeds ==
  ASSUME FeedsInv, Feed!SetFilters
  PROVE  FeedsInv'
<1>1. FeedsTyped /\ \A f \in Feed!Feed : slots'[f] = Feed!EmptySlot
  BY DEF FeedsInv, Feed!SetFilters, Feed!StartedOver
<1>2. slots' \in [Feed!Feed -> AxisSlot]
  BY EmptySlotIsOneList DEF Feed!SetFilters, Feed!StartedOver
<1>3. FeedsTyped'
  BY <1>1, <1>2 DEF FeedsTyped, Feed!SetFilters, InForce
<1>4. \A g \in Feed!Feed : Feed!GenOf(g) \in Nat /\ Feed!GenOf(g)' = Feed!GenOf(g) + 1
  BY <1>1 DEF FeedsTyped, Feed!SetFilters, Feed!GenOf
<1>5. \A y \in feedFetches : y.of.feed \in Feed!Feed /\ y.gen \in Nat
  BY <1>1 DEF FeedsTyped, FeedPage, FeedRequest
<1>6. \A y \in feedFetches : y.gen < Feed!GenOf(y.of.feed)'
  BY <1>4, <1>5 DEF FeedsInv, GenerationsTell
<1>7. GenerationsTell'
  <2>1. feedFetches' = feedFetches /\ \A y \in feedFetches : Feed!GenOf(y.of.feed)' \in Nat
    BY <1>4, <1>5 DEF Feed!SetFilters
  <2> QED
    BY <1>5, <1>6, <2>1 DEF GenerationsTell
<1>8. Feed!LoadingIsFetched' /\ \A g \in Feed!Feed : OneList(slots'[g], Feed!Asked(g)')
  BY <1>1, EmptySlotIsOneList DEF Feed!LoadingIsFetched, Feed!EmptySlot
<1> QED
  BY <1>3, <1>7, <1>8 DEF FeedsInv

LEMMA PumpKeepsFeeds ==
  ASSUME FeedsInv, Feed!Pump
  PROVE  FeedsInv'
<1> DEFINE f == Feed!Shown
           x == [of |-> Feed!Asked(f), gen |-> Feed!GenOf(f), page |-> slots[f].page + 1]
<1>1. FeedsTyped /\ f \in Feed!Feed
  BY DEF FeedsInv, FeedsTyped, Feed!Shown, Feed!Feed
<1>2. slots' = [slots EXCEPT ![f].loading = TRUE] /\ feedFetches' = feedFetches \cup {x}
      /\ UNCHANGED <<axis, seed, similar, filters, gens>>
  BY DEF Feed!Pump
<1>3. Feed!Asked(f) \in FeedRequest /\ Feed!Asked(f).feed = f /\ Feed!GenOf(f) \in Nat
  BY <1>1 DEF FeedsTyped, Feed!Asked, FeedRequest, Feed!GenOf, OrNone
<1>4. slots \in [Feed!Feed -> AxisSlot] /\ slots[f].page + 1 \in Nat
  BY <1>1 DEF FeedsTyped, AxisSlot
<1>5. x \in FeedPage /\ x.of.feed = f /\ x.gen = Feed!GenOf(f) /\ x.of = Feed!Asked(f)
  BY <1>3, <1>4 DEF FeedPage
<1> HIDE DEF x, f
<1>6. slots' \in [Feed!Feed -> AxisSlot]
  BY <1>1, <1>2, <1>4 DEF AxisSlot
<1>7. \A g \in Feed!Feed :
        /\ slots'[g].pages = slots[g].pages /\ slots'[g].page = slots[g].page
        /\ g # f => slots'[g].loading = slots[g].loading
  BY <1>1, <1>2, <1>4 DEF AxisSlot
<1>8. /\ \A g : Feed!Asked(g)' = Feed!Asked(g)
      /\ \A g : Feed!GenOf(g)' = Feed!GenOf(g)
  BY <1>2 DEF Feed!Asked, Feed!GenOf
<1>9. FeedsTyped'
  BY <1>1, <1>2, <1>5, <1>6 DEF FeedsTyped
<1>10. GenerationsTell'
  BY <1>2, <1>3, <1>5, <1>8 DEF FeedsInv, GenerationsTell
<1>11. Feed!LoadingIsFetched'
  BY <1>2, <1>5, <1>7, <1>8 DEF FeedsInv, Feed!LoadingIsFetched
<1>12. \A g \in Feed!Feed : OneList(slots'[g], Feed!Asked(g)')
  BY <1>7, <1>8 DEF FeedsInv, OneList
<1> QED
  BY <1>9, <1>10, <1>11, <1>12 DEF FeedsInv

\* A page of the current generation goes on the end of its list, or nowhere.
LEMMA FiledIsOneList ==
  ASSUME NEW s \in AxisSlot, NEW x \in FeedPage, NEW rows, NEW next,
         OneList(s, x.of)
  PROVE  LET t == Feed!Filed(s, x, rows, next)
         IN  t \in AxisSlot /\ ~t.loading /\ OneList(t, x.of)
<1> DEFINE grown == IF rows THEN Append(s.pages, x) ELSE s.pages
           done == \/ ~next
                   \/ Len(grown) >= MaxPages
                   \/ grown = <<>> /\ x.page >= MaxEmpty
           t == Feed!Filed(s, x, rows, next)
<1>1. s.pages \in Seq(FeedPage) /\ s.page \in Nat /\ x.page \in Nat
  BY DEF AxisSlot, FeedPage
<1>2. CASE x.page # s.page + 1
  <2>1. t = [s EXCEPT !.loading = FALSE]
    BY <1>2 DEF Feed!Filed
  <2> QED
    BY <2>1 DEF AxisSlot, OneList
<1>3. CASE x.page = s.page + 1
  <2>1. t = [s EXCEPT !.loading = FALSE, !.failed = FALSE, !.pages = grown,
                      !.page = x.page, !.exhausted = done]
    BY <1>3 DEF Feed!Filed
  <2>2. done \in BOOLEAN
    OBVIOUS
  <2> HIDE DEF done
  <2>3. grown \in Seq(FeedPage)
    BY <1>1
  <2>4. t \in AxisSlot /\ ~t.loading /\ t.pages = grown /\ t.page = x.page
    BY <1>1, <2>1, <2>2, <2>3 DEF AxisSlot
  <2>5. /\ \A i \in DOMAIN grown : grown[i].of = x.of /\ grown[i].page <= x.page
        /\ \A i \in DOMAIN grown : i > 1 => grown[i].page > grown[i - 1].page
    <3>0. /\ DOMAIN s.pages = 1..Len(s.pages) /\ Len(s.pages) \in Nat
          /\ \A i \in 1..Len(s.pages) : s.pages[i] \in FeedPage
      BY <1>1
    <3>1. /\ \A i \in 1..Len(s.pages) : /\ s.pages[i].of = x.of /\ s.pages[i].page <= s.page
                                        /\ s.pages[i].page \in Nat
          /\ \A i \in 1..Len(s.pages) : i > 1 => s.pages[i].page > s.pages[i - 1].page
      BY <3>0 DEF OneList, FeedPage
    <3>2. CASE ~rows
      <4>1. grown = s.pages
        BY <3>2
      <4> HIDE DEF grown
      <4>2. \A i \in DOMAIN grown : grown[i].of = x.of /\ grown[i].page <= x.page
        BY <1>1, <1>3, <3>0, <3>1, <4>1
      <4>3. \A i \in DOMAIN grown : i > 1 => grown[i].page > grown[i - 1].page
        BY <3>0, <3>1, <4>1
      <4> QED
        BY <4>2, <4>3
    <3>3. CASE rows
      <4>1. /\ grown = Append(s.pages, x) /\ DOMAIN grown = 1..(Len(s.pages) + 1)
            /\ Len(s.pages) \in Nat
        BY <1>1, <3>3
      <4>2. /\ \A i \in 1..Len(s.pages) : grown[i] = s.pages[i]
            /\ grown[Len(s.pages) + 1] = x
        BY <1>1, <4>1
      <4> HIDE DEF grown
      <4>3. ASSUME NEW i \in DOMAIN grown
            PROVE  /\ grown[i].of = x.of /\ grown[i].page <= x.page
                   /\ i > 1 => grown[i].page > grown[i - 1].page
        <5>1. CASE i \in 1..Len(s.pages)
          <6>1. i > 1 => i - 1 \in 1..Len(s.pages)
            BY <4>1, <5>1
          <6> QED
            BY SMTT(60), <1>1, <1>3, <3>1, <4>2, <5>1, <6>1
        <5>2. CASE i = Len(s.pages) + 1
          <6>1. i > 1 => i - 1 \in 1..Len(s.pages)
            BY <4>1, <5>2
          <6> QED
            BY SMTT(60), <1>1, <1>3, <3>1, <4>2, <5>2, <6>1
        <5> QED
          BY <4>1, <5>1, <5>2
      <4> QED
        BY <4>3
    <3> QED
      BY <3>2, <3>3
  <2> QED
    BY <2>4, <2>5 DEF OneList
<1> QED
  BY <1>2, <1>3

LEMMA FeedAnswerKeepsFeeds ==
  ASSUME FeedsInv, Feed!FeedAnswer
  PROVE  FeedsInv'
<1>1. PICK x \in feedFetches :
        /\ feedFetches' = feedFetches \ {x}
        /\ \E s \in Feed!Answered(slots[x.of.feed], x) :
              slots' = IF Feed!CurrentGen(x) THEN [slots EXCEPT ![x.of.feed] = s] ELSE slots
        /\ UNCHANGED <<axis, seed, similar, filters, gens>>
  BY DEF Feed!FeedAnswer
<1> DEFINE f == x.of.feed
<1>2. FeedsTyped /\ x \in FeedPage /\ f \in Feed!Feed
  BY DEF FeedsInv, FeedsTyped, FeedPage, FeedRequest
<1>3. /\ \A g : Feed!Asked(g)' = Feed!Asked(g)
      /\ \A g : Feed!GenOf(g)' = Feed!GenOf(g)
  BY <1>1 DEF Feed!Asked, Feed!GenOf
<1>4. GenerationsTell'
  BY <1>1, <1>3 DEF FeedsInv, GenerationsTell
<1>5. CASE ~Feed!CurrentGen(x)
  <2>1. slots' = slots /\ x.gen # Feed!GenOf(f)
    BY <1>1, <1>5 DEF Feed!CurrentGen
  <2>2. FeedsTyped'
    BY <1>1, <1>2, <2>1 DEF FeedsTyped
  <2>3. Feed!LoadingIsFetched'
    BY <1>1, <1>3, <2>1 DEF FeedsInv, Feed!LoadingIsFetched
  <2>4. \A g \in Feed!Feed : OneList(slots'[g], Feed!Asked(g)')
    BY <1>3, <2>1 DEF FeedsInv
  <2> QED
    BY <1>4, <2>2, <2>3, <2>4 DEF FeedsInv
<1>6. CASE Feed!CurrentGen(x)
  <2>1. x.of = Feed!Asked(f) /\ slots[f] \in AxisSlot /\ OneList(slots[f], x.of)
    BY <1>2, <1>6 DEF FeedsInv, FeedsTyped, GenerationsTell, Feed!CurrentGen
  <2>2. PICK s \in Feed!Answered(slots[f], x) : slots' = [slots EXCEPT ![f] = s]
    BY <1>1, <1>6
  <2>3. s \in AxisSlot /\ ~s.loading /\ OneList(s, x.of)
    <3>1. CASE s = [slots[f] EXCEPT !.loading = FALSE, !.failed = TRUE]
      BY <2>1, <3>1 DEF AxisSlot, OneList
    <3>2. CASE \E rows, next \in BOOLEAN : s = Feed!Filed(slots[f], x, rows, next)
      BY <1>2, <2>1, <3>2, FiledIsOneList
    <3> QED
      BY <2>2, <3>1, <3>2 DEF Feed!Answered
  <2>4. /\ slots' \in [Feed!Feed -> AxisSlot] /\ slots'[f] = s
        /\ \A g \in Feed!Feed : g # f => slots'[g] = slots[g]
    BY <1>2, <2>2, <2>3 DEF FeedsTyped
  <2>5. FeedsTyped'
    BY <1>1, <1>2, <2>4 DEF FeedsTyped
  <2>6. Feed!LoadingIsFetched'
    BY <1>1, <1>3, <2>3, <2>4 DEF FeedsInv, Feed!LoadingIsFetched
  <2>7. \A g \in Feed!Feed : OneList(slots'[g], Feed!Asked(g)')
    BY <1>3, <2>1, <2>3, <2>4 DEF FeedsInv
  <2> QED
    BY <1>4, <2>5, <2>6, <2>7 DEF FeedsInv
<1> QED
  BY <1>5, <1>6

LEMMA FeedsStep == FeedsInv /\ [Feed!Next]_(Feed!vars) => FeedsInv'
<1> SUFFICES ASSUME FeedsInv, [Feed!Next]_(Feed!vars) PROVE FeedsInv'
  OBVIOUS
<1>t. FeedsTyped
  BY DEF FeedsInv
<1>1. CASE UNCHANGED Feed!vars
  BY <1>1 DEF FeedsInv, FeedsTyped, GenerationsTell, Feed!LoadingIsFetched, Feed!Asked,
              Feed!GenOf, Feed!vars
<1>2. CASE Feed!SelectAxis
  <2>1. PICK f \in Axes : axis' = f /\ slots' = Feed!Retried(f)
    BY <1>2 DEF Feed!SelectAxis
  <2> QED
    BY <1>2, <2>1, RetryKeepsFeeds DEF Feed!SelectAxis, Feed!Feed
<1>3. CASE Feed!ShowSimilar
  BY <1>3, <1>t, RetryKeepsFeeds DEF Feed!ShowSimilar, Feed!Feed, FeedsTyped
<1>4. CASE Feed!OpenSimilar
  <2>1. PICK x \in Seeds :
          /\ seed' = x
          /\ IF x = seed
             THEN slots' = Feed!Retried(Feed!Similar) /\ UNCHANGED gens
             ELSE /\ gens.similar < MaxChanges
                  /\ slots' = [slots EXCEPT ![Feed!Similar] = Feed!EmptySlot]
                  /\ gens' = [gens EXCEPT !.similar = @ + 1]
    BY <1>4 DEF Feed!OpenSimilar
  <2>2. similar' = TRUE /\ UNCHANGED <<axis, filters, feedFetches>>
    BY <1>4 DEF Feed!OpenSimilar
  <2>3. CASE x = seed
    BY <1>t, <2>1, <2>2, <2>3, RetryKeepsFeeds DEF Feed!Feed, FeedsTyped
  <2>4. CASE x # seed
    BY <2>1, <2>2, <2>4, NewSeedKeepsFeeds
  <2> QED
    BY <2>3, <2>4
<1>5. CASE Feed!SetFilters
  BY <1>5, SetFiltersKeepsFeeds
<1>6. CASE Feed!Pump
  BY <1>6, PumpKeepsFeeds
<1>7. CASE Feed!FeedAnswer
  BY <1>7, FeedAnswerKeepsFeeds
<1> QED
  BY <1>1, <1>2, <1>3, <1>4, <1>5, <1>6, <1>7 DEF Feed!Next

\* A feed on screen is one list of its axis or seed under the filters in
\* force, and one that is loading has a fetch coming that will be taken,
\* whatever was in flight when the filters or the seed changed.
THEOREM FeedsAreWhole == Feed!Spec => []FeedIsWhole
<1>1. FeedsInv => FeedIsWhole
  <2> SUFFICES ASSUME FeedsInv PROVE FeedIsWhole
    OBVIOUS
  <2>1. Feed!FeedIsOneList
    BY DEF FeedsInv, OneList, Feed!FeedIsOneList
  <2> QED
    BY <2>1 DEF FeedsInv, FeedIsWhole, Feed!FeedIsWhole
<1> QED
  BY <1>1, FeedsStart, FeedsStep, PTL DEF Feed!Spec

-----------------------------------------------------------------------------
(* The covers of the cards (GridCovers)                                    *)

\* The numbers given out so far are 1 .. k, each in use or free, and each in
\* use for one url.
NumbersHold(st, fr) ==
  /\ \A u, v \in DOMAIN st : st[u] = st[v] => u = v
  /\ fr \cap {st[u] : u \in DOMAIN st} = {}
  /\ \E k \in Nat : fr \cup {st[u] : u \in DOMAIN st} = 1..k

\* A url being fetched is loading in the pool, so that no pump takes it again
\* or evicts it.
FetchedOnce(p, out) ==
  /\ out \in [Urls -> Nat]
  /\ \A u \in Urls : out[u] > 0 => out[u] = 1 /\ u \in DOMAIN p /\ p[u] = "loading"

GridInv ==
  /\ window \subseteq Urls
  /\ pool \in [DOMAIN pool -> Grid!Status] /\ DOMAIN pool \subseteq Urls
  /\ store = [u \in DOMAIN store |-> store[u]] /\ DOMAIN store \subseteq DOMAIN pool
  /\ NumbersHold(store, free)
  /\ FetchedOnce(pool, workers)
  /\ gridPlaced = [u \in window \cap DOMAIN store |-> store[u]]

\* A frame shows what the window has pixels for, if nothing it shows already
\* has got another number.
LEMMA FrameShows ==
  ASSUME GridInv, Grid!Frame,
         \A u \in DOMAIN store \cap DOMAIN store' : store'[u] = store[u]
  PROVE  gridPlaced' = [u \in window' \cap DOMAIN store' |-> store'[u]]
<1>1. \A u \in DOMAIN gridPlaced : u \in DOMAIN store /\ gridPlaced[u] = store[u]
  BY DEF GridInv
<1>2. \A u \in window' \cap DOMAIN store' :
        (IF u \in DOMAIN gridPlaced THEN gridPlaced[u] ELSE store'[u]) = store'[u]
  BY <1>1
<1> QED
  BY <1>2 DEF Grid!Frame

\* GridCovers' instance of FiniteSets counts as FiniteSets does.
LEMMA SameCardinality == ASSUME NEW S PROVE Grid!Cardinality(S) = Cardinality(S)
BY DEF Cardinality, Grid!Cardinality

\* A new number is one nobody has.
LEMMA FreshIdIsFree ==
  ASSUME NumbersHold(store, free), NEW n \in Grid!FreshIds, NEW u, u \notin DOMAIN store
  PROVE  NumbersHold(Grid!Put(store, u, n), free \ {n})
<1> DEFINE used == {store[v] : v \in DOMAIN store}
           t == Grid!Put(store, u, n)
           usedThen == {t[v] : v \in DOMAIN t}
<1>1. PICK k \in Nat : free \cup used = 1..k
  BY DEF NumbersHold
<1>2. /\ DOMAIN t = DOMAIN store \cup {u} /\ t[u] = n
      /\ \A v \in DOMAIN store : t[v] = store[v]
  BY DEF Grid!Put
<1>n. free = {} => used = 1..k /\ n = k + 1
  <2> SUFFICES ASSUME free = {} PROVE used = 1..k /\ n = k + 1
    OBVIOUS
  <2>1. used = 1..k
    BY <1>1
  <2>2. Cardinality(1..k) = k
    BY FS_Interval
  <2>3. Grid!InUse = used
    BY DEF Grid!InUse
  <2> HIDE DEF used, t, usedThen
  <2>4. n = Grid!Cardinality(Grid!InUse) + 1
    BY DEF Grid!FreshIds
  <2> QED
    BY <2>1, <2>2, <2>3, <2>4, SameCardinality
<1>f. free # {} => n \in free
  BY DEF Grid!FreshIds
<1>3. n \notin used
  <2>1. CASE free # {}
    BY <1>f, <2>1 DEF NumbersHold
  <2>2. CASE free = {}
    BY <1>n, <2>2
  <2> QED
    BY <2>1, <2>2
<1>4. usedThen = used \cup {n}
  BY <1>2
<1> HIDE DEF used, usedThen, t
<1>5. \E m \in Nat : (free \ {n}) \cup usedThen = 1..m
  <2>1. CASE free # {}
    <3>1. (free \ {n}) \cup usedThen = free \cup used
      BY <1>4, <1>f, <2>1
    <3> QED
      BY <1>1, <3>1
  <2>2. CASE free = {}
    <3>1. (free \ {n}) \cup usedThen = 1..(k + 1)
      BY <1>4, <1>n, <2>2
    <3> QED
      BY <3>1
  <2> QED
    BY <2>1, <2>2
<1>6. (free \ {n}) \cap usedThen = {}
  BY <1>4 DEF NumbersHold, used
<1>7. \A v, w \in DOMAIN t : t[v] = t[w] => v = w
  BY <1>2, <1>3 DEF NumbersHold, used
<1> QED
  BY <1>5, <1>6, <1>7 DEF NumbersHold, t, usedThen

LEMMA GridStarts == Grid!Init => GridInv
<1> SUFFICES ASSUME Grid!Init PROVE GridInv
  OBVIOUS
<1>1. window = {} /\ free = {} /\ workers = [u \in Urls |-> 0]
      /\ DOMAIN pool = {} /\ DOMAIN store = {} /\ DOMAIN gridPlaced = {}
      /\ pool = Grid!Nothing /\ store = Grid!Nothing /\ gridPlaced = Grid!Nothing
  BY DEF Grid!Init, Grid!Nothing
<1>2. NumbersHold(store, free)
  <2>1. free \cup {store[u] : u \in DOMAIN store} = 1..0
    BY <1>1
  <2> QED
    BY <1>1, <2>1 DEF NumbersHold
<1>3. FetchedOnce(pool, workers)
  BY <1>1 DEF FetchedOnce
<1>4. gridPlaced = [u \in window \cap DOMAIN store |-> store[u]]
      /\ store = [u \in DOMAIN store |-> store[u]] /\ pool \in [DOMAIN pool -> Grid!Status]
  BY <1>1 DEF Grid!Nothing
<1> QED
  BY <1>1, <1>2, <1>3, <1>4 DEF GridInv

\* Fewer pixels: the numbers of what was forgotten are free.
LEMMA ForgottenIdsAreFree ==
  ASSUME NumbersHold(store, free), NEW gone \in SUBSET DOMAIN store
  PROVE  NumbersHold(Grid!Drop(store, gone), free \cup {store[u] : u \in gone})
<1> DEFINE used == {store[v] : v \in DOMAIN store}
           t == Grid!Drop(store, gone)
           freed == {store[u] : u \in gone}
<1>1. /\ DOMAIN t = DOMAIN store \ gone
      /\ \A v \in DOMAIN store \ gone : t[v] = store[v]
  BY DEF Grid!Drop, Grid!Restrict
<1>2. {t[v] : v \in DOMAIN t} = used \ freed /\ freed \subseteq used
  BY <1>1 DEF NumbersHold
<1>3. (free \cup freed) \cup (used \ freed) = free \cup used
  BY <1>2
<1>4. (free \cup freed) \cap (used \ freed) = {}
  BY DEF NumbersHold
<1>5. \A v, w \in DOMAIN t : t[v] = t[w] => v = w
  BY <1>1 DEF NumbersHold
<1>6. \E k \in Nat : free \cup used = 1..k
  BY DEF NumbersHold
<1> QED
  BY <1>2, <1>3, <1>4, <1>5, <1>6 DEF NumbersHold

LEMMA PumpKeepsGrid ==
  ASSUME GridInv, Grid!Pump
  PROVE  GridInv' /\ (window \cap DOMAIN gridPlaced) \subseteq DOMAIN store'
<1>1. PICK E \in Grid!Evicted(pool) :
        LET kept == Grid!Drop(pool, E)
            gone == DOMAIN store \ DOMAIN kept
            wanted == {u \in window : Grid!NeedsFetch(kept, u)}
        IN  \E F \in SUBSET wanted :
              /\ pool' = [u \in DOMAIN kept \cup F |-> IF u \in F THEN "loading" ELSE kept[u]]
              /\ workers' = [u \in Urls |-> workers[u] + (IF u \in F THEN 1 ELSE 0)]
              /\ store' = Grid!Drop(store, gone)
              /\ free' = free \cup {store[u] : u \in gone}
  BY DEF Grid!Pump
<1> DEFINE kept == Grid!Drop(pool, E)
           gone == DOMAIN store \ DOMAIN kept
           wanted == {u \in window : Grid!NeedsFetch(kept, u)}
<1>2. PICK F \in SUBSET wanted :
        /\ pool' = [u \in DOMAIN kept \cup F |-> IF u \in F THEN "loading" ELSE kept[u]]
        /\ workers' = [u \in Urls |-> workers[u] + (IF u \in F THEN 1 ELSE 0)]
        /\ store' = Grid!Drop(store, gone)
        /\ free' = free \cup {store[u] : u \in gone}
  BY <1>1
<1>3. E \subseteq DOMAIN pool /\ \A u \in E : pool[u] # "loading" /\ u \notin window
  BY DEF Grid!Evicted, Grid!Candidates
<1>4. DOMAIN kept = DOMAIN pool \ E /\ \A u \in DOMAIN kept : kept[u] = pool[u]
  BY DEF Grid!Drop, Grid!Restrict
<1>w. window' = window /\ Grid!Frame
  BY DEF Grid!Pump
<1> HIDE DEF kept
<1>5. F \subseteq window /\ window \subseteq Urls
      /\ \A u \in F : u \notin DOMAIN kept \/ kept[u] = "cooled"
  BY DEF GridInv, Grid!NeedsFetch
<1>6. \A u \in F : u \in Urls /\ workers[u] = 0
  BY <1>3, <1>4, <1>5 DEF GridInv, FetchedOnce
<1>7. /\ DOMAIN store' = DOMAIN store \ gone
      /\ \A u \in DOMAIN store' : store'[u] = store[u]
      /\ store' = [u \in DOMAIN store' |-> store'[u]]
  BY <1>2 DEF Grid!Drop, Grid!Restrict
<1>8. FetchedOnce(pool, workers)'
  <2>1. workers' \in [Urls -> Nat]
    BY <1>2 DEF GridInv, FetchedOnce
  <2>2. ASSUME NEW u \in Urls, workers'[u] > 0
        PROVE  workers'[u] = 1 /\ u \in DOMAIN pool' /\ pool'[u] = "loading"
    <3>1. CASE u \in F
      BY <1>2, <1>6, <3>1
    <3>2. CASE u \notin F
      <4>1. workers'[u] = workers[u] /\ workers[u] = 1
            /\ u \in DOMAIN pool /\ pool[u] = "loading"
        BY <1>2, <2>2, <3>2 DEF GridInv, FetchedOnce
      <4> QED
        BY <1>2, <1>3, <1>4, <3>2, <4>1
    <3> QED
      BY <3>1, <3>2
  <2> QED
    BY <2>1, <2>2 DEF FetchedOnce
<1>9. NumbersHold(store, free)'
  BY <1>2, ForgottenIdsAreFree DEF GridInv
<1>10. /\ pool' \in [DOMAIN pool' -> Grid!Status] /\ DOMAIN pool' \subseteq Urls
       /\ DOMAIN kept \subseteq DOMAIN pool'
  <2>1. \A u \in DOMAIN kept : kept[u] \in Grid!Status
    BY <1>4 DEF GridInv
  <2>2. DOMAIN pool' = DOMAIN kept \cup F
    BY <1>2
  <2> QED
    BY <1>2, <1>4, <1>5, <2>1, <2>2 DEF GridInv, Grid!Status
<1>11. gridPlaced' = [u \in window' \cap DOMAIN store' |-> store'[u]]
  BY <1>w, <1>7, FrameShows
<1>12. DOMAIN store' \subseteq DOMAIN pool'
  BY <1>7, <1>10
<1>13. window \cap DOMAIN gridPlaced \subseteq DOMAIN store'
  <2>1. \A u \in window \cap DOMAIN gridPlaced : u \in DOMAIN store /\ u \in DOMAIN pool
    BY DEF GridInv
  <2> QED
    BY <1>3, <1>4, <1>7, <2>1
<1>14. window' \subseteq Urls
  BY <1>w, <1>5
<1>15. GridInv'
  <2>1. (window \subseteq Urls)'
    BY <1>14
  <2>2. (pool \in [DOMAIN pool -> Grid!Status] /\ DOMAIN pool \subseteq Urls)'
    BY <1>10
  <2>3. (store = [u \in DOMAIN store |-> store[u]] /\ DOMAIN store \subseteq DOMAIN pool)'
    BY <1>7, <1>12
  <2>4. (gridPlaced = [u \in window \cap DOMAIN store |-> store[u]])'
    BY <1>11
  <2> QED
    BY <1>8, <1>9, <2>1, <2>2, <2>3, <2>4 DEF GridInv
<1> QED
  BY <1>13, <1>15

LEMMA LookKeepsGrid ==
  ASSUME GridInv, Grid!Look
  PROVE  GridInv'
<1>1. window' \subseteq Urls /\ Grid!Frame /\ UNCHANGED <<pool, store, free, workers>>
  BY DEF Grid!Look
<1>2. gridPlaced' = [u \in window' \cap DOMAIN store' |-> store'[u]]
  BY <1>1, FrameShows
<1> QED
  BY <1>1, <1>2 DEF GridInv

\* A fetch that is over is no longer loading.
LEMMA AnswerEndsFetch ==
  ASSUME GridInv, NEW u \in Urls, workers[u] > 0, NEW status \in Grid!Status,
         pool' = Grid!Put(pool, u, status), workers' = [workers EXCEPT ![u] = @ - 1]
  PROVE  /\ FetchedOnce(pool, workers)'
         /\ DOMAIN pool' = DOMAIN pool /\ pool' \in [DOMAIN pool' -> Grid!Status]
<1>1. u \in DOMAIN pool /\ workers[u] = 1 /\ workers \in [Urls -> Nat]
  BY DEF GridInv, FetchedOnce
<1>2. /\ DOMAIN pool' = DOMAIN pool /\ pool'[u] = status
      /\ \A v \in DOMAIN pool : v # u => pool'[v] = pool[v]
      /\ pool' = [v \in DOMAIN pool' |-> pool'[v]]
  BY <1>1 DEF Grid!Put
<1>3. pool' \in [DOMAIN pool' -> Grid!Status]
  <2>1. \A v \in DOMAIN pool' : pool'[v] \in Grid!Status
    BY <1>2 DEF GridInv
  <2> QED
    BY <1>2, <2>1
<1>4. workers' \in [Urls -> Nat] /\ workers'[u] = 0
      /\ \A v \in Urls : v # u => workers'[v] = workers[v]
  BY <1>1
<1>5. FetchedOnce(pool, workers)'
  BY <1>1, <1>2, <1>4 DEF GridInv, FetchedOnce
<1> QED
  BY <1>2, <1>3, <1>5

LEMMA DoneKeepsGrid ==
  ASSUME GridInv, Grid!GridCoverDone
  PROVE  GridInv' /\ DOMAIN store \subseteq DOMAIN store'
<1>1. PICK u \in Urls :
        /\ workers[u] > 0
        /\ workers' = [workers EXCEPT ![u] = @ - 1]
        /\ pool' = Grid!Put(pool, u, "ready")
        /\ IF u \in DOMAIN store THEN UNCHANGED <<store, free>>
           ELSE \E n \in Grid!FreshIds : store' = Grid!Put(store, u, n) /\ free' = free \ {n}
  BY DEF Grid!GridCoverDone
<1>2. window' = window /\ Grid!Frame
  BY DEF Grid!GridCoverDone
<1>3. /\ FetchedOnce(pool, workers)'
      /\ DOMAIN pool' = DOMAIN pool /\ pool' \in [DOMAIN pool' -> Grid!Status]
  BY <1>1, AnswerEndsFetch DEF Grid!Status
<1>4. u \in DOMAIN pool
  BY <1>1 DEF GridInv, FetchedOnce
<1>5. /\ NumbersHold(store, free)' /\ store' = [v \in DOMAIN store' |-> store'[v]]
      /\ DOMAIN store \subseteq DOMAIN store' /\ DOMAIN store' \subseteq DOMAIN pool
      /\ \A v \in DOMAIN store : store'[v] = store[v]
  <2>1. CASE u \in DOMAIN store
    <3>1. store' = store /\ free' = free
      BY <1>1, <2>1
    <3> QED
      BY <3>1 DEF GridInv
  <2>2. CASE u \notin DOMAIN store
    <3>1. PICK n \in Grid!FreshIds : store' = Grid!Put(store, u, n) /\ free' = free \ {n}
      BY <1>1, <2>2
    <3>2. NumbersHold(store, free)'
      BY <2>2, <3>1, FreshIdIsFree DEF GridInv
    <3>3. DOMAIN store' = DOMAIN store \cup {u} /\ store' = [v \in DOMAIN store' |-> store'[v]]
      BY <3>1 DEF Grid!Put
    <3>4. \A v \in DOMAIN store : store'[v] = store[v]
      BY <2>2, <3>1 DEF Grid!Put
    <3> QED
      BY <1>4, <3>2, <3>3, <3>4 DEF GridInv
  <2> QED
    BY <2>1, <2>2
<1>6. gridPlaced' = [v \in window' \cap DOMAIN store' |-> store'[v]]
  BY <1>2, <1>5, FrameShows
<1>7. (window \subseteq Urls)' /\ (DOMAIN pool \subseteq Urls)' /\ (DOMAIN store \subseteq DOMAIN pool)'
  BY <1>2, <1>3, <1>5 DEF GridInv
<1> QED
  BY <1>3, <1>5, <1>6, <1>7 DEF GridInv

LEMMA ErrorKeepsGrid ==
  ASSUME GridInv, Grid!GridCoverError
  PROVE  GridInv'
<1>1. PICK u \in Urls : /\ workers[u] > 0
                        /\ workers' = [workers EXCEPT ![u] = @ - 1]
                        /\ pool' = Grid!Put(pool, u, "failed")
  BY DEF Grid!GridCoverError
<1>2. UNCHANGED <<window, store, free>> /\ Grid!Frame
  BY DEF Grid!GridCoverError
<1>3. /\ FetchedOnce(pool, workers)'
      /\ DOMAIN pool' = DOMAIN pool /\ pool' \in [DOMAIN pool' -> Grid!Status]
  BY <1>1, AnswerEndsFetch DEF Grid!Status
<1>4. gridPlaced' = [v \in window' \cap DOMAIN store' |-> store'[v]]
  BY <1>2, FrameShows
<1> QED
  BY <1>2, <1>3, <1>4 DEF GridInv

LEMMA CoolsDownKeepsGrid ==
  ASSUME GridInv, Grid!CoolsDown
  PROVE  GridInv'
<1>1. PICK u \in DOMAIN pool : pool[u] = "failed" /\ pool' = [pool EXCEPT ![u] = "cooled"]
  BY DEF Grid!CoolsDown
<1>2. UNCHANGED <<window, store, free, gridPlaced, workers>>
  BY DEF Grid!CoolsDown
<1>3. pool' \in [DOMAIN pool -> Grid!Status] /\ DOMAIN pool' = DOMAIN pool
      /\ \A v \in DOMAIN pool : v # u => pool'[v] = pool[v]
  BY <1>1 DEF GridInv, Grid!Status
<1>4. FetchedOnce(pool, workers)'
  BY <1>1, <1>2, <1>3 DEF GridInv, FetchedOnce
<1> QED
  BY <1>2, <1>3, <1>4 DEF GridInv

LEMMA GridStep ==
  ASSUME GridInv, [Grid!Next]_(Grid!vars)
  PROVE  GridInv' /\ (Grid!Next => DOMAIN gridPlaced \cap window' \subseteq DOMAIN store')
<1>1. CASE UNCHANGED Grid!vars
  <2>1. UNCHANGED <<window, pool, store, free, gridPlaced, workers>>
    BY <1>1 DEF Grid!vars
  <2>2. NumbersHold(store, free)' /\ FetchedOnce(pool, workers)'
    BY <2>1 DEF GridInv, NumbersHold, FetchedOnce
  <2> QED
    BY <2>1, <2>2 DEF GridInv
<1>s. DOMAIN gridPlaced \subseteq DOMAIN store
  BY DEF GridInv
<1>2. CASE Grid!Look
  BY <1>s, <1>2, LookKeepsGrid DEF Grid!Look
<1>3. CASE Grid!Pump
  BY <1>3, PumpKeepsGrid DEF Grid!Pump
<1>4. CASE Grid!GridCoverDone
  BY <1>s, <1>4, DoneKeepsGrid
<1>5. CASE Grid!GridCoverError
  BY <1>s, <1>5, ErrorKeepsGrid DEF Grid!GridCoverError
<1>6. CASE Grid!CoolsDown
  BY <1>s, <1>6, CoolsDownKeepsGrid DEF Grid!CoolsDown
<1> QED
  BY <1>1, <1>2, <1>3, <1>4, <1>5, <1>6 DEF Grid!Next

LEMMA GridShows ==
  ASSUME GridInv'
  PROVE  Grid!OwnImage' /\ \A u \in Urls : workers'[u] <= 1
<1>1. \A u \in DOMAIN gridPlaced' : u \in DOMAIN store' /\ gridPlaced'[u] = store'[u]
  BY DEF GridInv
<1>2. Grid!OwnImage'
  BY <1>1 DEF GridInv, NumbersHold, Grid!OwnImage
<1>3. \A u \in Urls : workers'[u] <= 1
  BY DEF GridInv, FetchedOnce
<1> QED
  BY <1>2, <1>3

\* Every card keeps showing its own cover while it stays in the window, through
\* evictions and numbers used again, and no cover is fetched twice at a time.
THEOREM CardsShowTheirCovers == Grid!Spec => GridShowsItsCovers
<1>1. GridInv /\ [Grid!Next]_(Grid!vars) => GridInv'
  BY GridStep
<1>2. GridInv /\ [Grid!Next]_(Grid!vars) =>
        [ /\ Grid!OwnImage'
          /\ DOMAIN gridPlaced \cap window' \subseteq DOMAIN store'
          /\ \A u \in Urls : workers'[u] <= 1 ]_(Grid!vars)
  <2> SUFFICES ASSUME GridInv, Grid!Next
               PROVE  /\ Grid!OwnImage'
                      /\ DOMAIN gridPlaced \cap window' \subseteq DOMAIN store'
                      /\ \A u \in Urls : workers'[u] <= 1
    OBVIOUS
  <2>1. GridInv'
    BY GridStep
  <2>2. Grid!OwnImage' /\ \A u \in Urls : workers'[u] <= 1
    BY <2>1, GridShows
  <2> QED
    BY <2>2, GridStep
<1> QED
  BY <1>1, <1>2, GridStarts, PTL DEF Grid!Spec, GridShowsItsCovers, Grid!GridShowsItsCovers

-----------------------------------------------------------------------------
(* When an episode airs and that it has aired (Airing)                     *)

Episode == Air!Episodes

Dates == [Followed -> [Episode -> Nat]]
Announced == [Followed -> [Episode -> 0..2]]
Held == [Air!Lists -> [Followed -> Air!OrNone(BOOLEAN)]]
Answers == [Followed -> Air!OrNone(Air!Airing)]
Library == [Followed -> Air!OrNone(Air!Row)]

\* Episodes air in order, and those to come have a first.
InOrder(a) == \A s \in Followed : \A j, k \in Episode : j < k => a[s][j] < a[s][k]
HasFirst(a, n) ==
    \A s \in Followed : \A e \in Episode : a[s][e] > n =>
        \E k \in Episode : a[s][k] > n /\ \A j \in Episode : a[s][j] > n => k <= j

\* What comes before episode k has aired.
Reached(a, n, s, k) == \A j \in Episode : j < k => a[s][j] <= n

\* Nothing after episode e has been announced.
Silent(t, s, e) == \A k \in Episode : k > e => t[s][k] = 0

\* While an answer about the show is on its way, nothing after what it names can
\* be announced: an answer takes no longer than a step of the clock.
Waits(r, s, x) ==
    r # None /\ r.show = s /\ r.next # None => x.ep <= r.next.ep \/ x.at > r.date + 1

Named(a, n, r, s, x) == x # None => Reached(a, n, s, x.ep) /\ Waits(r, s, x)

\* A row has been announced as far as its mark; one that has none, as far as what
\* it names at most.
RowSound(a, n, r, t, s, q) ==
    /\ Named(a, n, r, s, q.next)
    /\ q.mark # None => Silent(t, s, q.mark)
    /\ q.mark = None /\ q.next # None => Silent(t, s, q.next.ep)
    /\ q.pending => q.mark # None /\ t[s][q.mark] = 1
RowsSound(a, n, r, t, rows) ==
    \A s \in Followed : rows[s] # None => RowSound(a, n, r, t, s, rows[s])

\* A run's answers name nothing before what has been announced: nothing is
\* announced before the run ends.
AnswersSound(a, n, r, t, x) ==
    \A s \in Followed : x[s] # None => Named(a, n, r, s, x[s]) /\ Silent(t, s, x[s].ep)

ReplySound(a, n, r, t) ==
    r # None /\ r.next # None =>
        /\ Reached(a, n, r.show, r.next.ep) /\ Silent(t, r.show, r.next.ep)
        /\ a[r.show][r.next.ep] > r.date

ToldSound(a, n, t) ==
    \A s \in Followed : \A k \in Episode : t[s][k] <= 1 /\ (t[s][k] > 0 => Reached(a, n, s, k))

MarkersSound(m, rows) ==
    \A s \in Followed : m["History"][s] # None => rows[s] # None /\ m["History"][s] = rows[s].pending

\* A process that is down holds nothing.
Down == ~up => reply = None /\ run = Air!NoRun /\ markers = Air!NoRows

Prompt(r, n) == r # None => n = r.date \/ n = r.date + 1

AirInv ==
    /\ Air!TypeOK /\ Down /\ Prompt(reply, now)
    /\ InOrder(airs) /\ HasFirst(airs, now)
    /\ RowsSound(airs, now, reply, told, dated)
    /\ AnswersSound(airs, now, reply, told, run.answer)
    /\ ReplySound(airs, now, reply, told)
    /\ ToldSound(airs, now, told)
    /\ MarkersSound(markers, dated)

LEMMA AirTypes ==
  ASSUME AirInv
  PROVE  /\ now \in Nat /\ airs \in Dates /\ dated \in Library /\ markers \in Held
         /\ run \in Air!Run /\ run.answer \in Answers /\ reply \in Air!OrNone(Air!Reply)
         /\ told \in Announced
<1>1. run \in Air!Run
  BY DEF AirInv, Air!TypeOK
<1>2. run.answer \in Answers
  BY <1>1 DEF Air!Run, Answers
<1> QED
  BY <1>1, <1>2 DEF AirInv, Air!TypeOK, Dates, Library, Held, Announced, Episode

LEMMA EpisodeIs == Episode = 1..LastEp /\ LastEp \in Nat /\ \A k \in Episode : k \in Nat \ {0}
BY AiringAssumption DEF Episode, Air!Episodes

LEMMA AirStarts == Air!Init => AirInv
<1> SUFFICES ASSUME Air!Init PROVE AirInv
  OBVIOUS
<1>0. \A k \in Episode : k \in Nat \ {0}
  BY EpisodeIs
<1>1. /\ now = 0 /\ up = TRUE /\ run = Air!NoRun /\ reply = None /\ markers = Air!NoRows
      /\ dated = [s \in Followed |-> None]
      /\ airs = [s \in Followed |-> [k \in Episode |-> k]]
      /\ told = [s \in Followed |-> [k \in Episode |-> 0]]
  BY DEF Air!Init, Episode
<1>2. airs \in Dates /\ told \in Announced /\ dated \in Library
  BY <1>0, <1>1 DEF Dates, Announced, Library, Air!OrNone
<1>3. run \in Air!Run /\ \A s \in Followed : run.answer[s] = None
  BY <1>1 DEF Air!Run, Air!NoRun, Air!OrNone
<1>4. markers \in Held /\ \A s \in Followed : markers["History"][s] = None
  BY <1>1 DEF Held, Air!NoRows, Air!OrNone, Air!Lists
<1>5. Air!TypeOK
  BY <1>1, <1>2, <1>3, <1>4
     DEF Air!TypeOK, Dates, Library, Held, Announced, Episode, Air!OrNone
<1>6. InOrder(airs) /\ HasFirst(airs, now)
  <2>1. \A s \in Followed : \A k \in Episode : airs[s][k] = k
    BY <1>1
  <2>2. InOrder(airs)
    BY <2>1 DEF InOrder
  <2>3. ASSUME NEW s \in Followed, NEW e \in Episode
        PROVE  \E k \in Episode : airs[s][k] > now /\ \A j \in Episode : airs[s][j] > now => k <= j
    <3>1. 1 \in Episode /\ airs[s][1] > now /\ \A j \in Episode : airs[s][j] > now => 1 <= j
      BY <2>1, <1>0, <1>1, EpisodeIs
    <3> QED
      BY <3>1
  <2> QED
    BY <2>2, <2>3 DEF HasFirst
<1>7. /\ RowsSound(airs, now, reply, told, dated) /\ ReplySound(airs, now, reply, told)
      /\ AnswersSound(airs, now, reply, told, run.answer)
      /\ MarkersSound(markers, dated)
  BY <1>1, <1>3, <1>4 DEF RowsSound, ReplySound, AnswersSound, MarkersSound
<1>8. ToldSound(airs, now, told)
  BY <1>1 DEF ToldSound
<1> QED
  BY <1>1, <1>5, <1>6, <1>7, <1>8 DEF AirInv, Down, Prompt

-----------------------------------------------------------------------------
(* AniList *)

\* What next_airing_episode names is the first that has not aired.
LEMMA NextIsFirst ==
  ASSUME AirInv, NEW s \in Followed
  PROVE  /\ Air!NextOf(s) \in Air!OrNone(Air!Airing)
         /\ Air!NextOf(s) # None =>
               /\ Air!NextOf(s).ep \in Episode
               /\ Air!NextOf(s).at = airs[s][Air!NextOf(s).ep]
               /\ airs[s][Air!NextOf(s).ep] > now
               /\ Reached(airs, now, s, Air!NextOf(s).ep)
<1>1. CASE Air!ToAir(s) = {}
  BY <1>1 DEF Air!NextOf, Air!OrNone
<1>2. CASE Air!ToAir(s) # {}
  <2> DEFINE k == CHOOSE k \in Air!ToAir(s) : \A j \in Air!ToAir(s) : k <= j
  <2>0. now \in Nat /\ \A j \in Episode : j \in Nat /\ airs[s][j] \in Nat
    BY AirTypes, EpisodeIs DEF Dates
  <2>1. Air!ToAir(s) = {j \in Episode : airs[s][j] > now}
    BY DEF Air!ToAir, Episode
  <2>2. \E j \in Air!ToAir(s) : \A i \in Air!ToAir(s) : j <= i
    BY <1>2, <2>1 DEF AirInv, HasFirst
  <2>3. k \in Air!ToAir(s) /\ \A j \in Air!ToAir(s) : k <= j
    BY <2>2
  <2>4. k \in Episode /\ airs[s][k] > now
    BY <2>1, <2>3
  <2>5. Reached(airs, now, s, k)
    <3> SUFFICES ASSUME NEW j \in Episode, j < k PROVE airs[s][j] <= now
      BY DEF Reached
    <3>1. j \notin Air!ToAir(s)
      BY <2>0, <2>3, <2>4
    <3> QED
      BY <2>0, <2>1, <3>1
  <2>6. Air!NextOf(s) = [ep |-> k, at |-> airs[s][k]]
    BY <1>2 DEF Air!NextOf
  <2> HIDE DEF k
  <2>7. Air!NextOf(s) \in Air!Airing
    BY <2>0, <2>4, <2>6 DEF Air!Airing, Episode
  <2> QED
    BY <2>4, <2>5, <2>6, <2>7 DEF Air!OrNone
<1> QED
  BY <1>1, <1>2

\* It comes no earlier than what an answer on its way names, and what comes
\* later than that airs too late to be announced before the answer is handled.
LEMMA NextIsNamed ==
  ASSUME AirInv, NEW s \in Followed
  PROVE  Named(airs, now, reply, s, Air!NextOf(s))
<1> DEFINE x == Air!NextOf(s)
<1>1. CASE x = None
  BY <1>1 DEF Named
<1>2. CASE x # None
  <2>1. x.ep \in Episode /\ x.at = airs[s][x.ep] /\ Reached(airs, now, s, x.ep)
    BY <1>2, NextIsFirst
  <2>2. ASSUME reply # None, reply.show = s, reply.next # None, ~(x.ep <= reply.next.ep)
        PROVE  x.at > reply.date + 1
    <3>1. reply \in Air!Reply /\ reply.next \in Air!Airing
      BY <2>2, AirTypes DEF Air!OrNone, Air!Reply
    <3>2. reply.next.ep \in Episode /\ reply.date \in Nat
      BY <3>1 DEF Air!Airing, Air!Reply, Episode
    <3>3. airs[s][reply.next.ep] > reply.date
      BY <2>2 DEF AirInv, ReplySound
    <3>4. airs[s][reply.next.ep] < airs[s][x.ep]
      <4>1. reply.next.ep < x.ep
        BY <2>1, <2>2, <3>2, EpisodeIs
      <4> QED
        BY <2>1, <3>2, <4>1 DEF AirInv, InOrder
    <3>5. airs[s][reply.next.ep] \in Nat /\ airs[s][x.ep] \in Nat
      BY <2>1, <3>2, AirTypes DEF Dates
    <3> QED
      BY <2>1, <3>2, <3>3, <3>4, <3>5
  <2> QED
    BY <2>1, <2>2 DEF Named, Waits
<1> QED
  BY <1>1, <1>2

\* Nothing after it has been announced.
LEMMA NextIsSilent ==
  ASSUME AirInv, NEW s \in Followed, Air!NextOf(s) # None
  PROVE  Silent(told, s, Air!NextOf(s).ep)
<1> DEFINE e == Air!NextOf(s).ep
<1>1. e \in Episode /\ airs[s][e] > now
  BY NextIsFirst
<1>2. ASSUME NEW k \in Episode, k > e
      PROVE  told[s][k] = 0
  <2>1. ~Reached(airs, now, s, k)
    <3>1. airs[s][e] \in Nat /\ now \in Nat /\ e < k
      BY <1>1, <1>2, AirTypes, EpisodeIs DEF Dates
    <3> QED
      BY <1>1, <3>1 DEF Reached
  <2>2. ~(told[s][k] > 0) /\ told[s][k] \in 0..2
    BY <2>1, AirTypes DEF AirInv, ToldSound, Announced
  <2> QED
    BY <2>2
<1> QED
  BY <1>2 DEF Silent

-----------------------------------------------------------------------------
(* Time, and an episode that is put off: what has aired stays so.          *)

LEMMA ReachedStays ==
  ASSUME NEW a, NEW b, NEW n, NEW m,
         \A s \in Followed : \A j \in Episode : a[s][j] <= n => b[s][j] <= m
  PROVE  \A s \in Followed : \A k : Reached(a, n, s, k) => Reached(b, m, s, k)
BY DEF Reached

LEMMA ClockKeeps ==
  ASSUME AirInv, now' \in Nat, airs' \in Dates, Prompt(reply, now'),
         InOrder(airs'), HasFirst(airs', now'),
         \A s \in Followed : \A j \in Episode :
             (airs[s][j] <= now => airs'[s][j] <= now') /\ airs[s][j] <= airs'[s][j],
         UNCHANGED <<dated, up, markers, run, reply, told>>
  PROVE  AirInv'
<1>1. \A s \in Followed : \A k : Reached(airs, now, s, k) => Reached(airs', now', s, k)
  BY ReachedStays
<1>2. \A s \in Followed : \A x : Named(airs, now, reply, s, x) => Named(airs', now', reply, s, x)
  BY <1>1 DEF Named
<1>3. RowsSound(airs', now', reply, told, dated) /\ AnswersSound(airs', now', reply, told, run.answer)
  BY <1>2 DEF AirInv, RowsSound, RowSound, AnswersSound
<1>4. ToldSound(airs', now', told)
  BY <1>1 DEF AirInv, ToldSound
<1>5. ReplySound(airs', now', reply, told)
  <2> SUFFICES ASSUME reply # None, reply.next # None PROVE ReplySound(airs', now', reply, told)
    BY DEF ReplySound
  <2>1. /\ reply.show \in Followed /\ reply.next.ep \in Episode /\ reply.date \in Nat
    BY AirTypes DEF Air!OrNone, Air!Reply, Air!Airing, Episode
  <2>2. airs[reply.show][reply.next.ep] \in Nat /\ airs'[reply.show][reply.next.ep] \in Nat
    BY <2>1, AirTypes DEF Dates
  <2>3. airs'[reply.show][reply.next.ep] > reply.date
    BY <2>1, <2>2 DEF AirInv, ReplySound
  <2> QED
    BY <1>1, <2>1, <2>3 DEF AirInv, ReplySound
<1>6. Air!TypeOK'
  BY DEF AirInv, Air!TypeOK, Dates, Episode
<1> QED
  BY <1>3, <1>4, <1>5, <1>6 DEF AirInv, Down, Prompt

LEMMA TimeKeeps ==
  ASSUME AirInv, Air!TimePasses
  PROVE  AirInv'
<1>1. now \in Nat /\ now' = now + 1 /\ airs' = airs /\ airs \in Dates
  BY AirTypes DEF Air!TimePasses
<1>2. Prompt(reply, now')
  BY <1>1 DEF Air!TimePasses, Prompt
<1>3. \A s \in Followed : \A j \in Episode : airs[s][j] \in Nat
  BY <1>1 DEF Dates
<1>4. HasFirst(airs', now')
  <2> SUFFICES ASSUME NEW s \in Followed, NEW e \in Episode, airs[s][e] > now + 1
               PROVE  \E k \in Episode : /\ airs[s][k] > now + 1
                                         /\ \A j \in Episode : airs[s][j] > now + 1 => k <= j
    BY <1>1 DEF HasFirst
  <2>1. airs[s][e] > now
    BY <1>1, <1>3
  <2>2. PICK k \in Episode : airs[s][k] > now /\ \A j \in Episode : airs[s][j] > now => k <= j
    BY <2>1 DEF AirInv, HasFirst
  <2>3. \A j \in Episode : airs[s][j] > now + 1 => k <= j
    BY <1>1, <1>3, <2>2
  <2>4. CASE airs[s][k] > now + 1
    BY <2>3, <2>4
  <2>5. CASE ~(airs[s][k] > now + 1)
    <3>1. k <= e /\ k # e
      BY <2>3, <2>5
    <3>2. k + 1 \in Episode /\ k < k + 1
      BY <3>1, EpisodeIs
    <3>3. airs[s][k] < airs[s][k + 1]
      BY <3>2 DEF AirInv, InOrder
    <3>4. airs[s][k + 1] > now + 1
      BY <1>1, <1>3, <2>2, <3>2, <3>3
    <3>5. \A j \in Episode : airs[s][j] > now + 1 => k + 1 <= j
      BY <2>3, <2>5, EpisodeIs
    <3> QED
      BY <3>2, <3>4, <3>5
  <2> QED
    BY <2>4, <2>5
<1>5. \A s \in Followed : \A j \in Episode :
        (airs[s][j] <= now => airs'[s][j] <= now') /\ airs[s][j] <= airs'[s][j]
  BY <1>1, <1>3
<1>6. InOrder(airs') /\ UNCHANGED <<dated, up, markers, run, reply, told>>
  BY <1>1 DEF AirInv, Air!TimePasses
<1> QED
  BY <1>1, <1>2, <1>4, <1>5, <1>6, ClockKeeps

LEMMA DelayKeeps ==
  ASSUME AirInv, NEW s \in Followed, Air!Delayed(s)
  PROVE  AirInv'
<1>1. PICK k \in Air!ToAir(s) :
        airs' = [airs EXCEPT ![s] = [j \in Episode |-> @[j] + IF j >= k THEN 1 ELSE 0]]
  BY DEF Air!Delayed, Episode
<1>2. k \in Episode /\ airs[s][k] > now
  BY DEF Air!ToAir, Episode
<1>3. now \in Nat /\ airs \in Dates /\ \A z \in Followed : \A j \in Episode : airs[z][j] \in Nat
  BY AirTypes DEF Dates
<1>4. \A j \in Episode : airs'[s][j] = airs[s][j] + IF j >= k THEN 1 ELSE 0
  BY <1>1, <1>3 DEF Dates
<1>5. \A z \in Followed \ {s} : airs'[z] = airs[z]
  BY <1>1, <1>3 DEF Dates
<1>6. airs' \in Dates
  <2>1. [j \in Episode |-> airs[s][j] + IF j >= k THEN 1 ELSE 0] \in [Episode -> Nat]
    BY <1>3
  <2> QED
    BY <1>1, <1>3, <2>1 DEF Dates
<1>7. \A z \in Followed : \A j \in Episode : airs'[z][j] \in Nat
  BY <1>6 DEF Dates
<1>8. InOrder(airs')
  <2> SUFFICES ASSUME NEW z \in Followed, NEW i \in Episode, NEW j \in Episode, i < j
               PROVE  airs'[z][i] < airs'[z][j]
    BY DEF InOrder
  <2>1. airs[z][i] < airs[z][j]
    BY DEF AirInv, InOrder
  <2>2. CASE z = s
    <3>1. i \in Nat /\ j \in Nat /\ k \in Nat
      BY <1>2, EpisodeIs
    <3>2. airs'[s][i] = airs[s][i] + (IF i >= k THEN 1 ELSE 0)
          /\ airs'[s][j] = airs[s][j] + (IF j >= k THEN 1 ELSE 0)
      BY <1>4
    <3> QED
      BY <1>3, <2>1, <2>2, <3>1, <3>2
  <2> QED
    BY <1>5, <2>1, <2>2
<1>9. \A z \in Followed : \A j \in Episode :
        (airs[z][j] <= now <=> airs'[z][j] <= now) /\ airs[z][j] <= airs'[z][j]
  <2> SUFFICES ASSUME NEW z \in Followed, NEW j \in Episode
               PROVE  (airs[z][j] <= now <=> airs'[z][j] <= now) /\ airs[z][j] <= airs'[z][j]
    OBVIOUS
  <2>1. CASE z = s /\ j >= k
    <3>1. airs'[s][j] = airs[s][j] + 1
      BY <1>4, <2>1
    <3>2. airs[s][j] > now
      <4>1. j = k \/ k < j
        BY <1>2, <2>1, EpisodeIs
      <4>2. k < j => airs[s][k] < airs[s][j]
        BY <1>2 DEF AirInv, InOrder
      <4> QED
        BY <1>2, <1>3, <4>1, <4>2
    <3> QED
      BY <1>3, <2>1, <3>1, <3>2
  <2>2. CASE z = s /\ ~(j >= k)
    BY <1>3, <1>4, <2>2
  <2>3. CASE z # s
    BY <1>3, <1>5, <2>3
  <2> QED
    BY <2>1, <2>2, <2>3
<1>10. HasFirst(airs', now)
  <2>1. \A z \in Followed : \A j \in Episode : airs[z][j] > now <=> airs'[z][j] > now
    BY <1>3, <1>7, <1>9
  <2> QED
    BY <2>1 DEF AirInv, HasFirst
<1>11. UNCHANGED <<now, dated, up, markers, run, reply, told>>
  BY DEF Air!Delayed
<1> QED
  BY <1>3, <1>6, <1>8, <1>9, <1>10, <1>11, ClockKeeps DEF AirInv

-----------------------------------------------------------------------------
(* The library's rows and their copies                                     *)

LEMMA ReloadedHolds ==
  ASSUME NEW c \in Held, NEW rows \in Library, NEW views
  PROVE  /\ Air!Reloaded(c, rows, views) \in Held
         /\ "History" \in views \/ MarkersSound(c, rows) =>
               MarkersSound(Air!Reloaded(c, rows, views), rows)
<1> DEFINE m == Air!Reloaded(c, rows, views)
<1>1. \A s \in Followed : rows[s] # None => rows[s] \in Air!Row /\ rows[s].pending \in BOOLEAN
  BY DEF Library, Air!OrNone, Air!Row
<1>2. Air!Loaded(rows) \in [Followed -> Air!OrNone(BOOLEAN)]
  BY <1>1 DEF Air!Loaded, Air!OrNone
<1>3. m = [l \in Air!Lists |-> IF l \in views THEN Air!Loaded(rows) ELSE c[l]]
  BY DEF Air!Reloaded
<1>4. m \in Held
  BY <1>2, <1>3 DEF Held
<1>5. "History" \in Air!Lists
  BY DEF Air!Lists
<1>6. CASE "History" \in views
  <2>1. m["History"] = Air!Loaded(rows)
    BY <1>3, <1>5, <1>6
  <2>2. \A s \in Followed : m["History"][s] = IF rows[s] = None THEN None ELSE rows[s].pending
    BY <2>1 DEF Air!Loaded
  <2>3. MarkersSound(m, rows)
    BY <2>2 DEF MarkersSound
  <2> QED
    BY <1>4, <2>3
<1>7. CASE "History" \notin views
  <2>1. m["History"] = c["History"]
    BY <1>3, <1>5, <1>7
  <2>2. MarkersSound(c, rows) => MarkersSound(m, rows)
    BY <2>1 DEF MarkersSound
  <2> QED
    BY <1>4, <1>7, <2>2
<1> QED
  BY <1>6, <1>7

\* A step that neither moves the clock nor announces: what it writes is sound.
LEMMA RestKeeps ==
  ASSUME AirInv, UNCHANGED <<now, airs, told, up>>, reply' \in {reply, None}, up = TRUE,
         dated' \in Library, RowsSound(airs, now, reply, told, dated'),
         run' \in Air!Run, AnswersSound(airs, now, reply, told, run'.answer),
         markers' \in Held, MarkersSound(markers', dated')
  PROVE  AirInv'
<1>1. Air!TypeOK'
  BY DEF AirInv, Air!TypeOK, Library, Held, Air!OrNone
<1>2. \A s, x : Named(airs, now, reply, s, x) => Named(airs', now', reply', s, x)
  BY DEF Named, Waits
<1>3. RowsSound(airs', now', reply', told', dated')
  BY <1>2 DEF RowsSound, RowSound
<1>4. AnswersSound(airs', now', reply', told', run'.answer)
  BY <1>2 DEF AnswersSound
<1>5. ReplySound(airs', now', reply', told') /\ Prompt(reply', now')
  BY DEF AirInv, ReplySound, Prompt
<1>6. InOrder(airs') /\ HasFirst(airs', now') /\ ToldSound(airs', now', told')
  BY DEF AirInv
<1> QED
  BY <1>1, <1>3, <1>4, <1>5, <1>6 DEF AirInv, Down

\* One row is written.
LEMMA RowWritten ==
  ASSUME AirInv, NEW s \in Followed, NEW q \in Air!OrNone(Air!Row),
         q # None => RowSound(airs, now, reply, told, s, q),
         NEW rows, rows = [dated EXCEPT ![s] = q]
  PROVE  rows \in Library /\ RowsSound(airs, now, reply, told, rows)
<1>1. dated \in Library
  BY AirTypes
<1>2. rows \in Library /\ rows[s] = q /\ \A z \in Followed \ {s} : rows[z] = dated[z]
  BY <1>1 DEF Library
<1> QED
  BY <1>2 DEF AirInv, RowsSound

LEMMA SameKeeps ==
  ASSUME AirInv, up = TRUE, NEW s \in Followed, NEW q \in Air!OrNone(Air!Row),
         q # None => RowSound(airs, now, reply, told, s, q),
         NEW views, "History" \in views \/ dated[s] = None, Air!Same(s, q, views)
  PROVE  AirInv'
<1>1. dated' = [dated EXCEPT ![s] = q] /\ markers' = Air!Reloaded(markers, dated', views)
      /\ UNCHANGED <<now, airs, up, run, reply, told>>
  BY DEF Air!Same
<1>2. dated' \in Library /\ RowsSound(airs, now, reply, told, dated')
  BY <1>1, RowWritten
<1>3. "History" \in views \/ MarkersSound(markers, dated')
  <2> SUFFICES ASSUME dated[s] = None PROVE MarkersSound(markers, dated')
    OBVIOUS
  <2>1. markers["History"][s] = None
    BY DEF AirInv, MarkersSound
  <2>2. \A z \in Followed \ {s} : dated'[z] = dated[z]
    BY <1>1, AirTypes DEF Library
  <2> QED
    BY <2>1, <2>2 DEF AirInv, MarkersSound
<1>4. markers' \in Held /\ MarkersSound(markers', dated')
  BY <1>1, <1>2, <1>3, AirTypes, ReloadedHolds
<1>5. run' \in Air!Run /\ AnswersSound(airs, now, reply, told, run'.answer)
  BY <1>1, AirTypes DEF AirInv
<1> QED
  BY <1>1, <1>2, <1>4, <1>5, RestKeeps

LEMMA AddKeeps ==
  ASSUME AirInv, NEW s \in Followed, Air!Add(s)
  PROVE  AirInv'
<1>1. up = TRUE /\ dated[s] = None
  BY DEF Air!Add, Air!Gesture, AirInv, Air!TypeOK
<1>2. PICK next \in {None, Air!NextOf(s)}, calendar \in BOOLEAN :
        Air!Same(s, [calendar |-> calendar, next |-> next, over |-> Air!ToAir(s) = {},
                     mark |-> None, pending |-> FALSE], {})
  BY DEF Air!Add
<1> DEFINE over == Air!ToAir(s) = {}
           q == [calendar |-> calendar, next |-> next, over |-> over,
                 mark |-> None, pending |-> FALSE]
<1>3. next \in Air!OrNone(Air!Airing) /\ Named(airs, now, reply, s, next)
      /\ (next # None => Silent(told, s, next.ep))
  BY NextIsFirst, NextIsNamed, NextIsSilent DEF Air!OrNone, Named
<1>4. over \in BOOLEAN
  OBVIOUS
<1> HIDE DEF over
<1>5. q \in Air!Row
  BY <1>3, <1>4 DEF Air!Row, Air!OrNone
<1>6. RowSound(airs, now, reply, told, s, q)
  BY <1>3 DEF RowSound
<1>7. Air!Same(s, q, {})
  BY <1>2 DEF over
<1> QED
  BY <1>1, <1>5, <1>6, <1>7, SameKeeps DEF Air!OrNone

LEMMA DeleteKeeps ==
  ASSUME AirInv, NEW s \in Followed, Air!Delete(s)
  PROVE  AirInv'
<1>1. up = TRUE
  BY DEF Air!Delete, Air!Gesture, AirInv, Air!TypeOK
<1> QED
  BY <1>1, SameKeeps DEF Air!Delete, Air!OrNone

LEMMA StatusKeeps ==
  ASSUME AirInv, NEW s \in Followed, Air!SetStatus(s)
  PROVE  AirInv'
<1> DEFINE q == [dated[s] EXCEPT !.calendar = ~@]
<1>1. up = TRUE /\ dated[s] # None /\ Air!Same(s, q, {"History"})
  BY DEF Air!SetStatus, Air!Gesture, AirInv, Air!TypeOK
<1>2. dated[s] \in Air!Row /\ RowSound(airs, now, reply, told, s, dated[s])
  BY <1>1, AirTypes DEF Library, Air!OrNone, AirInv, RowsSound
<1>3. q \in Air!Row /\ q.next = dated[s].next /\ q.mark = dated[s].mark
      /\ q.pending = dated[s].pending
  BY <1>2 DEF Air!Row
<1>4. RowSound(airs, now, reply, told, s, q)
  BY <1>2, <1>3 DEF RowSound
<1> QED
  BY <1>1, <1>3, <1>4, SameKeeps DEF Air!OrNone

LEMMA GoToKeeps ==
  ASSUME AirInv, NEW l \in Air!Lists, Air!GoTo(l)
  PROVE  AirInv'
<1>1. up = TRUE /\ UNCHANGED <<now, airs, dated, up, run, reply, told>>
      /\ markers' = Air!Reloaded(markers, dated, {l})
  BY DEF Air!GoTo, Air!Gesture, AirInv, Air!TypeOK
<1>2. markers' \in Held /\ MarkersSound(markers', dated')
  BY <1>1, AirTypes, ReloadedHolds DEF AirInv
<1> QED
  BY <1>1, <1>2, AirTypes, RestKeeps DEF AirInv

\* Opening takes the marker off.
LEMMA OpenKeeps ==
  ASSUME AirInv, NEW s \in Followed, Air!Open(s)
  PROVE  AirInv'
<1> DEFINE q == IF dated[s] = None THEN None ELSE [dated[s] EXCEPT !.pending = FALSE]
<1>1. up = TRUE /\ UNCHANGED <<now, airs, up, run, reply, told>>
      /\ dated' = [dated EXCEPT ![s] = q]
      /\ markers' = [l \in Air!Lists |->
                       [markers[l] EXCEPT ![s] = IF @ = None THEN None ELSE FALSE]]
  BY DEF Air!Open, Air!Gesture, AirInv, Air!TypeOK
<1>2. dated \in Library /\ markers \in Held
  BY AirTypes
<1>3. dated[s] # None => dated[s] \in Air!Row /\ RowSound(airs, now, reply, told, s, dated[s])
  BY <1>2 DEF Library, Air!OrNone, AirInv, RowsSound
<1>4. dated[s] # None =>
        q \in Air!Row /\ q.next = dated[s].next /\ q.mark = dated[s].mark /\ q.pending = FALSE
  BY <1>3 DEF Air!Row
<1>5. q \in Air!OrNone(Air!Row) /\ (q # None => RowSound(airs, now, reply, told, s, q))
  BY <1>3, <1>4 DEF RowSound, Air!OrNone
<1>6. dated' \in Library /\ RowsSound(airs, now, reply, told, dated')
  <2> HIDE DEF q
  <2> QED
    BY <1>1, <1>5, RowWritten
<1>7. markers' \in Held
  BY <1>1, <1>2 DEF Held, Air!OrNone
<1>8. /\ \A z \in Followed \ {s} : dated'[z] = dated[z] /\ markers'["History"][z] = markers["History"][z]
      /\ markers'["History"][s] = IF markers["History"][s] = None THEN None ELSE FALSE
      /\ dated'[s] = q
  BY <1>1, <1>2 DEF Library, Held, Air!Lists
<1>9. MarkersSound(markers', dated')
  <2>1. markers["History"][s] # None => q # None /\ q.pending = FALSE
    BY <1>3, <1>4, AiringAssumption DEF AirInv, MarkersSound
  <2>2. markers'["History"][s] # None => dated'[s] # None /\ markers'["History"][s] = dated'[s].pending
    BY <1>8, <2>1
  <2> QED
    BY <1>8, <2>2 DEF AirInv, MarkersSound
<1> QED
  BY <1>1, <1>6, <1>7, <1>9, AirTypes, RestKeeps DEF AirInv

-----------------------------------------------------------------------------
(* The show on screen                                                      *)

\* Nothing that is stored or under way names an episode after the first to air.
LEMMA AskedKeeps ==
  ASSUME AirInv, NEW s \in Followed, Air!Asked(s)
  PROVE  AirInv'
<1> DEFINE over == Air!ToAir(s) = {}
           x == Air!NextOf(s)
<1>1. up = TRUE /\ reply = None /\ UNCHANGED <<now, airs, dated, up, markers, run, told>>
  BY DEF Air!Asked, AirInv, Air!TypeOK
<1>2. reply' = [show |-> s, next |-> x, over |-> over, date |-> now]
  BY DEF Air!Asked
<1>3. over \in BOOLEAN
  OBVIOUS
<1>4. now \in Nat /\ x \in Air!OrNone(Air!Airing)
  BY AirTypes, NextIsFirst
<1>5. x # None => /\ x.ep \in Episode /\ airs[s][x.ep] > now
                  /\ Reached(airs, now, s, x.ep) /\ Silent(told, s, x.ep)
  BY NextIsFirst, NextIsSilent
<1> HIDE DEF over, x
<1>6. /\ reply' \in Air!Reply /\ reply'.show = s /\ reply'.next = x /\ reply'.date = now
  BY <1>2, <1>3, <1>4 DEF Air!Reply
<1>7. Prompt(reply', now) /\ ReplySound(airs, now, reply', told)
  BY <1>5, <1>6 DEF Prompt, ReplySound
<1>8. ASSUME NEW z \in Followed, NEW y \in Air!OrNone(Air!Airing), Named(airs, now, reply, z, y)
      PROVE  Named(airs, now, reply', z, y)
  <2> SUFFICES ASSUME y # None, z = s, x # None PROVE y.ep <= x.ep
    BY <1>6, <1>8 DEF Named, Waits
  <2>1. Reached(airs, now, s, y.ep) /\ y.ep \in Episode
    BY <1>8 DEF Named, Air!OrNone, Air!Airing, Episode
  <2>2. ~(x.ep < y.ep)
    <3>1. airs[s][x.ep] \in Nat
      BY <1>5, AirTypes DEF Dates
    <3> QED
      BY <1>4, <1>5, <2>1, <3>1 DEF Reached
  <2> QED
    BY <1>5, <2>1, <2>2, EpisodeIs
<1>9. RowsSound(airs, now, reply', told, dated)
  <2>1. \A z \in Followed : dated[z] # None =>
          RowSound(airs, now, reply, told, z, dated[z]) /\ dated[z].next \in Air!OrNone(Air!Airing)
    BY AirTypes DEF AirInv, RowsSound, Library, Air!OrNone, Air!Row
  <2> QED
    BY <1>8, <2>1 DEF RowsSound, RowSound
<1>10. AnswersSound(airs, now, reply', told, run.answer)
  <2>1. \A z \in Followed : run.answer[z] \in Air!OrNone(Air!Airing)
    BY AirTypes DEF Answers
  <2> QED
    BY <1>8, <2>1 DEF AirInv, AnswersSound
<1>11. Air!TypeOK'
  BY <1>1, <1>6 DEF AirInv, Air!TypeOK, Air!OrNone
<1> QED
  BY <1>1, <1>7, <1>9, <1>10, <1>11 DEF AirInv, Down

LEMMA EnrichmentKeeps ==
  ASSUME AirInv, Air!OnEnrichmentRefreshed
  PROVE  AirInv'
<1> DEFINE s == reply.show
           views == {"History"} \cup (Air!OnHand(markers) \ {"History"})
           q == IF dated[s] = None THEN None ELSE Air!Merged(dated[s], reply)
<1>1. up = TRUE /\ reply # None /\ reply' = None /\ UNCHANGED <<now, airs, up, run, told>>
  BY DEF Air!OnEnrichmentRefreshed, AirInv, Air!TypeOK
<1>2. reply \in Air!Reply
  BY <1>1, AirTypes DEF Air!OrNone
<1>3. s \in Followed /\ reply.next \in Air!OrNone(Air!Airing) /\ reply.over \in BOOLEAN
  BY <1>2 DEF Air!Reply
<1>4. /\ dated' = [dated EXCEPT ![s] = q]
      /\ markers' = IF dated[s] # None THEN Air!Reloaded(markers, dated', views) ELSE markers
  BY DEF Air!OnEnrichmentRefreshed
<1>5. dated[s] # None => dated[s] \in Air!Row /\ RowSound(airs, now, reply, told, s, dated[s])
  BY <1>3, AirTypes DEF Library, Air!OrNone, AirInv, RowsSound
<1>6. dated[s] # None =>
        /\ q \in Air!Row /\ q.mark = dated[s].mark /\ q.pending = dated[s].pending
        /\ q.next = IF reply.next = None THEN dated[s].next ELSE reply.next
  BY <1>3, <1>5 DEF Air!Merged, Air!Row
<1>7. q \in Air!OrNone(Air!Row)
  BY <1>6 DEF Air!OrNone
<1>8. q # None => RowSound(airs, now, reply, told, s, q)
  <2> SUFFICES ASSUME dated[s] # None PROVE RowSound(airs, now, reply, told, s, q)
    OBVIOUS
  <2>1. CASE reply.next = None
    <3> HIDE DEF q
    <3> QED
      BY <1>5, <1>6, <2>1 DEF RowSound
  <2>2. CASE reply.next # None
    <3>1. reply.next.ep \in Nat
      BY <1>3, <2>2, EpisodeIs DEF Air!OrNone, Air!Airing, Episode
    <3>2. Named(airs, now, reply, s, reply.next) /\ Silent(told, s, reply.next.ep)
      BY <1>1, <2>2, <3>1 DEF AirInv, ReplySound, Named, Waits
    <3> HIDE DEF q
    <3> QED
      BY <1>5, <1>6, <2>2, <3>2 DEF RowSound
  <2> QED
    BY <2>1, <2>2
<1> HIDE DEF q
<1>9. dated' \in Library /\ RowsSound(airs, now, reply, told, dated')
  BY <1>3, <1>4, <1>7, <1>8, RowWritten
<1>10. markers' \in Held /\ MarkersSound(markers', dated')
  <2>1. CASE dated[s] # None
    BY <1>4, <1>9, <2>1, AirTypes, ReloadedHolds
  <2>2. CASE dated[s] = None
    <3>1. q = None
      BY <2>2 DEF q
    <3>2. dated' = dated
      BY <1>4, <2>2, <3>1, AirTypes DEF Library
    <3> QED
      BY <1>4, <2>2, <3>2, AirTypes DEF AirInv
  <2> QED
    BY <2>1, <2>2
<1> QED
  BY <1>1, <1>9, <1>10, AirTypes, RestKeeps DEF AirInv

-----------------------------------------------------------------------------
(* The refresh                                                             *)

LEMMA FlushKeeps ==
  ASSUME AirInv, Air!FlushSync
  PROVE  AirInv'
<1>1. up = TRUE /\ run' = [Air!NoRun EXCEPT !.at = "ask", !.date = now]
      /\ UNCHANGED <<now, airs, dated, up, markers, reply, told>>
  BY DEF Air!FlushSync, AirInv, Air!TypeOK
<1>2. run' \in Air!Run /\ run'.answer = [s \in Followed |-> None]
  BY <1>1, AirTypes DEF Air!NoRun, Air!Run, Air!OrNone
<1>3. AnswersSound(airs, now, reply, told, run'.answer)
  BY <1>2 DEF AnswersSound
<1> QED
  BY <1>1, <1>2, <1>3, AirTypes, RestKeeps DEF AirInv

\* A run goes only where a process is up.
LEMMA RunIsUp ==
  ASSUME AirInv, run.at # "off"
  PROVE  up = TRUE
BY DEF AirInv, Air!TypeOK, Down, Air!NoRun

LEMMA FetchKeeps ==
  ASSUME AirInv, Air!FetchAiring
  PROVE  AirInv'
<1>1. up = TRUE
  BY RunIsUp DEF Air!FetchAiring
<1>2. UNCHANGED <<now, airs, dated, up, markers, reply, told>>
  BY DEF Air!FetchAiring
<1>3. PICK asked \in {{}, Air!Candidates} :
        run' = [run EXCEPT !.at = "write", !.asked = asked,
                           !.answer = [s \in Followed |-> IF s \in asked THEN Air!NextOf(s) ELSE None]]
  BY DEF Air!FetchAiring
<1> DEFINE x == [s \in Followed |-> IF s \in asked THEN Air!NextOf(s) ELSE None]
<1>4. asked \subseteq Followed
  BY DEF Air!Candidates
<1>5. x \in Answers
  BY NextIsFirst DEF Answers, Air!OrNone
<1>6. AnswersSound(airs, now, reply, told, x)
  BY NextIsNamed, NextIsSilent DEF AnswersSound
<1> HIDE DEF x
<1>7. run' \in Air!Run /\ run'.answer = x
  BY <1>3, <1>4, <1>5, AirTypes DEF Air!Run, Answers, x
<1> QED
  BY <1>1, <1>2, <1>6, <1>7, AirTypes, RestKeeps DEF AirInv

LEMMA SetNextKeeps ==
  ASSUME AirInv, NEW s \in Followed, Air!SetNextAiring(s)
  PROVE  AirInv'
<1> DEFINE q == IF dated[s] = None THEN None ELSE [dated[s] EXCEPT !.next = run.answer[s]]
<1>1. up = TRUE
  BY RunIsUp DEF Air!SetNextAiring
<1>2. /\ UNCHANGED <<now, airs, up, markers, reply, told>> /\ dated' = [dated EXCEPT ![s] = q]
      /\ run' = [run EXCEPT !.asked = @ \ {s}, !.wrote = TRUE]
  BY DEF Air!SetNextAiring
<1>3. run \in Air!Run /\ run.answer[s] \in Air!OrNone(Air!Airing)
  BY AirTypes DEF Answers
<1>4. dated[s] # None => dated[s] \in Air!Row /\ RowSound(airs, now, reply, told, s, dated[s])
  BY AirTypes DEF Library, Air!OrNone, AirInv, RowsSound
<1>5. dated[s] # None => /\ q \in Air!Row /\ q.next = run.answer[s]
                         /\ q.mark = dated[s].mark /\ q.pending = dated[s].pending
  BY <1>3, <1>4 DEF Air!Row
<1>6. run.answer[s] # None =>
        Named(airs, now, reply, s, run.answer[s]) /\ Silent(told, s, run.answer[s].ep)
  BY DEF AirInv, AnswersSound
<1>7. q \in Air!OrNone(Air!Row)
  BY <1>5 DEF Air!OrNone
<1>8. q # None => RowSound(airs, now, reply, told, s, q)
  BY <1>4, <1>5, <1>6 DEF RowSound, Named
<1>9. q = None <=> dated[s] = None
  BY <1>5, AiringAssumption
<1>10. dated[s] # None => q.pending = dated[s].pending
  BY <1>5
<1> HIDE DEF q
<1>11. dated' \in Library /\ RowsSound(airs, now, reply, told, dated')
  BY <1>2, <1>7, <1>8, RowWritten
<1>12. MarkersSound(markers', dated')
  <2>1. dated'[s] = q /\ \A z \in Followed \ {s} : dated'[z] = dated[z]
    BY <1>2, AirTypes DEF Library
  <2> QED
    BY <1>2, <1>9, <1>10, <2>1 DEF AirInv, MarkersSound
<1>13. run' \in Air!Run /\ run'.answer = run.answer
  BY <1>2, <1>3 DEF Air!Run
<1> QED
  BY <1>1, <1>2, <1>11, <1>12, <1>13, AirTypes, RestKeeps DEF AirInv

-----------------------------------------------------------------------------
(* Telling                                                                 *)

LEMMA NoticedIs ==
  ASSUME NEW q \in Air!Row, q.next # None
  PROVE  /\ Air!Noticed(q) \in Air!Row /\ q.next.ep \in Episode
         /\ Air!Noticed(q).mark = q.next.ep /\ Air!Noticed(q).next = q.next
         /\ Air!Noticed(q).pending <=> q.pending \/ q.mark # None
<1>1. q.next.ep \in Episode
  BY DEF Air!Row, Air!OrNone, Air!Airing, Episode
<1> DEFINE p == q.pending \/ q.mark # None
<1>2. p \in BOOLEAN
  BY DEF Air!Row
<1>3. Air!Noticed(q) = [q EXCEPT !.mark = q.next.ep, !.pending = p]
  BY DEF Air!Noticed
<1> HIDE DEF p
<1>4. /\ Air!Noticed(q) \in Air!Row /\ Air!Noticed(q).mark = q.next.ep
      /\ Air!Noticed(q).next = q.next /\ Air!Noticed(q).pending = p
  BY <1>1, <1>2, <1>3 DEF Air!Row, Air!OrNone, Episode
<1> QED
  BY <1>1, <1>4 DEF p

\* What is announced has aired, is past the mark, and no answer on its way names
\* an earlier one.
LEMMA DueIs ==
  ASSUME AirInv, NEW s \in Air!Notices(dated)
  PROVE  /\ s \in Followed /\ dated[s] # None /\ dated[s] \in Air!Row
         /\ dated[s].next # None /\ dated[s].next.ep \in Episode
         /\ Reached(airs, now, s, dated[s].next.ep)
         /\ Silent(told, s, dated[s].next.ep)
         /\ dated[s].mark # None => told[s][dated[s].next.ep] = 0
         /\ reply # None /\ reply.show = s /\ reply.next # None =>
               dated[s].next.ep <= reply.next.ep
<1> DEFINE q == dated[s]
<1>1. /\ s \in Followed /\ q # None /\ q.next # None /\ q.next.at <= now
      /\ q.next.ep > (IF q.mark = None THEN 0 ELSE q.mark)
  BY DEF Air!Notices, Air!Due, Air!HighWater
<1>2. q \in Air!Row /\ RowSound(airs, now, reply, told, s, q)
  BY <1>1, AirTypes DEF Library, Air!OrNone, AirInv, RowsSound
<1>3. q.next \in Air!Airing /\ q.mark \in Air!OrNone(Episode)
  BY <1>1, <1>2 DEF Air!Row, Air!OrNone, Episode
<1>4. q.next.ep \in Episode /\ q.next.at \in Nat
  BY <1>3 DEF Air!Airing, Episode
<1>5. Reached(airs, now, s, q.next.ep) /\ Waits(reply, s, q.next)
  BY <1>1, <1>2 DEF RowSound, Named
<1>6. q.mark # None => q.mark \in Episode /\ q.mark < q.next.ep /\ Silent(told, s, q.mark)
  <2> SUFFICES ASSUME q.mark # None
               PROVE  q.mark \in Episode /\ q.mark < q.next.ep /\ Silent(told, s, q.mark)
    OBVIOUS
  <2>1. q.mark \in Episode /\ Silent(told, s, q.mark)
    BY <1>2, <1>3 DEF Air!OrNone, RowSound
  <2> QED
    BY <1>1, <1>4, <2>1, EpisodeIs
<1>7. q.mark # None => told[s][q.next.ep] = 0
  BY <1>4, <1>6, EpisodeIs DEF Silent
<1>8. Silent(told, s, q.next.ep)
  <2>1. CASE q.mark = None
    BY <1>1, <1>2, <2>1 DEF RowSound
  <2>2. CASE q.mark # None
    <3>1. \A k \in Episode : k > q.next.ep => k > q.mark
      BY <1>4, <1>6, <2>2, EpisodeIs
    <3> QED
      BY <1>6, <2>2, <3>1 DEF Silent
  <2> QED
    BY <2>1, <2>2
<1>9. ASSUME reply # None, reply.show = s, reply.next # None
      PROVE  q.next.ep <= reply.next.ep
  <2>1. reply.date \in Nat /\ now \in Nat /\ now <= reply.date + 1
    BY <1>9, AirTypes DEF Air!OrNone, Air!Reply, AirInv, Prompt
  <2> QED
    BY <1>1, <1>4, <1>5, <1>9, <2>1 DEF Waits
<1> QED
  BY <1>1, <1>2, <1>4, <1>5, <1>7, <1>8, <1>9

\* Announcing what is due, as far as the process gets: nothing is told twice and
\* every marker stands for what was told.
LEMMA CheckKeeps ==
  ASSUME AirInv, NEW done \in SUBSET Air!Notices(dated), Air!Check(dated, done)
  PROVE  /\ dated' \in Library /\ told' \in Announced
         /\ \A s \in Followed : dated'[s] = None <=> dated[s] = None
         /\ \A s \in Followed \ done : dated'[s] = dated[s]
         /\ RowsSound(airs, now, reply, told', dated')
         /\ ReplySound(airs, now, reply, told')
         /\ ToldSound(airs, now, told')
<1>1. dated \in Library /\ told \in Announced /\ done \subseteq Followed
  BY AirTypes DEF Air!Notices
<1>2. \A s \in Followed : dated'[s] = IF s \in done THEN Air!Noticed(dated[s]) ELSE dated[s]
  BY DEF Air!Check
<1>3. \A s \in Followed : \A k \in Episode :
        told'[s][k] = IF s \in done /\ dated[s].mark # None /\ k = dated[s].next.ep
                       THEN IF told[s][k] = 0 THEN 1 ELSE 2 ELSE told[s][k]
  BY DEF Air!Check, Episode
<1>4. told' \in Announced
  BY <1>1 DEF Air!Check, Announced, Episode
<1>5. ASSUME NEW s \in done
      PROVE  /\ s \in Followed /\ dated[s] \in Air!Row /\ dated[s].next # None
             /\ dated'[s] = Air!Noticed(dated[s]) /\ dated'[s] \in Air!Row
             /\ dated'[s].mark = dated[s].next.ep /\ dated'[s].next = dated[s].next
             /\ dated'[s].pending <=> dated[s].pending \/ dated[s].mark # None
  BY <1>1, <1>2, DueIs, NoticedIs
<1>6. \A s \in Followed : dated'[s] = None <=> dated[s] = None
  BY <1>2, <1>5, AiringAssumption, DueIs
<1>7. dated' \in Library
  <2>1. dated' = [s \in Followed |-> IF s \in done THEN Air!Noticed(dated[s]) ELSE dated[s]]
    BY DEF Air!Check
  <2>2. \A s \in Followed : dated[s] \in Air!OrNone(Air!Row)
    BY <1>1 DEF Library
  <2>3. \A s \in done : Air!Noticed(dated[s]) \in Air!OrNone(Air!Row)
    BY <1>5 DEF Air!OrNone
  <2> QED
    BY <2>1, <2>2, <2>3 DEF Library
<1>8. \A s \in Followed \ done : \A k \in Episode : told'[s][k] = told[s][k]
  BY <1>3
<1>9. ASSUME NEW s \in done
      PROVE  /\ \A k \in Episode : k # dated[s].next.ep => told'[s][k] = told[s][k]
             /\ dated[s].mark # None => told'[s][dated[s].next.ep] = 1
             /\ dated[s].mark = None => \A k \in Episode : told'[s][k] = told[s][k]
  BY <1>3, <1>5, DueIs
<1>10. ASSUME NEW s \in done
       PROVE  Silent(told', s, dated[s].next.ep)
  <2>1. Silent(told, s, dated[s].next.ep) /\ dated[s].next.ep \in Episode
    BY DueIs
  <2>2. \A k \in Episode : k > dated[s].next.ep => k # dated[s].next.ep
    BY <2>1, EpisodeIs
  <2> QED
    BY <1>9, <2>1, <2>2 DEF Silent
<1>11. ASSUME NEW s \in Followed, dated'[s] # None
       PROVE  RowSound(airs, now, reply, told', s, dated'[s])
  <2>1. dated[s] # None
    BY <1>6, <1>11
  <2>2. RowSound(airs, now, reply, told, s, dated[s])
    BY <2>1 DEF AirInv, RowsSound
  <2>3. CASE s \in done
    <3>1. Named(airs, now, reply, s, dated'[s].next)
      BY <1>5, <2>2, <2>3 DEF RowSound
    <3>2. Silent(told', s, dated'[s].mark) /\ (dated'[s].mark = None => Silent(told', s, dated'[s].next.ep))
      BY <1>5, <1>10, <2>3
    <3>3. dated'[s].mark # None
      BY <1>5, <2>3, AiringAssumption, DueIs DEF Episode
    <3>4. dated'[s].pending => told'[s][dated'[s].mark] = 1
      BY <1>5, <1>9, <2>2, <2>3 DEF RowSound
    <3> QED
      BY <3>1, <3>2, <3>3, <3>4 DEF RowSound
  <2>4. CASE s \notin done
    <3>1. dated'[s] = dated[s] /\ dated[s] \in Air!Row
      BY <1>1, <1>2, <2>1, <2>4 DEF Library, Air!OrNone
    <3>2. dated[s].mark # None => dated[s].mark \in Episode
      BY <3>1 DEF Air!Row, Air!OrNone, Episode
    <3> QED
      BY <1>8, <2>2, <2>4, <3>1, <3>2 DEF RowSound, Silent
  <2> QED
    BY <2>3, <2>4
<1>12. ToldSound(airs, now, told')
  <2> SUFFICES ASSUME NEW s \in Followed, NEW k \in Episode
               PROVE  told'[s][k] <= 1 /\ (told'[s][k] > 0 => Reached(airs, now, s, k))
    BY DEF ToldSound
  <2>1. told[s][k] <= 1 /\ (told[s][k] > 0 => Reached(airs, now, s, k))
    BY DEF AirInv, ToldSound
  <2>2. CASE s \in done /\ dated[s].mark # None /\ k = dated[s].next.ep
    <3>1. told'[s][k] = 1
      BY <1>9, <2>2
    <3>2. Reached(airs, now, s, k)
      BY <2>2, DueIs
    <3> QED
      BY <3>1, <3>2
  <2>3. CASE ~(s \in done /\ dated[s].mark # None /\ k = dated[s].next.ep)
    <3>1. told'[s][k] = told[s][k]
      BY <1>3, <2>3
    <3> QED
      BY <2>1, <3>1
  <2> QED
    BY <2>2, <2>3
<1>13. ReplySound(airs, now, reply, told')
  <2> SUFFICES ASSUME reply # None, reply.next # None, NEW k \in Episode, k > reply.next.ep
               PROVE  told'[reply.show][k] = 0
    BY DEF AirInv, ReplySound, Silent
  <2>1. reply.show \in Followed /\ reply.next.ep \in Episode
    BY AirTypes DEF Air!OrNone, Air!Reply, Air!Airing, Episode
  <2>2. told[reply.show][k] = 0
    BY DEF AirInv, ReplySound, Silent
  <2>3. CASE reply.show \in done
    <3>1. dated[reply.show].next.ep <= reply.next.ep /\ dated[reply.show].next.ep \in Episode
      BY <2>3, DueIs
    <3>2. k # dated[reply.show].next.ep
      BY <2>1, <3>1, EpisodeIs
    <3> QED
      BY <1>9, <2>2, <2>3, <3>2
  <2>4. CASE reply.show \notin done
    BY <1>8, <2>1, <2>2, <2>4
  <2> QED
    BY <2>3, <2>4
<1>14. RowsSound(airs, now, reply, told', dated')
  BY <1>11 DEF RowsSound
<1> QED
  BY <1>2, <1>4, <1>6, <1>7, <1>12, <1>13, <1>14

\* A step that announces.
LEMMA TellingKeeps ==
  ASSUME AirInv, NEW done \in SUBSET Air!Notices(dated), Air!Check(dated, done),
         UNCHANGED <<now, airs, reply>>, run' = Air!NoRun, up' \in BOOLEAN,
         ~up' => reply = None /\ markers' = Air!NoRows,
         markers' \in Held, MarkersSound(markers', dated')
  PROVE  AirInv'
<1>1. /\ dated' \in Library /\ told' \in Announced
      /\ RowsSound(airs, now, reply, told', dated')
      /\ ReplySound(airs, now, reply, told') /\ ToldSound(airs, now, told')
  BY CheckKeeps
<1>2. run' \in Air!Run /\ \A s \in Followed : run'.answer[s] = None
  BY DEF Air!NoRun, Air!Run, Air!OrNone
<1>3. AnswersSound(airs, now, reply, told', run'.answer)
  BY <1>2 DEF AnswersSound
<1>4. Air!TypeOK'
  BY <1>1, <1>2 DEF AirInv, Air!TypeOK, Library, Held, Announced, Episode
<1>5. InOrder(airs) /\ HasFirst(airs, now) /\ Prompt(reply, now)
  BY DEF AirInv
<1> QED
  BY <1>1, <1>3, <1>4, <1>5 DEF AirInv, Down

\* The lists follow the notices: those on hand are read again.
LEMMA FlushedKeeps ==
  ASSUME AirInv, Air!OnSyncFlushed
  PROVE  AirInv'
<1> DEFINE due == Air!Notices(dated)
           seen == IF run.wrote THEN Air!Reloaded(markers, dated, Air!Lists) ELSE markers
<1>1. up = TRUE /\ Air!Check(dated, due) /\ run' = Air!NoRun /\ UNCHANGED <<now, airs, up, reply>>
  BY DEF Air!OnSyncFlushed, AirInv, Air!TypeOK
<1>2. markers' = IF due = {} THEN seen ELSE Air!Reloaded(seen, dated', Air!OnHand(seen))
  BY DEF Air!OnSyncFlushed
<1>3. dated' \in Library /\ \A s \in Followed \ due : dated'[s] = dated[s]
  BY <1>1, CheckKeeps
<1>4. seen \in Held /\ MarkersSound(seen, dated)
  BY AirTypes, ReloadedHolds DEF AirInv
<1> HIDE DEF seen, due
<1>5. ASSUME due = {}
      PROVE  markers' \in Held /\ MarkersSound(markers', dated')
  <2>1. markers' = seen /\ \A s \in Followed : dated'[s] = dated[s]
    BY <1>2, <1>3, <1>5
  <2>2. MarkersSound(markers', dated')
    BY <1>4, <2>1 DEF MarkersSound
  <2> QED
    BY <1>4, <2>1, <2>2
<1>6. ASSUME due # {}
      PROVE  markers' \in Held /\ MarkersSound(markers', dated')
  <2> DEFINE views == Air!OnHand(seen)
  <2>1. "History" \in views \/ \A s \in Followed : seen["History"][s] = None
    BY DEF Air!OnHand, Air!Lists
  <2> HIDE DEF views
  <2>2. "History" \in views \/ MarkersSound(seen, dated')
    BY <2>1 DEF MarkersSound
  <2>3. markers' = Air!Reloaded(seen, dated', views)
    BY <1>2, <1>6 DEF views
  <2> QED
    BY <1>3, <1>4, <2>2, <2>3, ReloadedHolds
<1> QED
  <2>1. markers' \in Held /\ MarkersSound(markers', dated')
    BY <1>5, <1>6
  <2>2. due \in SUBSET Air!Notices(dated) /\ Air!Check(dated, due)
    BY <1>1 DEF due
  <2>3. up' \in BOOLEAN /\ up'
    BY <1>1
  <2> QED
    BY <1>1, <2>1, <2>2, <2>3, TellingKeeps

\* The check at the start, wherever it is cut off.
LEMMA StartsKeeps ==
  ASSUME AirInv, Air!Starts
  PROVE  AirInv'
<1>1. PICK done \in SUBSET Air!Notices(dated) :
        Air!Check(dated, done) /\ up' = (done = Air!Notices(dated))
  BY DEF Air!Starts
<1>2. reply = None /\ run = Air!NoRun /\ markers = Air!NoRows
  BY DEF Air!Starts, AirInv, Down
<1>3. UNCHANGED <<now, airs, markers, run, reply>>
  BY DEF Air!Starts
<1>4. markers' \in Held /\ MarkersSound(markers', dated')
  BY <1>2, <1>3, AirTypes DEF Air!NoRows, Air!Lists, MarkersSound
<1>5. up' \in BOOLEAN
  BY <1>1
<1> QED
  BY <1>1, <1>2, <1>3, <1>4, <1>5, TellingKeeps

-----------------------------------------------------------------------------
(* The process                                                             *)

LEMMA EndsKeeps ==
  ASSUME AirInv, Air!Ends
  PROVE  AirInv'
<1>1. /\ up' = FALSE /\ markers' = Air!NoRows /\ run' = Air!NoRun /\ reply' = None
      /\ UNCHANGED <<now, airs, dated, told>>
  BY DEF Air!Ends
<1>2. run' \in Air!Run /\ \A s \in Followed : run'.answer[s] = None
  BY <1>1 DEF Air!NoRun, Air!Run, Air!OrNone
<1>3. markers' \in Held /\ MarkersSound(markers', dated')
  BY <1>1 DEF Air!NoRows, Air!Lists, MarkersSound, Held, Air!OrNone
<1>4. Air!TypeOK'
  BY <1>1, <1>2, <1>3 DEF AirInv, Air!TypeOK, Held, Air!OrNone
<1>5. RowsSound(airs', now', reply', told', dated')
  BY <1>1 DEF AirInv, RowsSound, RowSound, Named, Waits
<1>6. AnswersSound(airs', now', reply', told', run'.answer) /\ ReplySound(airs', now', reply', told')
  BY <1>1, <1>2 DEF AnswersSound, ReplySound
<1> QED
  BY <1>1, <1>3, <1>4, <1>5, <1>6 DEF AirInv, Down, Prompt

LEMMA AirStep == AirInv /\ [Air!Next]_(Air!vars) => AirInv'
<1> SUFFICES ASSUME AirInv, [Air!Next]_(Air!vars) PROVE AirInv'
  OBVIOUS
<1>1. CASE UNCHANGED Air!vars
  BY <1>1 DEF Air!vars, AirInv, Air!TypeOK, Down
<1>2. CASE Air!TimePasses \/ Air!FlushSync \/ Air!FetchAiring \/ Air!OnSyncFlushed
  BY <1>2, TimeKeeps, FlushKeeps, FetchKeeps, FlushedKeeps
<1>3. CASE Air!OnEnrichmentRefreshed \/ Air!Ends \/ Air!Starts
  BY <1>3, EnrichmentKeeps, EndsKeeps, StartsKeeps
<1>4. CASE Air!EnrichmentFails
  <2>1. up = TRUE /\ reply' = None /\ UNCHANGED <<now, airs, dated, up, markers, run, told>>
    BY <1>4 DEF Air!EnrichmentFails, AirInv, Air!TypeOK
  <2> QED
    BY <2>1, AirTypes, RestKeeps DEF AirInv
<1>5. ASSUME NEW s \in Followed,
             \/ Air!Delayed(s) \/ Air!Add(s) \/ Air!Delete(s) \/ Air!SetStatus(s) \/ Air!Open(s)
             \/ Air!Asked(s) \/ Air!SetNextAiring(s)
      PROVE  AirInv'
  BY <1>5, DelayKeeps, AddKeeps, DeleteKeeps, StatusKeeps, OpenKeeps, AskedKeeps, SetNextKeeps
<1>6. ASSUME NEW l \in Air!Lists, Air!GoTo(l)
      PROVE  AirInv'
  BY <1>6, GoToKeeps
<1> QED
  BY <1>1, <1>2, <1>3, <1>4, <1>5, <1>6 DEF Air!Next

LEMMA AirNotices ==
  ASSUME AirInv
  PROVE  NoticesAreKept
<1>1. Air!ToldOnce
  BY DEF AirInv, ToldSound, Air!ToldOnce, Episode
<1>2. Air!MarkedIsTold
  BY DEF AirInv, RowsSound, RowSound, Air!MarkedIsTold
<1>3. Air!MarkersAreShown
  BY DEF AirInv, MarkersSound, Air!MarkersAreShown
<1> QED
  BY <1>1, <1>2, <1>3 DEF NoticesAreKept, Air!NoticesAreKept

\* An episode is announced once, whatever restarts, delays, answers that come
\* late and rows that go and come back; NEW stands for an announcement that was
\* made, and History draws it on the rows that have it.
THEOREM EpisodesAreToldOnce == Air!Spec => []NoticesAreKept
BY AirStarts, AirStep, AirNotices, PTL DEF Air!Spec

-----------------------------------------------------------------------------
(* The metadata of the show on screen and the real id of a row (Healing)   *)

Id == Heal!Ids
IdOrNone == Heal!OrNone(Id)
Stores == [{"rows", "library", "fresh", "cached", "current"} -> SUBSET Id]
CatalogRows == [Heal!Catalogs -> Seq(Id)]
LibraryRows == [Heal!Libraries -> SUBSET Id]
InFlight == [{"walk", "play"} -> IdOrNone]
Armed == [{"delete", "undo"} -> IdOrNone]

\* What the handlers read and rewrite.
Healed == [store : Stores, lists : CatalogRows, copies : LibraryRows, scr : Heal!Screen,
           ask : Heal!Ask, jobs : SUBSET Heal!Job, grid : IdOrNone,
           writing : InFlight, held : Armed]

\* One question is out, and a heal is about a row of MyAnimeList's.
JobsHold(w) ==
    /\ \A j, k \in w.jobs : j = k
    /\ w.ask.inflight <=> w.jobs # {}
    /\ \A j \in w.jobs : j.kind = "heal" => j.id.site = "mal"

\* No row of the catalogs' lists is b.
Unlisted(rows, b) == \A l \in Heal!Catalogs : \A k \in DOMAIN rows[l] : rows[l][k] # b

\* Nor is anything else.
Unnamed(w, b) ==
    /\ b \notin w.store["rows"] \cup w.store["library"]
    /\ \A l \in Heal!Libraries : b \notin w.copies[l] /\ w.scr.on[l] # b
    /\ w.grid # b
    /\ w.writing["walk"] # b /\ w.writing["play"] # b
    /\ w.held["delete"] # b /\ w.held["undo"] # b
    /\ \A j \in w.jobs : j.id # b

Free(w, b) == Unlisted(w.lists, b) /\ Unnamed(w, b)

LookedAt(w) == ~w.ask.inflight => Heal!Shown(w) \in {None, w.ask.checked}

HealInv ==
    /\ Heal!World \in Healed /\ JobsHold(Heal!World) /\ LookedAt(Heal!World)
    /\ healed \subseteq Bridged
    /\ \A t \in healed : Free(Heal!World, Heal!Bridge(t))

\* Lists whose rows are the same shows, under whatever id.
SameTitles(new, old) ==
    \A l \in Heal!Catalogs : DOMAIN new[l] = DOMAIN old[l]
                             /\ \A k \in DOMAIN old[l] : new[l][k].title = old[l][k].title

LEMMA IdIs ==
  /\ None \notin Id
  /\ \A t \in Bridged : Heal!Bridge(t) \in Id /\ Heal!Bridge(t).site = "mal"
                        /\ Heal!Bridge(t).title = t /\ Heal!Real(t) \in Id
                        /\ Heal!Real(t).site = "anilist" /\ Heal!Real(t).title = t
  /\ \A i \in Id : i.site = "mal" => i.title \in Bridged /\ i = Heal!Bridge(i.title)
<1>1. Id = {Heal!Real(t) : t \in Titles} \cup {Heal!Bridge(t) : t \in Bridged}
  BY DEF Id, Heal!Ids
<1>2. \A t : Heal!Bridge(t).site = "mal" /\ Heal!Bridge(t).title = t
             /\ Heal!Real(t).site = "anilist" /\ Heal!Real(t).title = t
  BY DEF Heal!Bridge, Heal!Real
<1>3. None \notin Id /\ Bridged \subseteq Titles
  BY HealingAssumption DEF Id
<1>4. \A t \in Bridged : Heal!Bridge(t) \in Id /\ Heal!Real(t) \in Id
  BY <1>1, <1>3
<1>5. ASSUME NEW i \in Id, i.site = "mal"
      PROVE  i.title \in Bridged /\ i = Heal!Bridge(i.title)
  <2>1. CASE \E t \in Titles : i = Heal!Real(t)
    BY <1>2, <1>5, <2>1
  <2>2. CASE \E t \in Bridged : i = Heal!Bridge(t)
    BY <1>2, <2>2
  <2> QED
    BY <1>1, <2>1, <2>2
<1> QED
  BY <1>2, <1>3, <1>4, <1>5

LEMMA WorldParts ==
  ASSUME NEW w \in Healed
  PROVE  /\ w.store \in Stores /\ w.lists \in CatalogRows /\ w.copies \in LibraryRows
         /\ w.scr \in Heal!Screen /\ w.ask \in Heal!Ask /\ w.jobs \subseteq Heal!Job
         /\ w.grid \in IdOrNone /\ w.writing \in InFlight /\ w.held \in Armed
         /\ w.scr.view \in Heal!Views /\ w.scr.on \in [Heal!Libraries -> IdOrNone]
         /\ w.scr.at \in [Heal!Catalogs -> Nat]
BY DEF Healed, Heal!Screen, IdOrNone, Id

\* The row on screen is one of the world's rows.
LEMMA ShownIs ==
  ASSUME NEW w \in Healed
  PROVE  /\ Heal!Shown(w) \in IdOrNone
         /\ \A b \in Id : Free(w, b) => Heal!Shown(w) # b
<1> DEFINE v == w.scr.view
<1>0. /\ v \in Heal!Views /\ w.scr.on \in [Heal!Libraries -> IdOrNone]
      /\ w.lists \in CatalogRows /\ None \notin Id
  BY WorldParts, IdIs
<1>1. CASE v \in Heal!Libraries
  <2>1. Heal!Shown(w) = w.scr.on[v]
    BY <1>1 DEF Heal!Shown
  <2> QED
    BY <1>0, <1>1, <2>1 DEF Free, Unnamed
<1>2. CASE v \notin Heal!Libraries
  <2> DEFINE k == w.scr.at[v]
  <2>1. v \in Heal!Catalogs /\ w.lists[v] \in Seq(Id)
    BY <1>0, <1>2 DEF Heal!Views, CatalogRows
  <2>2. Heal!Shown(w) = IF k \in DOMAIN w.lists[v] THEN w.lists[v][k] ELSE None
    BY <1>2 DEF Heal!Shown
  <2>3. CASE k \in DOMAIN w.lists[v]
    <3>1. w.lists[v][k] \in Id
      BY <2>1, <2>3
    <3> QED
      BY <2>1, <2>2, <2>3, <3>1 DEF Free, Unlisted, IdOrNone, Heal!OrNone
  <2>4. CASE k \notin DOMAIN w.lists[v]
    BY <1>0, <2>2, <2>4 DEF IdOrNone, Heal!OrNone
  <2> QED
    BY <2>3, <2>4
<1> QED
  BY <1>1, <1>2

\* What reconcile_enrich makes of what is asked and of the questions that are out.
AskedAs(w, v, a, js) == v = [w EXCEPT !.ask = a, !.jobs = js]

LEMMA AskWritten ==
  ASSUME NEW w \in Healed, NEW v, NEW a \in Heal!Ask, NEW js \in SUBSET Heal!Job, AskedAs(w, v, a, js)
  PROVE  /\ v \in Healed /\ v.ask = a /\ v.jobs = js
         /\ v.store = w.store /\ v.lists = w.lists /\ v.copies = w.copies /\ v.scr = w.scr
         /\ v.grid = w.grid /\ v.writing = w.writing /\ v.held = w.held
BY DEF AskedAs, Healed

LEMMA AskReset ==
  ASSUME NEW w \in Healed, NEW i \in IdOrNone, NEW z,
         z = [w EXCEPT !.ask.checked = IF @ = i THEN @ ELSE None,
                       !.ask.healed = IF i = None \/ @ = i THEN @ ELSE None]
  PROVE  \E a \in Heal!Ask : /\ AskedAs(w, z, a, w.jobs)
                             /\ a.inflight = w.ask.inflight /\ a.checked \in {i, None}
                             /\ (i # None => a.healed \in {i, None})
<1> DEFINE c == IF w.ask.checked = i THEN w.ask.checked ELSE None
           h == IF i = None \/ w.ask.healed = i THEN w.ask.healed ELSE None
           a == [w.ask EXCEPT !.checked = c, !.healed = h]
<1>1. w.ask \in Heal!Ask
  BY WorldParts
<1>2. a \in Heal!Ask /\ a.inflight = w.ask.inflight /\ a.checked = c /\ a.healed = h
  BY <1>1 DEF Heal!Ask, Heal!OrNone
<1>3. AskedAs(w, z, a, w.jobs)
  BY <1>1 DEF AskedAs, Healed, Heal!Ask
<1> QED
  BY <1>2, <1>3

LEMMA SpawnedIs ==
  ASSUME NEW w \in Healed, NEW y, NEW a \in Heal!Ask, AskedAs(w, y, a, w.jobs),
         NEW kind \in {"enrich", "heal"}, NEW i \in Id
  PROVE  LET b == [a EXCEPT !.inflight = TRUE]
         IN  /\ AskedAs(w, Heal!Spawned(y, kind, i), b, w.jobs \cup {[kind |-> kind, id |-> i]})
             /\ b \in Heal!Ask /\ b.inflight /\ [kind |-> kind, id |-> i] \in Heal!Job
<1> DEFINE b == [a EXCEPT !.inflight = TRUE]
           j == [kind |-> kind, id |-> i]
<1>1. y \in Healed /\ y.ask = a /\ y.jobs = w.jobs
  BY AskWritten, WorldParts
<1>2. b \in Heal!Ask /\ b.inflight /\ j \in Heal!Job
  BY DEF Heal!Ask, Heal!Job, Id
<1>3. Heal!Spawned(y, kind, i) = [y EXCEPT !.jobs = w.jobs \cup {j}, !.ask = b]
  BY <1>1 DEF Heal!Spawned, Healed
<1>4. [y EXCEPT !.jobs = w.jobs \cup {j}, !.ask = b] = [w EXCEPT !.ask = b, !.jobs = w.jobs \cup {j}]
  BY DEF AskedAs, Healed
<1> QED
  BY <1>2, <1>3, <1>4 DEF AskedAs

\* reconcile_enrich writes what is asked and nothing else: one question at most,
\* about the row on screen.
LEMMA ReconcileIs ==
  ASSUME NEW w \in Healed, JobsHold(w)
  PROVE  LET v == Heal!Reconciled(w)
         IN  /\ v \in Healed /\ JobsHold(v) /\ LookedAt(v)
             /\ v.store = w.store /\ v.lists = w.lists /\ v.copies = w.copies /\ v.scr = w.scr
             /\ v.grid = w.grid /\ v.writing = w.writing /\ v.held = w.held
             /\ \A j \in v.jobs : j \in w.jobs \/ j.id = Heal!Shown(w)
<1> DEFINE i == Heal!Shown(w)
           z == [w EXCEPT !.ask.checked = IF @ = i THEN @ ELSE None,
                          !.ask.healed = IF i = None \/ @ = i THEN @ ELSE None]
           v == Heal!Reconciled(w)
<1>0. i \in IdOrNone /\ w.ask \in Heal!Ask /\ w.jobs \in SUBSET Heal!Job
  BY ShownIs, WorldParts
<1>1. PICK a \in Heal!Ask : /\ AskedAs(w, z, a, w.jobs)
                            /\ a.inflight = w.ask.inflight /\ a.checked \in {i, None}
                            /\ (i # None => a.healed \in {i, None})
  BY <1>0, AskReset
<1>2. v = CASE i = None -> [w EXCEPT !.ask.checked = None]
            [] i # None /\ (z.ask.checked = i \/ z.ask.inflight) -> z
            [] i # None /\ z.ask.checked # i /\ ~z.ask.inflight /\ i.site = "mal" /\ z.ask.healed # i ->
                  Heal!Spawned([z EXCEPT !.ask.healed = i], "heal", i)
            [] OTHER -> LET u == [z EXCEPT !.ask.checked = i]
                        IN  IF Heal!Stale(z.store, i) THEN Heal!Spawned(u, "enrich", i) ELSE u
  BY DEF Heal!Reconciled
<1> HIDE DEF z, i, v
<1>3. z \in Healed /\ z.ask = a /\ z.jobs = w.jobs
  BY <1>0, <1>1, AskWritten
\* Whatever it is, it is a change of what is asked.
<1>a. ASSUME NEW b \in Heal!Ask, NEW js \in SUBSET Heal!Job, AskedAs(w, v, b, js),
             \A j, k \in js : j = k, b.inflight <=> js # {},
             \A j \in js : j.kind = "heal" => j.id.site = "mal",
             \A j \in js : j \in w.jobs \/ j.id = i,
             ~b.inflight => i \in {None, b.checked}
      PROVE  /\ v \in Healed /\ JobsHold(v) /\ LookedAt(v)
             /\ v.store = w.store /\ v.lists = w.lists /\ v.copies = w.copies /\ v.scr = w.scr
             /\ v.grid = w.grid /\ v.writing = w.writing /\ v.held = w.held
             /\ \A j \in v.jobs : j \in w.jobs \/ j.id = i
  <2>1. /\ v \in Healed /\ v.ask = b /\ v.jobs = js
        /\ v.store = w.store /\ v.lists = w.lists /\ v.copies = w.copies /\ v.scr = w.scr
        /\ v.grid = w.grid /\ v.writing = w.writing /\ v.held = w.held
    BY <1>a, AskWritten
  <2>2. Heal!Shown(v) = i
    BY <2>1 DEF Heal!Shown, i
  <2> QED
    BY <1>a, <2>1, <2>2 DEF JobsHold, LookedAt
<1>4. CASE i = None
  <2> DEFINE b == [w.ask EXCEPT !.checked = None]
  <2>1. b \in Heal!Ask /\ b.inflight = w.ask.inflight
    BY <1>0 DEF Heal!Ask, Heal!OrNone
  <2>2. AskedAs(w, v, b, w.jobs)
    BY <1>0, <1>2, <1>4 DEF AskedAs, Healed
  <2> HIDE DEF b
  <2> QED
    BY <1>0, <1>4, <1>a, <2>1, <2>2 DEF JobsHold, v, i
<1>5. CASE i # None /\ (z.ask.checked = i \/ z.ask.inflight)
  <2>1. v = z
    BY <1>2, <1>5
  <2> QED
    BY <1>0, <1>1, <1>3, <1>5, <1>a, <2>1 DEF JobsHold, v, i
<1>6. CASE i # None /\ ~(z.ask.checked = i \/ z.ask.inflight)
  <2>1. i \in Id /\ w.jobs = {} /\ ~a.inflight
    BY <1>0, <1>1, <1>3, <1>6 DEF JobsHold, IdOrNone, Heal!OrNone
  <2>2. CASE i.site = "mal" /\ z.ask.healed # i
    <3> DEFINE y == [z EXCEPT !.ask.healed = i]
               b == [a EXCEPT !.healed = i]
               c == [b EXCEPT !.inflight = TRUE]
               j == [kind |-> "heal", id |-> i]
    <3>1. b \in Heal!Ask
      BY <2>1 DEF Heal!Ask, Heal!OrNone, Id
    <3>2. AskedAs(w, y, b, w.jobs)
      BY <1>1, <1>3 DEF AskedAs, Healed
    <3>3. v = Heal!Spawned(y, "heal", i)
      BY <1>2, <1>6, <2>2
    <3> HIDE DEF y, b
    <3>4. AskedAs(w, v, c, w.jobs \cup {j}) /\ c \in Heal!Ask /\ c.inflight /\ j \in Heal!Job
      BY <2>1, <3>1, <3>2, <3>3, SpawnedIs
    <3>5. j.id = i /\ w.jobs \cup {j} = {j}
      BY <2>1
    <3> HIDE DEF c, j
    <3> QED
      BY <2>1, <2>2, <3>4, <3>5, <1>a DEF v, i
  <2>3. CASE ~(i.site = "mal" /\ z.ask.healed # i)
    <3> DEFINE y == [z EXCEPT !.ask.checked = i]
               b == [a EXCEPT !.checked = i]
               c == [b EXCEPT !.inflight = TRUE]
               j == [kind |-> "enrich", id |-> i]
    <3>1. b \in Heal!Ask /\ b.checked = i /\ b.inflight = a.inflight
      BY <2>1 DEF Heal!Ask, Heal!OrNone, Id
    <3>2. AskedAs(w, y, b, w.jobs)
      BY <1>1, <1>3 DEF AskedAs, Healed
    <3>3. v = IF Heal!Stale(z.store, i) THEN Heal!Spawned(y, "enrich", i) ELSE y
      BY <1>2, <1>6, <2>3
    <3> HIDE DEF y, b
    <3>4. CASE Heal!Stale(z.store, i)
      <4>1. AskedAs(w, v, c, w.jobs \cup {j}) /\ c \in Heal!Ask /\ c.inflight /\ j \in Heal!Job
        BY <2>1, <3>1, <3>2, <3>3, <3>4, SpawnedIs
      <4>2. j.id = i /\ j.kind # "heal" /\ w.jobs \cup {j} = {j}
        BY <2>1
      <4> HIDE DEF c, j
      <4> QED
        BY <2>1, <4>1, <4>2, <1>a DEF v, i
    <3>5. CASE ~Heal!Stale(z.store, i)
      BY <1>0, <2>1, <3>1, <3>2, <3>3, <3>5, <1>a DEF v, i
    <3> QED
      BY <3>4, <3>5
  <2> QED
    BY <2>2, <2>3
<1> QED
  BY <1>4, <1>5, <1>6

\* Every event ends so: what is free of a bridge before it stays so.
LEMMA SettlesKeeps ==
  ASSUME NEW w \in Healed, JobsHold(w), Heal!Settles(w), healed' \subseteq Bridged,
         \A t \in healed' : Free(w, Heal!Bridge(t))
  PROVE  HealInv' /\ lists' = w.lists
<1> DEFINE v == Heal!Reconciled(w)
<1>1. /\ v \in Healed /\ JobsHold(v) /\ LookedAt(v)
      /\ v.store = w.store /\ v.lists = w.lists /\ v.copies = w.copies /\ v.scr = w.scr
      /\ v.grid = w.grid /\ v.writing = w.writing /\ v.held = w.held
      /\ \A j \in v.jobs : j \in w.jobs \/ j.id = Heal!Shown(w)
  BY ReconcileIs
<1>2. /\ showRows' = v.store /\ lists' = v.lists /\ copies' = v.copies /\ at' = v.scr
      /\ ask' = v.ask /\ questions' = v.jobs /\ openGrid' = v.grid
      /\ writing' = v.writing /\ armed' = v.held
  BY DEF Heal!Settles
<1> HIDE DEF v
<1>3. Heal!World' = v
  BY <1>1, <1>2 DEF Heal!World, Healed
<1>4. \A b \in Id : Free(w, b) => Free(v, b)
  BY <1>1, ShownIs DEF Free, Unnamed
<1>5. \A t \in healed' : Free(v, Heal!Bridge(t))
  BY <1>4, IdIs
<1> QED
  BY <1>1, <1>2, <1>3, <1>5 DEF HealInv

-----------------------------------------------------------------------------
(* Reading the library, and what the keys do                               *)

LEMMA ReadIs ==
  ASSUME NEW w \in Healed, NEW l \in Heal!Libraries, NEW r \in Heal!Reads(w, l)
  PROVE  r.rows = w.store["library"] /\ r.on \in Heal!OrNone(w.store["library"])
<1> DEFINE have == w.store.library
           stays == w.scr.on[l] \in have
           ons == CASE l = "Schedule" -> Heal!OrNone(have)
                    [] l = "History" /\ stays -> {w.scr.on[l]}
                    [] l = "History" /\ ~stays -> IF have = {} THEN {None} ELSE have
<1>1. r \in [rows : {have}, on : ons]
  BY DEF Heal!Reads
<1>2. ons \subseteq Heal!OrNone(have)
  BY DEF Heal!Libraries, Heal!OrNone
<1> HIDE DEF ons
<1>3. r.rows = have /\ r.on \in ons
  BY <1>1
<1> QED
  BY <1>2, <1>3

\* A list read from the library names what the library has.
LEMMA LoadedIs ==
  ASSUME NEW w \in Healed, NEW l \in Heal!Libraries, NEW u \in Heal!Loaded(w, l)
  PROVE  /\ u \in Healed /\ u.ask = w.ask /\ u.jobs = w.jobs
         /\ u.lists = w.lists /\ u.store = w.store /\ u.grid = w.grid
         /\ u.writing = w.writing /\ u.held = w.held
         /\ u.scr.view = w.scr.view /\ u.scr.at = w.scr.at
         /\ \A b \in Id : Unnamed(w, b) => Unnamed(u, b)
<1>1. PICK r \in Heal!Reads(w, l) : u = [w EXCEPT !.copies[l] = r.rows, !.scr.on[l] = r.on]
  BY DEF Heal!Loaded
<1>2. r.rows = w.store["library"] /\ r.on \in Heal!OrNone(w.store["library"])
  BY ReadIs
<1>3. w.store["library"] \subseteq Id
  BY WorldParts DEF Stores
<1> DEFINE c == [w.copies EXCEPT ![l] = r.rows]
           o == [w.scr.on EXCEPT ![l] = r.on]
           s == [w.scr EXCEPT !.on = o]
<1>4. u = [w EXCEPT !.copies = c, !.scr = s]
  BY <1>1 DEF Healed, Heal!Screen
<1>5. r.on \in IdOrNone
  BY <1>2, <1>3 DEF IdOrNone, Heal!OrNone
<1>6. c \in LibraryRows /\ c[l] = r.rows /\ \A k \in Heal!Libraries \ {l} : c[k] = w.copies[k]
  BY <1>2, <1>3, WorldParts DEF LibraryRows
<1>7. /\ o \in [Heal!Libraries -> IdOrNone] /\ o[l] = r.on
      /\ \A k \in Heal!Libraries \ {l} : o[k] = w.scr.on[k]
  BY <1>5, WorldParts
<1> HIDE DEF c, o
<1>8. s \in Heal!Screen /\ s.on = o /\ s.view = w.scr.view /\ s.at = w.scr.at
  BY <1>7, WorldParts DEF Heal!Screen, IdOrNone, Id
<1> HIDE DEF s
<1>9. /\ u \in Healed /\ u.ask = w.ask /\ u.jobs = w.jobs /\ u.copies = c /\ u.scr = s
      /\ u.lists = w.lists /\ u.store = w.store /\ u.grid = w.grid
      /\ u.writing = w.writing /\ u.held = w.held
  BY <1>4, <1>6, <1>8 DEF Healed
<1>10. ASSUME NEW b \in Id, Unnamed(w, b)
       PROVE  Unnamed(u, b)
  <2>1. b \notin r.rows /\ r.on # b
    BY <1>2, <1>10, IdIs DEF Unnamed, Heal!OrNone
  <2>2. \A k \in Heal!Libraries : b \notin c[k] /\ o[k] # b
    BY <1>6, <1>7, <1>10, <2>1 DEF Unnamed
  <2> QED
    BY <1>8, <1>9, <1>10, <2>2 DEF Unnamed
<1> QED
  BY <1>8, <1>9, <1>10

LEMMA BothIs ==
  ASSUME NEW w \in Healed, NEW u \in Heal!Both(w)
  PROVE  /\ u \in Healed /\ u.ask = w.ask /\ u.jobs = w.jobs
         /\ u.lists = w.lists /\ u.store = w.store /\ u.grid = w.grid
         /\ u.writing = w.writing /\ u.held = w.held
         /\ u.scr.view = w.scr.view /\ u.scr.at = w.scr.at
         /\ \A b \in Id : Unnamed(w, b) => Unnamed(u, b)
<1>1. "History" \in Heal!Libraries /\ "Schedule" \in Heal!Libraries
  BY DEF Heal!Libraries
<1>2. PICK v \in Heal!Loaded(w, "History") :
        u \in IF v.copies["Schedule"] = {} THEN {v} ELSE Heal!Loaded(v, "Schedule")
  BY DEF Heal!Both
<1>3. /\ v \in Healed /\ v.ask = w.ask /\ v.jobs = w.jobs
      /\ v.lists = w.lists /\ v.store = w.store /\ v.grid = w.grid
      /\ v.writing = w.writing /\ v.held = w.held
      /\ v.scr.view = w.scr.view /\ v.scr.at = w.scr.at
      /\ \A b \in Id : Unnamed(w, b) => Unnamed(v, b)
  BY <1>1, LoadedIs
<1>4. CASE u = v
  BY <1>3, <1>4
<1>5. CASE u \in Heal!Loaded(v, "Schedule")
  <2>1. /\ u \in Healed /\ u.ask = v.ask /\ u.jobs = v.jobs
        /\ u.lists = v.lists /\ u.store = v.store /\ u.grid = v.grid
        /\ u.writing = v.writing /\ u.held = v.held
        /\ u.scr.view = v.scr.view /\ u.scr.at = v.scr.at
        /\ \A b \in Id : Unnamed(v, b) => Unnamed(u, b)
    BY <1>1, <1>3, <1>5, LoadedIs
  <2> QED
    BY <1>3, <2>1
<1> QED
  BY <1>2, <1>4, <1>5

\* A key that writes `w' and lets the event settle.
Quiet(w) == /\ w \in Healed /\ JobsHold(w)
            /\ \A t \in healed : Free(w, Heal!Bridge(t))

LEMMA WorldIs ==
  ASSUME HealInv
  PROVE  /\ Quiet(Heal!World) /\ healed \subseteq Bridged /\ Heal!World.lists = lists
         /\ showRows \in Stores /\ lists \in CatalogRows /\ copies \in LibraryRows
         /\ at \in Heal!Screen /\ ask \in Heal!Ask /\ questions \subseteq Heal!Job
         /\ openGrid \in IdOrNone /\ writing \in InFlight /\ armed \in Armed
BY DEF HealInv, Quiet, Heal!World, Healed

LEMMA QuietSettles ==
  ASSUME HealInv, NEW w, Quiet(w), Heal!Settles(w), healed' = healed
  PROVE  HealInv' /\ lists' = w.lists
BY WorldIs, SettlesKeeps DEF Quiet

LEMMA QuietLoads ==
  ASSUME HealInv, NEW w, Quiet(w), NEW l \in Heal!Libraries, NEW u \in Heal!Loaded(w, l)
  PROVE  Quiet(u) /\ u.lists = w.lists
<1>1. /\ w \in Healed /\ JobsHold(w) /\ \A t \in healed : Free(w, Heal!Bridge(t))
  BY DEF Quiet
<1>2. /\ u \in Healed /\ u.ask = w.ask /\ u.jobs = w.jobs /\ u.lists = w.lists
      /\ \A b \in Id : Unnamed(w, b) => Unnamed(u, b)
  BY <1>1, LoadedIs
<1>3. \A t \in healed : Free(u, Heal!Bridge(t))
  BY <1>1, <1>2, IdIs, WorldIs DEF Free
<1>4. JobsHold(u)
  BY <1>1, <1>2 DEF JobsHold
<1> QED
  BY <1>2, <1>3, <1>4 DEF Quiet

\* What a key may write: the screen, the grid, what writes, what is armed, with
\* rows that are there.
LEMMA Writes ==
  ASSUME NEW w, Quiet(w), healed \subseteq Bridged
  PROVE  /\ Heal!Shown(w) \in IdOrNone /\ \A t \in healed : Heal!Shown(w) # Heal!Bridge(t)
         /\ \A s \in Heal!Screen : s.on = w.scr.on => Quiet([w EXCEPT !.scr = s])
         /\ \A i \in IdOrNone, x \in InFlight :
               (\A t \in healed : /\ i # Heal!Bridge(t)
                                  /\ \A k \in {"walk", "play"} : x[k] # Heal!Bridge(t)) =>
               Quiet([w EXCEPT !.grid = i, !.writing = x])
         /\ \A h \in Armed :
               (\A t \in healed : \A k \in {"delete", "undo"} : h[k] # Heal!Bridge(t)) =>
               Quiet([w EXCEPT !.held = h])
         /\ \A d \in Stores :
               (\A t \in healed : Heal!Bridge(t) \notin d["rows"] \cup d["library"]) =>
               Quiet([w EXCEPT !.store = d])
<1>1. w \in Healed /\ JobsHold(w) /\ \A t \in healed : Free(w, Heal!Bridge(t))
  BY DEF Quiet
<1>2. Heal!Shown(w) \in IdOrNone /\ \A t \in healed : Heal!Shown(w) # Heal!Bridge(t)
  BY <1>1, ShownIs, IdIs
<1>3. ASSUME NEW s \in Heal!Screen, s.on = w.scr.on
      PROVE  Quiet([w EXCEPT !.scr = s])
  <2> DEFINE v == [w EXCEPT !.scr = s]
  <2>1. /\ v \in Healed /\ v.ask = w.ask /\ v.jobs = w.jobs /\ v.copies = w.copies /\ v.scr = s
        /\ v.lists = w.lists /\ v.store = w.store /\ v.grid = w.grid
        /\ v.writing = w.writing /\ v.held = w.held
    BY <1>1 DEF Healed
  <2> HIDE DEF v
  <2> QED
    BY <1>1, <1>3, <2>1 DEF Quiet, JobsHold, Free, Unnamed, v
<1>4. ASSUME NEW i \in IdOrNone, NEW x \in InFlight,
             \A t \in healed : /\ i # Heal!Bridge(t)
                               /\ \A k \in {"walk", "play"} : x[k] # Heal!Bridge(t)
      PROVE  Quiet([w EXCEPT !.grid = i, !.writing = x])
  <2> DEFINE v == [w EXCEPT !.grid = i, !.writing = x]
  <2>1. /\ v \in Healed /\ v.ask = w.ask /\ v.jobs = w.jobs /\ v.copies = w.copies /\ v.scr = w.scr
        /\ v.lists = w.lists /\ v.store = w.store /\ v.grid = i
        /\ v.writing = x /\ v.held = w.held
    BY <1>1 DEF Healed
  <2> HIDE DEF v
  <2> QED
    BY <1>1, <1>4, <2>1 DEF Quiet, JobsHold, Free, Unnamed, v
<1>5. ASSUME NEW h \in Armed,
             \A t \in healed : \A k \in {"delete", "undo"} : h[k] # Heal!Bridge(t)
      PROVE  Quiet([w EXCEPT !.held = h])
  <2> DEFINE v == [w EXCEPT !.held = h]
  <2>1. /\ v \in Healed /\ v.ask = w.ask /\ v.jobs = w.jobs /\ v.copies = w.copies /\ v.scr = w.scr
        /\ v.lists = w.lists /\ v.store = w.store /\ v.grid = w.grid
        /\ v.writing = w.writing /\ v.held = h
    BY <1>1 DEF Healed
  <2> HIDE DEF v
  <2> QED
    BY <1>1, <1>5, <2>1 DEF Quiet, JobsHold, Free, Unnamed, v
<1>6. ASSUME NEW d \in Stores,
             \A t \in healed : Heal!Bridge(t) \notin d["rows"] \cup d["library"]
      PROVE  Quiet([w EXCEPT !.store = d])
  <2> DEFINE v == [w EXCEPT !.store = d]
  <2>1. /\ v \in Healed /\ v.ask = w.ask /\ v.jobs = w.jobs /\ v.copies = w.copies /\ v.scr = w.scr
        /\ v.lists = w.lists /\ v.store = d /\ v.grid = w.grid
        /\ v.writing = w.writing /\ v.held = w.held
    BY <1>1 DEF Healed
  <2> HIDE DEF v
  <2> QED
    BY <1>1, <1>6, <2>1 DEF Quiet, JobsHold, Free, Unnamed, v
<1> QED
  BY <1>2, <1>3, <1>4, <1>5, <1>6

LEMMA GoToViewKeeps ==
  ASSUME HealInv, NEW v \in Heal!Views, Heal!GoTo(v)
  PROVE  HealInv' /\ lists' = lists
<1> DEFINE s == [at EXCEPT !.view = v, !.detail = FALSE]
           w == [Heal!World EXCEPT !.scr = s]
<1>1. s \in Heal!Screen /\ s.on = at.on
  BY WorldIs DEF Heal!Screen
<1>2. w = [Heal!World EXCEPT !.scr.view = v, !.scr.detail = FALSE]
  BY DEF Heal!World
<1>3. Heal!World.scr = at /\ w.lists = lists
  BY DEF Heal!World
<1>4. Quiet(w)
  <2> HIDE DEF s
  <2> QED
    BY <1>1, <1>3, WorldIs, Writes
<1>5. healed' = healed
  BY DEF Heal!GoTo, Heal!Kept
<1>6. IF v \in Heal!Libraries THEN \E u \in Heal!Loaded(w, v) : Heal!Settles(u) ELSE Heal!Settles(w)
  BY <1>2 DEF Heal!GoTo
<1> HIDE DEF w
<1>7. CASE v \in Heal!Libraries
  <2>1. PICK u \in Heal!Loaded(w, v) : Heal!Settles(u)
    BY <1>6, <1>7
  <2>2. Quiet(u) /\ u.lists = w.lists
    BY <1>4, <1>7, QuietLoads
  <2> QED
    BY <1>3, <1>5, <2>1, <2>2, QuietSettles
<1>8. CASE v \notin Heal!Libraries
  BY <1>3, <1>4, <1>5, <1>6, <1>8, QuietSettles
<1> QED
  BY <1>7, <1>8

\* The cursor of a catalog's list, or of the library's, to a row of that list.
LEMMA MoveKeeps ==
  ASSUME HealInv, Heal!Move
  PROVE  HealInv' /\ lists' = lists
<1>0. healed' = healed /\ Quiet(Heal!World) /\ at \in Heal!Screen
  BY WorldIs DEF Heal!Move, Heal!Kept
<1>1. ASSUME NEW k \in DOMAIN lists[at.view], at.view \in Heal!Catalogs,
             Heal!Settles([Heal!World EXCEPT !.scr.at[at.view] = k])
      PROVE  HealInv' /\ lists' = lists
  <2> DEFINE s == [at EXCEPT !.at = [at.at EXCEPT ![at.view] = k]]
             w == [Heal!World EXCEPT !.scr = s]
  <2>1. k \in Nat
    BY <1>1, WorldIs DEF CatalogRows
  <2>2. s \in Heal!Screen /\ s.on = at.on
    BY <1>0, <2>1 DEF Heal!Screen
  <2>3. w = [Heal!World EXCEPT !.scr.at[at.view] = k] /\ w.lists = lists /\ Heal!World.scr = at
    BY <1>0 DEF Heal!World, Heal!Screen
  <2>4. Quiet(w)
    <3> HIDE DEF s
    <3> QED
      BY <2>2, <2>3, WorldIs, Writes
  <2> HIDE DEF w
  <2> QED
    BY <1>0, <1>1, <2>3, <2>4, QuietSettles
<1>2. ASSUME NEW i \in copies[at.view], at.view \in Heal!Libraries,
             Heal!Settles([Heal!World EXCEPT !.scr.on[at.view] = i])
      PROVE  HealInv' /\ lists' = lists
  <2> DEFINE o == [at.on EXCEPT ![at.view] = i]
             s == [at EXCEPT !.on = o]
             w == [Heal!World EXCEPT !.scr = s]
  <2>1. i \in Id /\ at.on \in [Heal!Libraries -> IdOrNone] /\ Heal!World \in Healed
    BY <1>0, <1>2, WorldIs DEF LibraryRows, Heal!Screen, IdOrNone, Id, Quiet
  <2>2. /\ o \in [Heal!Libraries -> IdOrNone] /\ o[at.view] = i
        /\ \A l \in Heal!Libraries \ {at.view} : o[l] = at.on[l]
    BY <1>2, <2>1 DEF IdOrNone, Heal!OrNone
  <2>3. w = [Heal!World EXCEPT !.scr.on[at.view] = i]
    BY <1>0 DEF Heal!World, Heal!Screen
  <2> HIDE DEF o
  <2>4. s \in Heal!Screen /\ s.on = o
    BY <1>0, <2>2 DEF Heal!Screen, IdOrNone, Id
  <2> HIDE DEF s
  <2>5. /\ w \in Healed /\ w.ask = ask /\ w.jobs = questions /\ w.copies = copies /\ w.scr = s
        /\ w.lists = lists /\ w.store = showRows /\ w.grid = openGrid
        /\ w.writing = writing /\ w.held = armed
    BY <2>1, <2>4 DEF Heal!World, Healed
  <2>6. ASSUME NEW b \in Id, Free(Heal!World, b)
        PROVE  Free(w, b)
    <3>1. \A l \in Heal!Libraries : b \notin copies[l] /\ at.on[l] # b
      BY <2>6 DEF Free, Unnamed, Heal!World
    <3>2. \A l \in Heal!Libraries : o[l] # b
      BY <1>2, <2>2, <3>1
    <3> QED
      BY <2>4, <2>5, <2>6, <3>1, <3>2 DEF Free, Unnamed, Heal!World
  <2>7. JobsHold(w)
    BY <1>0, <2>5 DEF Quiet, JobsHold, Heal!World
  <2>8. Quiet(w)
    BY <1>0, <2>5, <2>6, <2>7, IdIs, WorldIs DEF Quiet
  <2> HIDE DEF w
  <2> QED
    BY <1>0, <1>2, <2>3, <2>5, <2>8, QuietSettles
<1> QED
  BY <1>1, <1>2 DEF Heal!Move

\* A grid that is opened for the row on screen.
LEMMA EngagedIs ==
  ASSUME NEW w, Quiet(w), healed \subseteq Bridged, NEW i \in Id,
         \A t \in healed : i # Heal!Bridge(t)
  PROVE  Quiet(Heal!Engaged(w, i)) /\ Heal!Engaged(w, i).lists = w.lists
<1> DEFINE x == [w.writing EXCEPT !["walk"] = i]
<1>1. w \in Healed /\ w.writing \in InFlight /\ \A t \in healed : Free(w, Heal!Bridge(t))
  BY WorldParts DEF Quiet
<1>2. x \in InFlight /\ i \in IdOrNone
  BY <1>1 DEF InFlight, IdOrNone, Heal!OrNone
<1>3. x["walk"] = i /\ x["play"] = w.writing["play"]
  BY <1>1 DEF InFlight
<1>4. \A t \in healed : \A k \in {"walk", "play"} : x[k] # Heal!Bridge(t)
  BY <1>1, <1>3 DEF Free, Unnamed
<1>5. Heal!Engaged(w, i) = [w EXCEPT !.grid = i, !.writing = x]
  BY <1>1 DEF Heal!Engaged, Healed, InFlight
<1> HIDE DEF x
<1>6. Quiet([w EXCEPT !.grid = i, !.writing = x])
  BY <1>2, <1>4, Writes
<1>7. [w EXCEPT !.grid = i, !.writing = x].lists = w.lists
  BY <1>1 DEF Healed
<1> QED
  BY <1>5, <1>6, <1>7

LEMMA DetailKeeps ==
  ASSUME HealInv, Heal!OpenDetail
  PROVE  HealInv' /\ lists' = lists
<1> DEFINE i == Heal!Shown(Heal!World)
           s == [at EXCEPT !.detail = TRUE]
           w == [Heal!World EXCEPT !.scr = s]
<1>0. healed' = healed /\ Quiet(Heal!World) /\ at \in Heal!Screen /\ i # None
  BY WorldIs DEF Heal!OpenDetail, Heal!Kept
<1>1. s \in Heal!Screen /\ s.on = at.on
  BY <1>0 DEF Heal!Screen
<1>2. w = [Heal!World EXCEPT !.scr.detail = TRUE] /\ w.lists = lists /\ Heal!World.scr = at
  BY DEF Heal!World
<1>3. Quiet(w)
  <2> HIDE DEF s, i
  <2> QED
    BY <1>0, <1>1, <1>2, WorldIs, Writes
<1>4. i \in Id /\ \A t \in healed : i # Heal!Bridge(t)
  BY <1>0, WorldIs, Writes DEF IdOrNone, Heal!OrNone
<1>5. Heal!Settles(w) \/ Heal!Settles(Heal!Engaged(w, i))
  BY <1>2 DEF Heal!OpenDetail
<1> HIDE DEF w, i
<1>6. Quiet(Heal!Engaged(w, i)) /\ Heal!Engaged(w, i).lists = w.lists
  BY <1>3, <1>4, WorldIs, EngagedIs
<1> QED
  BY <1>0, <1>2, <1>3, <1>5, <1>6, QuietSettles

LEMMA BackKeeps ==
  ASSUME HealInv, Heal!Back
  PROVE  HealInv' /\ lists' = lists
<1> DEFINE s == [at EXCEPT !.detail = FALSE]
           w == [Heal!World EXCEPT !.scr = s]
<1>0. healed' = healed /\ Quiet(Heal!World) /\ at \in Heal!Screen
  BY WorldIs DEF Heal!Back, Heal!Kept
<1>1. s \in Heal!Screen /\ s.on = at.on
  BY <1>0 DEF Heal!Screen
<1>2. w = [Heal!World EXCEPT !.scr.detail = FALSE] /\ w.lists = lists /\ Heal!World.scr = at
  BY DEF Heal!World
<1>3. Quiet(w)
  <2> HIDE DEF s
  <2> QED
    BY <1>0, <1>1, <1>2, WorldIs, Writes
<1>4. Heal!Settles(w)
  BY <1>2 DEF Heal!Back
<1> HIDE DEF w
<1> QED
  BY <1>0, <1>2, <1>3, <1>4, QuietSettles

\* The library takes the row on screen, what a walk has bound, what a play counts.
LEMMA StoreKeeps ==
  ASSUME HealInv, NEW w, Quiet(w), NEW d \in Stores, w.lists = lists, healed' = healed,
         \A t \in healed : Heal!Bridge(t) \notin d["rows"] \cup d["library"],
         Heal!Settles([w EXCEPT !.store = d])
  PROVE  HealInv' /\ lists' = lists
<1> DEFINE v == [w EXCEPT !.store = d]
<1>1. Quiet(v)
  BY WorldIs, Writes
<1>2. v.lists = lists
  BY DEF Quiet, Healed
<1> HIDE DEF v
<1> QED
  BY <1>1, <1>2, QuietSettles DEF v

LEMMA StoreIs ==
  ASSUME HealInv
  PROVE  \A t \in healed : Heal!Bridge(t) \notin showRows["rows"] \cup showRows["library"]
BY DEF HealInv, Free, Unnamed, Heal!World

LEMMA AddRowKeeps ==
  ASSUME HealInv, Heal!AddToLibrary
  PROVE  HealInv' /\ lists' = lists
<1> DEFINE i == Heal!Shown(Heal!World)
           d == Heal!InLibrary(showRows, i)
<1>0. healed' = healed /\ Quiet(Heal!World) /\ Heal!World.lists = lists /\ i # None
  BY WorldIs DEF Heal!AddToLibrary, Heal!Kept
<1>1. i \in Id /\ \A t \in healed : i # Heal!Bridge(t)
  BY <1>0, WorldIs, Writes DEF IdOrNone, Heal!OrNone
<1>2. Heal!Settles([Heal!World EXCEPT !.store = d])
  BY DEF Heal!AddToLibrary, Heal!World
<1> HIDE DEF i
<1>3. d \in Stores /\ d["rows"] = showRows["rows"] \cup {i} /\ d["library"] = showRows["library"] \cup {i}
  BY <1>1, WorldIs DEF Heal!InLibrary, Stores
<1> HIDE DEF d
<1> QED
  BY <1>0, <1>1, <1>2, <1>3, StoreIs, StoreKeeps

\* What a walk and a play write under, where the grid stays.
LEMMA WritingIs ==
  ASSUME HealInv, NEW x \in InFlight,
         \A t \in healed : \A k \in {"walk", "play"} : x[k] # Heal!Bridge(t)
  PROVE  /\ Quiet([Heal!World EXCEPT !.writing = x])
         /\ [Heal!World EXCEPT !.writing = x].lists = lists
<1>1. Heal!World \in Healed /\ Heal!World.grid = openGrid /\ Heal!World.lists = lists
  BY DEF HealInv, Heal!World
<1>2. \A t \in healed : openGrid # Heal!Bridge(t)
  BY DEF HealInv, Free, Unnamed, Heal!World
<1>3. Quiet([Heal!World EXCEPT !.grid = openGrid, !.writing = x])
  BY <1>2, WorldIs, Writes
<1>4. [Heal!World EXCEPT !.grid = openGrid, !.writing = x] = [Heal!World EXCEPT !.writing = x]
  BY <1>1 DEF Healed
<1>5. [Heal!World EXCEPT !.writing = x].lists = lists
  BY <1>1 DEF Healed
<1> QED
  BY <1>3, <1>4, <1>5

LEMMA PlayKeeps ==
  ASSUME HealInv, Heal!Play
  PROVE  HealInv' /\ lists' = lists
<1> DEFINE x == [writing EXCEPT !["play"] = openGrid]
           w == [Heal!World EXCEPT !.writing = x]
<1>0. healed' = healed /\ Quiet(Heal!World) /\ Heal!World.lists = lists
  BY WorldIs DEF Heal!Play, Heal!Kept
<1>1. x \in InFlight /\ x["play"] = openGrid /\ x["walk"] = writing["walk"]
  BY WorldIs DEF InFlight
<1>2. \A t \in healed : /\ openGrid # Heal!Bridge(t)
                        /\ \A k \in {"walk", "play"} : x[k] # Heal!Bridge(t)
  BY <1>1 DEF HealInv, Free, Unnamed, Heal!World
<1>3. Heal!Settles(w)
  BY DEF Heal!Play, Heal!World
<1> HIDE DEF x
<1>4. Quiet(w) /\ w.lists = lists
  BY <1>1, <1>2, WritingIs
<1> HIDE DEF w
<1> QED
  BY <1>0, <1>3, <1>4, QuietSettles

\* What History's keys arm, put away and undo.
LEMMA HeldKeeps ==
  ASSUME HealInv, NEW k \in {"delete", "undo"}, NEW i \in IdOrNone,
         \A t \in healed : i # Heal!Bridge(t)
  PROVE  /\ Quiet([Heal!World EXCEPT !.held[k] = i])
         /\ [Heal!World EXCEPT !.held[k] = i].lists = lists
<1> DEFINE h == [armed EXCEPT ![k] = i]
<1>1. h \in Armed /\ h[k] = i /\ \A j \in {"delete", "undo"} \ {k} : h[j] = armed[j]
  BY WorldIs DEF Armed
<1>2. \A t \in healed : armed["delete"] # Heal!Bridge(t) /\ armed["undo"] # Heal!Bridge(t)
  BY DEF HealInv, Free, Unnamed, Heal!World
<1>3. [Heal!World EXCEPT !.held[k] = i] = [Heal!World EXCEPT !.held = h]
  BY DEF Heal!World
<1> HIDE DEF h
<1>4. \A t \in healed : \A j \in {"delete", "undo"} : h[j] # Heal!Bridge(t)
  BY <1>1, <1>2
<1>5. Quiet([Heal!World EXCEPT !.held = h])
  BY <1>1, <1>4, WorldIs, Writes
<1>6. [Heal!World EXCEPT !.held = h].lists = lists
  BY DEF Heal!World
<1> QED
  BY <1>3, <1>5, <1>6

LEMMA NoneIsNoBridge ==
  ASSUME HealInv
  PROVE  None \in IdOrNone /\ \A t \in healed : None # Heal!Bridge(t)
BY IdIs, WorldIs DEF IdOrNone, Heal!OrNone

LEMMA ArmKeeps ==
  ASSUME HealInv, NEW key \in {"delete", "undo"}, Heal!Arm(key)
  PROVE  HealInv' /\ lists' = lists
<1> DEFINE i == Heal!Shown(Heal!World)
           w == [Heal!World EXCEPT !.held[key] = i]
<1>0. healed' = healed /\ "History" \in Heal!Libraries
  BY DEF Heal!Arm, Heal!Kept, Heal!Libraries
<1>1. i \in IdOrNone /\ \A t \in healed : i # Heal!Bridge(t)
  BY WorldIs, Writes
<1>2. IF key = "undo" THEN \E u \in Heal!Loaded(w, "History") : Heal!Settles(u) ELSE Heal!Settles(w)
  BY DEF Heal!Arm
<1>3. Quiet(w) /\ w.lists = lists
  <2> HIDE DEF i
  <2> QED
    BY <1>1, HeldKeeps
<1> HIDE DEF w
<1>4. CASE key = "undo"
  <2>1. PICK u \in Heal!Loaded(w, "History") : Heal!Settles(u)
    BY <1>2, <1>4
  <2>2. Quiet(u) /\ u.lists = lists
    BY <1>0, <1>3, QuietLoads
  <2> QED
    BY <1>0, <2>1, <2>2, QuietSettles
<1>5. CASE key # "undo"
  BY <1>0, <1>2, <1>3, <1>5, QuietSettles
<1> QED
  BY <1>4, <1>5

LEMMA UndoKeeps ==
  ASSUME HealInv, Heal!Undo
  PROVE  HealInv' /\ lists' = lists
<1> DEFINE w == [Heal!World EXCEPT !.held["undo"] = None]
<1>0. healed' = healed /\ "History" \in Heal!Libraries
  BY DEF Heal!Undo, Heal!Kept, Heal!Libraries
<1>1. PICK u \in Heal!Loaded(w, "History") : Heal!Settles(u)
  BY DEF Heal!Undo
<1>2. Quiet(w) /\ w.lists = lists
  BY NoneIsNoBridge, HeldKeeps
<1> HIDE DEF w
<1>3. Quiet(u) /\ u.lists = lists
  BY <1>0, <1>2, QuietLoads
<1> QED
  BY <1>0, <1>1, <1>3, QuietSettles

LEMMA PutAwayKeeps ==
  ASSUME HealInv, Heal!PutAway
  PROVE  HealInv' /\ lists' = lists
<1> DEFINE w == [Heal!World EXCEPT !.held["delete"] = None]
<1>1. healed' = healed /\ Heal!Settles(w)
  BY DEF Heal!PutAway, Heal!Kept
<1>2. Quiet(w) /\ w.lists = lists
  BY NoneIsNoBridge, HeldKeeps
<1> HIDE DEF w
<1> QED
  BY <1>1, <1>2, QuietSettles

\* `y' on the armed row.
LEMMA ConfirmKeeps ==
  ASSUME HealInv, Heal!Confirm
  PROVE  HealInv' /\ lists' = lists
<1> DEFINE i == armed["delete"]
           w == [Heal!World EXCEPT !.held["delete"] = None]
           gone == [w EXCEPT !.store.rows = @ \ {i}, !.store.library = @ \ {i},
                             !.store.fresh = @ \ {i},
                             !.held["undo"] = IF @ = i THEN None ELSE @]
           d == [showRows EXCEPT !["rows"] = @ \ {i}, !["library"] = @ \ {i}, !["fresh"] = @ \ {i}]
           n == IF armed["undo"] = i THEN None ELSE armed["undo"]
           h == [armed EXCEPT !["delete"] = None, !["undo"] = n]
<1>0. healed' = healed /\ "History" \in Heal!Libraries
  BY DEF Heal!Confirm, Heal!Kept, Heal!Libraries
<1>1. IF writing["play"] = i THEN Heal!Settles(w)
      ELSE \E u \in Heal!Loaded(gone, "History") : Heal!Settles(u)
  BY DEF Heal!Confirm
<1>2. Quiet(w) /\ w.lists = lists
  BY NoneIsNoBridge, HeldKeeps
<1>3. CASE writing["play"] = i
  <2> HIDE DEF w
  <2> QED
    BY <1>0, <1>1, <1>2, <1>3, QuietSettles
<1>4. CASE writing["play"] # i
  <2>1. armed \in Armed /\ showRows \in Stores
    BY WorldIs
  <2>2. \A t \in healed : armed["undo"] # Heal!Bridge(t) /\ None # Heal!Bridge(t)
    BY NoneIsNoBridge DEF HealInv, Free, Unnamed, Heal!World
  <2>3. n \in IdOrNone /\ \A t \in healed : n # Heal!Bridge(t)
    BY <2>1, <2>2, NoneIsNoBridge DEF Armed
  <2> HIDE DEF n
  <2>4. h \in Armed /\ h["delete"] = None /\ h["undo"] = n
    BY <2>1, <2>3, NoneIsNoBridge DEF Armed
  <2>5. d \in Stores /\ d["rows"] = showRows["rows"] \ {i} /\ d["library"] = showRows["library"] \ {i}
    BY <2>1 DEF Stores
  <2> DEFINE v == [Heal!World EXCEPT !.held = h]
             g == [v EXCEPT !.store = d]
  <2> DEFINE o == [armed EXCEPT !["delete"] = None]
  <2>a. o \in Armed /\ o["undo"] = armed["undo"] /\ h = [o EXCEPT !["undo"] = n]
    BY <2>1, NoneIsNoBridge DEF Armed
  <2>b. w = [Heal!World EXCEPT !.held = o] /\ w.held = o /\ w.store = showRows
    BY DEF Heal!World
  <2> HIDE DEF o, w
  <2>c. gone = [w EXCEPT !.store = d, !.held = [o EXCEPT !["undo"] = n]]
    BY <2>a, <2>b DEF n
  <2>d. gone = [w EXCEPT !.store = d, !.held = h]
    BY <2>a, <2>c
  <2> HIDE DEF h, d, gone
  <2>6. gone = g
    BY <2>b, <2>d DEF Heal!World
  <2>7. \A t \in healed : \A k \in {"delete", "undo"} : h[k] # Heal!Bridge(t)
    BY <2>2, <2>3, <2>4
  <2>8. Quiet(v)
    BY <2>4, <2>7, WorldIs, Writes
  <2>9. g.lists = lists
    BY DEF Heal!World
  <2> HIDE DEF v
  <2>10. Quiet(g)
    BY <2>5, <2>8, StoreIs, WorldIs, Writes
  <2> HIDE DEF g
  <2>11. PICK u \in Heal!Loaded(gone, "History") : Heal!Settles(u)
    BY <1>1, <1>4
  <2>12. Quiet(u) /\ u.lists = lists
    BY <1>0, <2>6, <2>9, <2>10, <2>11, QuietLoads
  <2> QED
    BY <1>0, <2>11, <2>12, QuietSettles
<1> QED
  BY <1>3, <1>4

-----------------------------------------------------------------------------
(* The other events                                                        *)

\* New results name the bridges that are in them, and no other.
LEMMA AnsweredKeeps ==
  ASSUME HealInv, NEW l \in Heal!Catalogs, Heal!Answered(l)
  PROVE  HealInv'
<1>1. PICK got \in Found :
        /\ Heal!Settles([Heal!World EXCEPT !.lists[l] = got, !.scr.at[l] = 1])
        /\ healed' = {t \in healed : \A k \in DOMAIN got : got[k] # Heal!Bridge(t)}
  BY DEF Heal!Answered
<1> DEFINE c == [lists EXCEPT ![l] = got]
           p == [at.at EXCEPT ![l] = 1]
           s == [at EXCEPT !.at = p]
           w == [Heal!World EXCEPT !.lists = c, !.scr = s]
<1>2. /\ Heal!World \in Healed /\ lists \in CatalogRows /\ at \in Heal!Screen
      /\ got \in Seq(Id) /\ healed \subseteq Bridged
  BY WorldIs, HealingAssumption DEF Quiet, Id
<1>3. c \in CatalogRows /\ c[l] = got /\ \A k \in Heal!Catalogs \ {l} : c[k] = lists[k]
  BY <1>2 DEF CatalogRows
<1>4. p \in [Heal!Catalogs -> Nat]
  BY <1>2 DEF Heal!Screen
<1>5. w = [Heal!World EXCEPT !.lists[l] = got, !.scr.at[l] = 1]
  BY <1>2 DEF Heal!World, Heal!Screen
<1> HIDE DEF c, p
<1>6. s \in Heal!Screen /\ s.on = at.on
  BY <1>2, <1>4 DEF Heal!Screen
<1> HIDE DEF s
<1>7. /\ w \in Healed /\ w.ask = ask /\ w.jobs = questions /\ w.copies = copies /\ w.scr = s
      /\ w.lists = c /\ w.store = showRows /\ w.grid = openGrid
      /\ w.writing = writing /\ w.held = armed
  BY <1>2, <1>3, <1>6 DEF Heal!World, Healed
<1> HIDE DEF w
<1>8. ASSUME NEW t \in healed, \A k \in DOMAIN got : got[k] # Heal!Bridge(t)
      PROVE  Free(w, Heal!Bridge(t))
  <2>1. Free(Heal!World, Heal!Bridge(t))
    BY DEF HealInv
  <2>2. Unlisted(lists, Heal!Bridge(t))
    BY <2>1 DEF Free, Heal!World
  <2>3. Unlisted(c, Heal!Bridge(t))
    BY <1>3, <1>8, <2>2 DEF Unlisted
  <2> QED
    BY <1>6, <1>7, <2>1, <2>3 DEF Free, Unnamed, Heal!World
<1>9. JobsHold(w)
  BY <1>7 DEF HealInv, JobsHold, Heal!World
<1>10. healed' \subseteq Bridged /\ \A t \in healed' : Free(w, Heal!Bridge(t))
  BY <1>1, <1>2, <1>8
<1> QED
  BY <1>1, <1>5, <1>7, <1>9, <1>10, SettlesKeeps

LEMMA WalkEndsKeeps ==
  ASSUME HealInv, Heal!WalkEnds
  PROVE  HealInv' /\ lists' = lists
<1>1. PICK bound \in {{}, {writing["walk"]}} :
        Heal!Settles([Heal!World EXCEPT !.writing["walk"] = None, !.store.rows = @ \cup bound])
  BY DEF Heal!WalkEnds
<1> DEFINE x == [writing EXCEPT !["walk"] = None]
           d == [showRows EXCEPT !["rows"] = @ \cup bound]
           v == [Heal!World EXCEPT !.writing = x]
<1>0. healed' = healed /\ writing["walk"] # None
  BY DEF Heal!WalkEnds, Heal!Kept
<1>2. showRows \in Stores /\ writing \in InFlight
  BY WorldIs
<1>3. \A t \in healed : \A k \in {"walk", "play"} : writing[k] # Heal!Bridge(t)
  BY DEF HealInv, Free, Unnamed, Heal!World
<1>4. x \in InFlight /\ x["walk"] = None /\ x["play"] = writing["play"]
  BY <1>2, NoneIsNoBridge DEF InFlight
<1>5. bound \subseteq Id /\ \A t \in healed : Heal!Bridge(t) \notin bound
  BY <1>0, <1>2, <1>3 DEF InFlight, IdOrNone, Heal!OrNone
<1>6. d \in Stores /\ d["rows"] = showRows["rows"] \cup bound /\ d["library"] = showRows["library"]
  BY <1>2, <1>5 DEF Stores
<1>7. [v EXCEPT !.store = d]
        = [Heal!World EXCEPT !.writing["walk"] = None, !.store.rows = @ \cup bound]
  BY <1>2 DEF Heal!World
<1> HIDE DEF x, d
<1>8. \A t \in healed : \A k \in {"walk", "play"} : x[k] # Heal!Bridge(t)
  BY <1>3, <1>4, NoneIsNoBridge
<1>9. Quiet(v) /\ v.lists = lists
  BY <1>4, <1>8, WritingIs
<1> HIDE DEF v
<1>10. \A t \in healed : Heal!Bridge(t) \notin d["rows"] \cup d["library"]
  BY <1>5, <1>6, StoreIs
<1> QED
  BY <1>0, <1>1, <1>6, <1>7, <1>9, <1>10, StoreKeeps

LEMMA PlayEndsKeeps ==
  ASSUME HealInv, Heal!PlayEnds
  PROVE  HealInv' /\ lists' = lists
<1>1. PICK counted \in {{}, {writing["play"]} \cap showRows.rows} :
        Heal!Settles([Heal!World EXCEPT !.writing["play"] = None, !.store.library = @ \cup counted])
  BY DEF Heal!PlayEnds
<1> DEFINE x == [writing EXCEPT !["play"] = None]
           d == [showRows EXCEPT !["library"] = @ \cup counted]
           v == [Heal!World EXCEPT !.writing = x]
<1>0. healed' = healed
  BY DEF Heal!PlayEnds, Heal!Kept
<1>2. showRows \in Stores /\ writing \in InFlight
  BY WorldIs
<1>3. \A t \in healed : \A k \in {"walk", "play"} : writing[k] # Heal!Bridge(t)
  BY DEF HealInv, Free, Unnamed, Heal!World
<1>4. x \in InFlight /\ x["play"] = None /\ x["walk"] = writing["walk"]
  BY <1>2, NoneIsNoBridge DEF InFlight
<1>5. counted \subseteq showRows["rows"]
  OBVIOUS
<1>6. d \in Stores /\ d["rows"] = showRows["rows"] /\ d["library"] = showRows["library"] \cup counted
  BY <1>2, <1>5 DEF Stores
<1>7. [v EXCEPT !.store = d]
        = [Heal!World EXCEPT !.writing["play"] = None, !.store.library = @ \cup counted]
  BY <1>2 DEF Heal!World
<1> HIDE DEF x, d
<1>8. \A t \in healed : \A k \in {"walk", "play"} : x[k] # Heal!Bridge(t)
  BY <1>3, <1>4, NoneIsNoBridge
<1>9. Quiet(v) /\ v.lists = lists
  BY <1>4, <1>8, WritingIs
<1> HIDE DEF v
<1>10. \A t \in healed : Heal!Bridge(t) \notin d["rows"] \cup d["library"]
  BY <1>5, <1>6, StoreIs
<1> QED
  BY <1>0, <1>1, <1>6, <1>7, <1>9, <1>10, StoreKeeps

LEMMA ExpiresKeeps ==
  ASSUME HealInv, NEW i \in Id, Heal!Expires(i)
  PROVE  HealInv' /\ lists' = lists
<1>1. /\ showRows' = [showRows EXCEPT !["fresh"] = @ \ {i}, !["current"] = @ \ {i}]
      /\ UNCHANGED <<lists, copies, at, ask, questions, openGrid, writing, armed, healed>>
  BY DEF Heal!Expires
<1>2. /\ showRows' \in Stores
      /\ showRows'["rows"] = showRows["rows"] /\ showRows'["library"] = showRows["library"]
  BY <1>1, WorldIs DEF Stores
<1>3. Heal!World' \in Healed
  BY <1>1, <1>2, WorldIs DEF Heal!World, Healed
<1>4. JobsHold(Heal!World)'
  BY <1>1 DEF HealInv, JobsHold, Heal!World
<1>5. LookedAt(Heal!World)'
  BY <1>1 DEF HealInv, LookedAt, Heal!World, Heal!Shown
<1>6. \A b : Free(Heal!World, b) => Free(Heal!World, b)'
  BY <1>1, <1>2 DEF Free, Unlisted, Unnamed, Heal!World
<1>7. healed' = healed
  BY <1>1
<1>8. \A t \in healed' : Free(Heal!World, Heal!Bridge(t))'
  BY <1>6, <1>7 DEF HealInv, Heal!Bridge
<1> QED
  BY <1>1, <1>3, <1>4, <1>5, <1>7, <1>8 DEF HealInv, Heal!Bridge

-----------------------------------------------------------------------------
(* The answers                                                             *)

\* An answer that is handled was the only question.
LEMMA AnswerTaken ==
  ASSUME HealInv, NEW j \in questions
  PROVE  LET w == [Heal!World EXCEPT !.jobs = @ \ {j}, !.ask.inflight = FALSE]
         IN  /\ Quiet(w) /\ w.jobs = {} /\ ~w.ask.inflight /\ w.lists = lists
             /\ w.store = showRows /\ j.id \in Id
             /\ j.kind = "heal" => j.id.title \in Bridged /\ j.id = Heal!Bridge(j.id.title)
<1> DEFINE a == [ask EXCEPT !.inflight = FALSE]
           w == [Heal!World EXCEPT !.ask = a, !.jobs = {}]
<1>1. /\ Heal!World \in Healed /\ ask \in Heal!Ask /\ questions \subseteq Heal!Job
      /\ \A t \in healed : Free(Heal!World, Heal!Bridge(t))
  BY WorldIs DEF Quiet
<1>2. questions = {j} /\ (j.kind = "heal" => j.id.site = "mal")
  BY DEF HealInv, JobsHold, Heal!World
<1>3. j.id \in Id
  BY <1>1 DEF Heal!Job, Id
<1>4. a \in Heal!Ask /\ ~a.inflight
  BY <1>1 DEF Heal!Ask
<1>5. [Heal!World EXCEPT !.jobs = @ \ {j}, !.ask.inflight = FALSE] = w
  BY <1>2 DEF Heal!World
<1> HIDE DEF a
<1>6. /\ w \in Healed /\ w.ask = a /\ w.jobs = {} /\ w.copies = copies /\ w.scr = at
      /\ w.lists = lists /\ w.store = showRows /\ w.grid = openGrid
      /\ w.writing = writing /\ w.held = armed
  BY <1>1, <1>4 DEF Heal!World, Healed
<1> HIDE DEF w
<1>7. \A b : Free(Heal!World, b) => Free(w, b)
  BY <1>6 DEF Free, Unnamed, Heal!World
<1>8. JobsHold(w)
  BY <1>4, <1>6 DEF JobsHold
<1>9. j.kind = "heal" => j.id.title \in Bridged /\ j.id = Heal!Bridge(j.id.title)
  BY <1>2, <1>3, IdIs
<1>10. Quiet(w)
  BY <1>1, <1>6, <1>7, <1>8 DEF Quiet
<1> QED
  BY <1>3, <1>4, <1>5, <1>6, <1>9, <1>10

\* Metadata for the id that was asked about leaves the list as it is.
LEMMA AppliedSame ==
  ASSUME NEW w \in Healed, NEW i \in Id
  PROVE  Heal!AppliedToSelection(w, i, i) = w
<1>1. CASE Heal!Shown(w) = i /\ w.scr.view \in Heal!Catalogs
  <2> DEFINE v == w.scr.view
             k == w.scr.at[v]
  <2>1. v \notin Heal!Libraries
    BY <1>1 DEF Heal!Catalogs, Heal!Libraries
  <2>2. k \in DOMAIN w.lists[v] /\ w.lists[v][k] = i
    BY <1>1, <2>1, IdIs DEF Heal!Shown
  <2>3. w.lists \in [Heal!Catalogs -> Seq(Id)] /\ w.lists[v] \in Seq(Id)
    BY <1>1, WorldParts DEF CatalogRows
  <2>4. [w.lists[v] EXCEPT ![k] = i] = w.lists[v]
    BY <2>2, <2>3
  <2>5. [w.lists EXCEPT ![v] = w.lists[v]] = w.lists
    BY <2>3
  <2>6. [w.lists EXCEPT ![v] = [w.lists[v] EXCEPT ![k] = i]] = w.lists
    BY <2>4, <2>5
  <2>7. [w EXCEPT !.lists = w.lists] = w
    BY DEF Healed
  <2>8. Heal!AppliedToSelection(w, i, i)
          = [w EXCEPT !.lists = [w.lists EXCEPT ![v] = [w.lists[v] EXCEPT ![k] = i]]]
    BY <1>1 DEF Heal!AppliedToSelection
  <2> QED
    BY <2>6, <2>7, <2>8
<1>2. CASE ~(Heal!Shown(w) = i /\ w.scr.view \in Heal!Catalogs)
  BY <1>2 DEF Heal!AppliedToSelection
<1> QED
  BY <1>1, <1>2

\* The metadata a store keeps, and that it was looked for, names no show anew.
LEMMA PatchedIs ==
  ASSUME NEW d \in Stores, NEW i \in Id
  PROVE  /\ Heal!Patched(d, i) \in Stores /\ Heal!Stamped(d, i) \in Stores
         /\ Heal!Patched(d, i)["rows"] = d["rows"] /\ Heal!Stamped(d, i)["rows"] = d["rows"]
         /\ Heal!Patched(d, i)["library"] = d["library"]
         /\ Heal!Stamped(d, i)["library"] = d["library"]
BY DEF Heal!Patched, Heal!Stamped, Stores

LEMMA QuietReadsBoth ==
  ASSUME HealInv, NEW w, Quiet(w), NEW u \in Heal!Both(w)
  PROVE  Quiet(u) /\ u.lists = w.lists
<1>1. /\ w \in Healed /\ JobsHold(w) /\ \A t \in healed : Free(w, Heal!Bridge(t))
  BY DEF Quiet
<1>2. /\ u \in Healed /\ u.ask = w.ask /\ u.jobs = w.jobs /\ u.lists = w.lists
      /\ \A b \in Id : Unnamed(w, b) => Unnamed(u, b)
  BY <1>1, BothIs
<1>3. \A t \in healed : Free(u, Heal!Bridge(t))
  BY <1>1, <1>2, IdIs, WorldIs DEF Free
<1>4. JobsHold(u)
  BY <1>1, <1>2 DEF JobsHold
<1> QED
  BY <1>2, <1>3, <1>4 DEF Quiet

\* The show's metadata, none, or a failure.
LEMMA EnrichKeeps ==
  ASSUME HealInv, Heal!EnrichAnswers
  PROVE  HealInv' /\ lists' = lists
<1>1. PICK j \in questions :
        LET w == [Heal!World EXCEPT !.jobs = @ \ {j}, !.ask.inflight = FALSE]
        IN  \/ \E u \in Heal!OnEnrichmentRefreshed(w, j.id) : Heal!Settles(u)
            \/ Heal!Settles([w EXCEPT !.store = Heal!Stamped(w.store, j.id)])
            \/ Heal!Settles(w)
  BY DEF Heal!EnrichAnswers
<1> DEFINE w == [Heal!World EXCEPT !.jobs = @ \ {j}, !.ask.inflight = FALSE]
           i == j.id
<1>2. healed' = healed
  BY DEF Heal!EnrichAnswers, Heal!Kept
<1>3. Quiet(w) /\ w.lists = lists /\ w.store = showRows /\ i \in Id
  BY AnswerTaken
<1>4. \/ \E u \in Heal!OnEnrichmentRefreshed(w, i) : Heal!Settles(u)
      \/ Heal!Settles([w EXCEPT !.store = Heal!Stamped(w.store, i)])
      \/ Heal!Settles(w)
  BY <1>1
<1> HIDE DEF w, i
<1>5. CASE Heal!Settles(w)
  BY <1>2, <1>3, <1>5, QuietSettles
<1>6. CASE Heal!Settles([w EXCEPT !.store = Heal!Stamped(w.store, i)])
  <2> DEFINE d == Heal!Stamped(showRows, i)
  <2>1. d \in Stores /\ d["rows"] = showRows["rows"] /\ d["library"] = showRows["library"]
    BY <1>3, WorldIs, PatchedIs
  <2>2. Heal!Settles([w EXCEPT !.store = d])
    BY <1>3, <1>6
  <2> HIDE DEF d
  <2> QED
    BY <1>2, <1>3, <2>1, <2>2, StoreIs, StoreKeeps
<1>7. ASSUME NEW u \in Heal!OnEnrichmentRefreshed(w, i), Heal!Settles(u)
      PROVE  HealInv' /\ lists' = lists
  <2> DEFINE d == Heal!Patched(showRows, i)
             v == [w EXCEPT !.store = d]
  <2>1. d \in Stores /\ d["rows"] = showRows["rows"] /\ d["library"] = showRows["library"]
    BY <1>3, WorldIs, PatchedIs
  <2>2. PICK x \in IF i \in w.store.rows THEN Heal!Both(v) ELSE {v} :
          u = Heal!AppliedToSelection(x, i, i)
    BY <1>3, <1>7 DEF Heal!OnEnrichmentRefreshed
  <2> HIDE DEF d
  <2>3. Quiet(v) /\ v.lists = lists
    <3>1. v.lists = w.lists
      BY <1>3 DEF Quiet, Healed
    <3> QED
      BY <1>3, <2>1, <3>1, StoreIs, WorldIs, Writes
  <2> HIDE DEF v
  <2>4. Quiet(x) /\ x.lists = lists
    BY <2>2, <2>3, QuietReadsBoth
  <2>5. u = x
    BY <1>3, <2>2, <2>4, AppliedSame DEF Quiet
  <2> QED
    BY <1>2, <1>7, <2>4, <2>5, QuietSettles
<1> QED
  BY <1>4, <1>5, <1>6, <1>7

-----------------------------------------------------------------------------
(* A heal                                                                  *)

\* The lists of `v' show the rows of w's, `new' in the place of some; what is
\* free of a bridge in `w' is so in `v'.
Follows(v, w, new) ==
    /\ v \in Healed /\ v.ask = w.ask /\ v.jobs = w.jobs /\ SameTitles(v.lists, w.lists)
    /\ \A b \in Id \ {new} : /\ Unlisted(w.lists, b) => Unlisted(v.lists, b)
                             /\ Unnamed(w, b) => Unnamed(v, b)

LEMMA FollowsOn ==
  ASSUME NEW w, NEW v, NEW u, NEW new, Follows(v, w, new), Follows(u, v, new)
  PROVE  Follows(u, w, new)
BY DEF Follows, SameTitles

\* Store::rekey_show leaves no row under the old id.
LEMMA RekeyedIs ==
  ASSUME NEW d \in Stores, NEW old \in Id, NEW new \in Id
  PROVE  /\ Heal!Rekeyed(d, old, new) \in Stores
         /\ \A b \in Id \ {new} : \A k \in {"rows", "library"} :
               b \in Heal!Rekeyed(d, old, new)[k] => b \in d[k] /\ b # old
<1> DEFINE ids(S) == {Heal!Renamed(i, old, new) : i \in S}
           r == Heal!Rekeyed(d, old, new)
<1>1. r = [rows |-> ids(d.rows), library |-> ids(d.library),
           fresh |-> IF new \in d.rows THEN d.fresh \ {old} ELSE ids(d.fresh),
           cached |-> ids(d.cached),
           current |-> IF new \in d.cached THEN d.current \ {old} ELSE ids(d.current)]
  BY DEF Heal!Rekeyed
<1>2. \A S \in SUBSET Id : ids(S) \in SUBSET Id /\ \A b \in ids(S) \ {new} : b \in S /\ b # old
  BY DEF Heal!Renamed
<1> HIDE DEF ids
<1>3. \A k \in {"rows", "library", "fresh", "cached", "current"} : d[k] \in SUBSET Id
  BY DEF Stores
<1>4. r["rows"] = ids(d["rows"]) /\ r["library"] = ids(d["library"])
  BY <1>1
<1>5. r \in Stores
  <2>1. r = [k \in {"rows", "library", "fresh", "cached", "current"} |-> r[k]]
    BY <1>1
  <2>2. /\ r["fresh"] = IF new \in d["rows"] THEN d["fresh"] \ {old} ELSE ids(d["fresh"])
        /\ r["cached"] = ids(d["cached"])
        /\ r["current"] = IF new \in d["cached"] THEN d["current"] \ {old} ELSE ids(d["current"])
    BY <1>1
  <2> HIDE DEF r
  <2>3. \A k \in {"rows", "library", "fresh", "cached", "current"} : r[k] \in SUBSET Id
    BY <1>2, <1>3, <1>4, <2>2
  <2> QED
    BY <2>1, <2>3 DEF Stores
<1> HIDE DEF r
<1>6. ASSUME NEW b \in Id \ {new}, NEW k \in {"rows", "library"}, b \in r[k]
      PROVE  b \in d[k] /\ b # old
  BY <1>2, <1>3, <1>4, <1>6
<1> QED
  BY <1>5, <1>6 DEF r

\* rekey_row: nothing but the lists and what writes names the old id.
LEMMA RowRekeyedIs ==
  ASSUME NEW w \in Healed, NEW old \in Id, NEW new \in Id, old # new,
         ~Heal!WritesInFlight(w, old), w.jobs = {}
  PROVE  LET v == Heal!RowRekeyed(w, old, new)
         IN  Follows(v, w, new) /\ v.lists = w.lists /\ Unnamed(v, old)
<1> DEFINE d == Heal!Rekeyed(w.store, old, new)
           c == [l \in Heal!Libraries |-> {Heal!Renamed(i, old, new) : i \in w.copies[l]}]
           o == [l \in Heal!Libraries |-> Heal!Renamed(w.scr.on[l], old, new)]
           s == [w.scr EXCEPT !.on = o]
           h == [k \in DOMAIN w.held |-> Heal!Renamed(w.held[k], old, new)]
           g == IF w.grid = old THEN None ELSE w.grid
           v == Heal!RowRekeyed(w, old, new)
<1>0. /\ w.store \in Stores /\ w.lists \in CatalogRows /\ w.copies \in LibraryRows
      /\ w.scr \in Heal!Screen /\ w.grid \in IdOrNone /\ w.writing \in InFlight
      /\ w.held \in Armed /\ w.scr.on \in [Heal!Libraries -> IdOrNone] /\ None \notin Id
  BY WorldParts, IdIs
<1>1. d \in Stores /\ \A b \in Id \ {new} : \A k \in {"rows", "library"} :
                          b \in d[k] => b \in w.store[k] /\ b # old
  BY <1>0, RekeyedIs
<1>2. /\ c \in LibraryRows
      /\ \A b \in Id \ {new} : \A l \in Heal!Libraries : b \in c[l] => b \in w.copies[l] /\ b # old
  BY <1>0 DEF LibraryRows, Heal!Renamed
<1>3. /\ o \in [Heal!Libraries -> IdOrNone]
      /\ \A b \in Id \ {new} : \A l \in Heal!Libraries : o[l] = b => w.scr.on[l] = b /\ b # old
  BY <1>0 DEF IdOrNone, Heal!OrNone, Heal!Renamed
<1>4. /\ h \in Armed
      /\ \A b \in Id \ {new} : \A k \in {"delete", "undo"} : h[k] = b => w.held[k] = b /\ b # old
  BY <1>0 DEF Armed, IdOrNone, Heal!OrNone, Heal!Renamed
<1>5. g \in IdOrNone /\ \A b \in Id : g = b => w.grid = b /\ b # old
  BY <1>0 DEF IdOrNone, Heal!OrNone
<1>6. w.writing["walk"] # old /\ w.writing["play"] # old
  BY <1>0 DEF Heal!WritesInFlight, InFlight
<1>7. v = [w EXCEPT !.store = d, !.copies = c, !.scr = s, !.held = h, !.grid = g]
  BY <1>0 DEF Heal!RowRekeyed, Healed, Heal!Screen
<1> HIDE DEF d, c, o, h, g
<1>8. s \in Heal!Screen /\ s.on = o
  BY <1>0, <1>3 DEF Heal!Screen, IdOrNone, Id
<1> HIDE DEF s, v
<1>9. /\ v \in Healed /\ v.ask = w.ask /\ v.jobs = w.jobs /\ v.lists = w.lists
      /\ v.store = d /\ v.copies = c /\ v.scr = s /\ v.held = h /\ v.grid = g
      /\ v.writing = w.writing
  BY <1>1, <1>2, <1>4, <1>5, <1>7, <1>8 DEF Healed
<1>10. ASSUME NEW b \in Id \ {new}, Unnamed(w, b) \/ b = old
       PROVE  Unnamed(v, b)
  <2>1. b \notin d["rows"] \cup d["library"]
    BY <1>1, <1>10 DEF Unnamed
  <2>2. \A l \in Heal!Libraries : b \notin c[l] /\ o[l] # b
    BY <1>2, <1>3, <1>10 DEF Unnamed
  <2>3. h["delete"] # b /\ h["undo"] # b /\ g # b
    BY <1>4, <1>5, <1>10 DEF Unnamed
  <2>4. w.writing["walk"] # b /\ w.writing["play"] # b
    BY <1>6, <1>10 DEF Unnamed
  <2> QED
    BY <1>8, <1>9, <2>1, <2>2, <2>3, <2>4 DEF Unnamed
<1>11. SameTitles(v.lists, w.lists)
  BY <1>9 DEF SameTitles
<1>12. Follows(v, w, new)
  BY <1>9, <1>10, <1>11 DEF Follows
<1> QED
  BY <1>9, <1>10, <1>12 DEF v

\* A world whose lists alone are written.
LEMMA ListsWritten ==
  ASSUME NEW w \in Healed, NEW c \in CatalogRows, NEW new, SameTitles(c, w.lists),
         \A b \in Id \ {new} : Unlisted(w.lists, b) => Unlisted(c, b)
  PROVE  LET v == [w EXCEPT !.lists = c]
         IN  /\ Follows(v, w, new) /\ v.lists = c
             /\ \A b : Unnamed(w, b) => Unnamed(v, b)
<1> DEFINE v == [w EXCEPT !.lists = c]
<1>1. /\ v \in Healed /\ v.ask = w.ask /\ v.jobs = w.jobs /\ v.copies = w.copies /\ v.scr = w.scr
      /\ v.lists = c /\ v.store = w.store /\ v.grid = w.grid
      /\ v.writing = w.writing /\ v.held = w.held
  BY DEF Healed
<1> HIDE DEF v
<1>2. \A b : Unnamed(w, b) => Unnamed(v, b)
  BY <1>1 DEF Unnamed
<1>3. Follows(v, w, new)
  BY <1>1, <1>2 DEF Follows
<1> QED
  BY <1>1, <1>2, <1>3 DEF v

LEMMA StaysWhole ==
  ASSUME NEW w \in Healed, NEW new
  PROVE  Follows(w, w, new)
BY DEF Follows, SameTitles

\* The row on screen, where it is still the one asked for.
LEMMA AppliedIs ==
  ASSUME NEW w \in Healed, NEW old \in Id, NEW new \in Id, old.title = new.title
  PROVE  LET v == Heal!AppliedToSelection(w, old, new)
         IN  Follows(v, w, new) /\ \A b : Unnamed(w, b) => Unnamed(v, b)
<1>1. CASE Heal!Shown(w) = old /\ w.scr.view \in Heal!Catalogs
  <2> DEFINE l == w.scr.view
             k == w.scr.at[l]
             r == [w.lists[l] EXCEPT ![k] = new]
             c == [w.lists EXCEPT ![l] = r]
  <2>1. l \notin Heal!Libraries /\ l \in Heal!Catalogs
    BY <1>1 DEF Heal!Catalogs, Heal!Libraries
  <2>2. k \in DOMAIN w.lists[l] /\ w.lists[l][k] = old
    BY <1>1, <2>1, IdIs DEF Heal!Shown
  <2>3. w.lists \in [Heal!Catalogs -> Seq(Id)] /\ w.lists[l] \in Seq(Id)
    BY <1>1, WorldParts DEF CatalogRows
  <2>4. Heal!AppliedToSelection(w, old, new) = [w EXCEPT !.lists = c]
    BY <1>1 DEF Heal!AppliedToSelection
  <2> HIDE DEF l, k
  <2>5. /\ r \in Seq(Id) /\ DOMAIN r = DOMAIN w.lists[l]
        /\ \A n \in DOMAIN r : r[n] = IF n = k THEN new ELSE w.lists[l][n]
    BY <2>2, <2>3
  <2> HIDE DEF r
  <2>6. c \in CatalogRows /\ c[l] = r /\ \A m \in Heal!Catalogs \ {l} : c[m] = w.lists[m]
    BY <2>1, <2>3, <2>5 DEF CatalogRows
  <2> HIDE DEF c
  <2>7. SameTitles(c, w.lists)
    BY <2>2, <2>5, <2>6 DEF SameTitles
  <2>8. \A b \in Id \ {new} : Unlisted(w.lists, b) => Unlisted(c, b)
    BY <2>5, <2>6 DEF Unlisted
  <2> QED
    BY <2>4, <2>6, <2>7, <2>8, ListsWritten
<1>2. CASE ~(Heal!Shown(w) = old /\ w.scr.view \in Heal!Catalogs)
  BY <1>2, StaysWhole DEF Heal!AppliedToSelection
<1> QED
  BY <1>1, <1>2

\* finish_heal renames what the lists still show under the old id.
LEMMA RenamedListsAre ==
  ASSUME NEW w \in Healed, NEW old \in Id, NEW new \in Id, old.title = new.title, old # new
  PROVE  LET c == [l \in Heal!Catalogs |->
                     [k \in DOMAIN w.lists[l] |-> Heal!Renamed(w.lists[l][k], old, new)]]
             v == [w EXCEPT !.lists = c]
         IN  /\ Follows(v, w, new) /\ Unlisted(v.lists, old)
             /\ \A b : Unnamed(w, b) => Unnamed(v, b)
<1> DEFINE c == [l \in Heal!Catalogs |->
                   [k \in DOMAIN w.lists[l] |-> Heal!Renamed(w.lists[l][k], old, new)]]
<1>1. w.lists \in [Heal!Catalogs -> Seq(Id)]
  BY WorldParts DEF CatalogRows
<1>2. ASSUME NEW l \in Heal!Catalogs
      PROVE  /\ c[l] \in Seq(Id) /\ DOMAIN c[l] = DOMAIN w.lists[l]
             /\ \A k \in DOMAIN w.lists[l] : c[l][k] = Heal!Renamed(w.lists[l][k], old, new)
  <2>1. w.lists[l] \in Seq(Id)
    BY <1>1
  <2>2. c[l] = [k \in DOMAIN w.lists[l] |-> Heal!Renamed(w.lists[l][k], old, new)]
    OBVIOUS
  <2>3. DOMAIN c[l] = DOMAIN w.lists[l] /\ DOMAIN w.lists[l] = 1..Len(w.lists[l])
    BY <2>1, <2>2
  <2>4. \A k \in 1..Len(w.lists[l]) : Heal!Renamed(w.lists[l][k], old, new) \in Id
    BY <2>1 DEF Heal!Renamed
  <2>5. Len(w.lists[l]) \in Nat
    BY <2>1
  <2>6. c[l] \in [1..Len(w.lists[l]) -> Id]
    BY <2>2, <2>3, <2>4
  <2>7. c[l] \in Seq(Id)
    BY <2>5, <2>6, SeqDef
  <2> QED
    BY <2>2, <2>3, <2>7
<1>3. c = [l \in Heal!Catalogs |-> c[l]]
  OBVIOUS
<1> HIDE DEF c
<1>4. c \in CatalogRows
  BY <1>2, <1>3 DEF CatalogRows
<1>5. SameTitles(c, w.lists)
  BY <1>2 DEF SameTitles, Heal!Renamed
<1>6. \A b \in Id \ {new} : Unlisted(w.lists, b) => Unlisted(c, b)
  BY <1>2 DEF Unlisted, Heal!Renamed
<1>7. Unlisted(c, old)
  BY <1>2 DEF Unlisted, Heal!Renamed
<1>8. /\ Follows([w EXCEPT !.lists = c], w, new) /\ [w EXCEPT !.lists = c].lists = c
      /\ \A b : Unnamed(w, b) => Unnamed([w EXCEPT !.lists = c], b)
  BY <1>4, <1>5, <1>6, ListsWritten
<1> QED
  BY <1>7, <1>8 DEF c

\* The grid of the healed show starts over under its new id.
LEMMA EngagedFollows ==
  ASSUME NEW w \in Healed, NEW new \in Id
  PROVE  LET v == Heal!Engaged(w, new)
         IN  /\ Follows(v, w, new) /\ v.lists = w.lists
             /\ \A b \in Id \ {new} : Unnamed(w, b) => Unnamed(v, b)
<1> DEFINE x == [w.writing EXCEPT !["walk"] = new]
           v == Heal!Engaged(w, new)
<1>1. w.writing \in InFlight
  BY WorldParts
<1>2. x \in InFlight /\ x["walk"] = new /\ x["play"] = w.writing["play"] /\ new \in IdOrNone
  BY <1>1 DEF InFlight, IdOrNone, Heal!OrNone
<1>3. v = [w EXCEPT !.grid = new, !.writing = x]
  BY <1>1 DEF Heal!Engaged, Healed, InFlight
<1> HIDE DEF x, v
<1>4. /\ v \in Healed /\ v.ask = w.ask /\ v.jobs = w.jobs /\ v.copies = w.copies /\ v.scr = w.scr
      /\ v.lists = w.lists /\ v.store = w.store /\ v.grid = new
      /\ v.writing = x /\ v.held = w.held
  BY <1>2, <1>3 DEF Healed
<1>5. \A b \in Id \ {new} : Unnamed(w, b) => Unnamed(v, b)
  BY <1>2, <1>4 DEF Unnamed
<1>6. Follows(v, w, new)
  BY <1>4, <1>5 DEF Follows, SameTitles
<1> QED
  BY <1>4, <1>5, <1>6 DEF v

\* finish_heal: what is free of the old id but for the lists is free of it.
LEMMA FinishedIs ==
  ASSUME NEW w \in Healed, NEW old \in Id, NEW new \in Id, old.title = new.title, old # new,
         Unnamed(w, old), NEW reset
  PROVE  LET v == Heal!Finished(w, old, new, reset)
         IN  Follows(v, w, new) /\ Free(v, old)
<1> DEFINE c == [l \in Heal!Catalogs |->
                   [k \in DOMAIN w.lists[l] |-> Heal!Renamed(w.lists[l][k], old, new)]]
           u == [w EXCEPT !.lists = c]
           v == Heal!Finished(w, old, new, reset)
<1>1. /\ Follows(u, w, new) /\ Unlisted(u.lists, old)
      /\ \A b : Unnamed(w, b) => Unnamed(u, b)
  BY RenamedListsAre
<1>2. v = u \/ v = Heal!Engaged(u, new)
  BY DEF Heal!Finished
<1> HIDE DEF u, v
<1>3. u \in Healed /\ Unnamed(u, old)
  BY <1>1 DEF Follows
<1>4. /\ Follows(Heal!Engaged(u, new), u, new) /\ Heal!Engaged(u, new).lists = u.lists
      /\ Unnamed(Heal!Engaged(u, new), old)
  BY <1>3, EngagedFollows
<1>5. Follows(Heal!Engaged(u, new), w, new)
  BY <1>1, <1>4, FollowsOn
<1>6. Follows(v, w, new) /\ Free(v, old)
  BY <1>1, <1>2, <1>3, <1>4, <1>5 DEF Free
<1> QED
  BY <1>6 DEF v

\* A world whose metadata is the store's new one, and one that reads the library.
LEMMA PatchFollows ==
  ASSUME NEW w \in Healed, NEW new \in Id
  PROVE  LET v == [w EXCEPT !.store = Heal!Patched(w.store, new)]
         IN  Follows(v, w, new) /\ \A b : Unnamed(w, b) => Unnamed(v, b)
<1> DEFINE d == Heal!Patched(w.store, new)
           v == [w EXCEPT !.store = d]
<1>1. d \in Stores /\ d["rows"] = w.store["rows"] /\ d["library"] = w.store["library"]
  BY WorldParts, PatchedIs
<1> HIDE DEF d
<1>2. /\ v \in Healed /\ v.ask = w.ask /\ v.jobs = w.jobs /\ v.copies = w.copies /\ v.scr = w.scr
      /\ v.lists = w.lists /\ v.store = d /\ v.grid = w.grid
      /\ v.writing = w.writing /\ v.held = w.held
  BY <1>1 DEF Healed
<1> HIDE DEF v
<1>3. \A b : Unnamed(w, b) => Unnamed(v, b)
  BY <1>1, <1>2 DEF Unnamed
<1>4. Follows(v, w, new)
  BY <1>2, <1>3 DEF Follows, SameTitles
<1> QED
  BY <1>3, <1>4 DEF v, d

LEMMA BothFollow ==
  ASSUME NEW w \in Healed, NEW u \in Heal!Both(w), NEW new
  PROVE  Follows(u, w, new) /\ \A b \in Id : Unnamed(w, b) => Unnamed(u, b)
BY BothIs DEF Follows, SameTitles

\* A heal that may rename leaves the old id nowhere.
LEMMA HealedIs ==
  ASSUME NEW w \in Healed, NEW old \in Id, NEW new \in Id, old.title = new.title, old # new,
         ~Heal!WritesInFlight(w, old), w.jobs = {}, NEW f \in Heal!OnHealed(w, old, new)
  PROVE  Follows(f, w, new) /\ Free(f, old)
<1> DEFINE v == Heal!RowRekeyed(w, old, new)
           p == [v EXCEPT !.store = Heal!Patched(v.store, new)]
<1>1. Follows(v, w, new) /\ Unnamed(v, old)
  BY RowRekeyedIs
<1>2. PICK u \in Heal!Both(p) :
        f = Heal!Finished(Heal!AppliedToSelection(u, old, new), old, new, w.grid = old)
  BY DEF Heal!OnHealed
<1> HIDE DEF v
<1>3. v \in Healed
  BY <1>1 DEF Follows
<1>4. Follows(p, v, new) /\ Unnamed(p, old)
  BY <1>1, <1>3, PatchFollows
<1> HIDE DEF p
<1>5. p \in Healed
  BY <1>4 DEF Follows
<1>6. Follows(u, p, new) /\ Unnamed(u, old)
  BY <1>2, <1>4, <1>5, BothFollow
<1>7. u \in Healed
  BY <1>6 DEF Follows
<1> DEFINE a == Heal!AppliedToSelection(u, old, new)
<1>8. Follows(a, u, new) /\ Unnamed(a, old)
  BY <1>6, <1>7, AppliedIs
<1>9. f = Heal!Finished(a, old, new, w.grid = old)
  BY <1>2
<1> HIDE DEF a
<1>10. a \in Healed
  BY <1>8 DEF Follows
<1>11. Follows(f, a, new) /\ Free(f, old)
  BY <1>8, <1>9, <1>10, FinishedIs
<1>12. Follows(p, w, new)
  BY <1>1, <1>4, FollowsOn
<1>13. Follows(u, w, new)
  BY <1>6, <1>12, FollowsOn
<1>14. Follows(a, w, new)
  BY <1>8, <1>13, FollowsOn
<1> QED
  BY <1>11, <1>14, FollowsOn

LEMMA HealKeeps ==
  ASSUME HealInv, Heal!HealAnswers
  PROVE  HealInv' /\ SameTitles(lists', lists)
<1>1. PICK j \in questions :
        /\ j.kind = "heal"
        /\ LET w == [Heal!World EXCEPT !.jobs = @ \ {j}, !.ask.inflight = FALSE]
               t == j.id.title
           IN  \/ /\ \E u \in Heal!OnHealed(w, j.id, Heal!Real(t)) : Heal!Settles(u)
                  /\ healed' = IF Heal!WritesInFlight(w, j.id) THEN healed ELSE healed \cup {t}
               \/ Heal!Settles(w) /\ UNCHANGED healed
  BY DEF Heal!HealAnswers
<1> DEFINE w == [Heal!World EXCEPT !.jobs = @ \ {j}, !.ask.inflight = FALSE]
           t == j.id.title
           old == j.id
           new == Heal!Real(t)
<1>2. /\ Quiet(w) /\ w.jobs = {} /\ ~w.ask.inflight /\ w.lists = lists
      /\ old \in Id /\ t \in Bridged /\ old = Heal!Bridge(t)
  BY <1>1, AnswerTaken
<1>3. /\ new \in Id /\ old # new /\ old.title = new.title
      /\ \A s \in Bridged : Heal!Bridge(s) # new /\ Heal!Bridge(s) \in Id
  BY <1>2, IdIs
<1>4. \/ /\ \E u \in Heal!OnHealed(w, old, new) : Heal!Settles(u)
         /\ healed' = IF Heal!WritesInFlight(w, old) THEN healed ELSE healed \cup {t}
      \/ Heal!Settles(w) /\ healed' = healed
  BY <1>1
<1> HIDE DEF w, t, old, new
<1>5. SameTitles(lists, lists)
  BY DEF SameTitles
<1>6. CASE Heal!Settles(w) /\ healed' = healed
  BY <1>2, <1>5, <1>6, QuietSettles
<1>7. ASSUME NEW u \in Heal!OnHealed(w, old, new), Heal!Settles(u), Heal!WritesInFlight(w, old),
             healed' = healed
      PROVE  HealInv' /\ SameTitles(lists', lists)
  <2>1. u = w
    BY <1>7 DEF Heal!OnHealed
  <2> QED
    BY <1>2, <1>5, <1>7, <2>1, QuietSettles
<1>8. ASSUME NEW u \in Heal!OnHealed(w, old, new), Heal!Settles(u), ~Heal!WritesInFlight(w, old),
             healed' = healed \cup {t}
      PROVE  HealInv' /\ SameTitles(lists', lists)
  <2>1. w \in Healed /\ \A s \in healed : Free(w, Heal!Bridge(s))
    BY <1>2 DEF Quiet
  <2>2. Follows(u, w, new) /\ Free(u, old)
    BY <1>2, <1>3, <1>8, <2>1, HealedIs
  <2>3. u \in Healed /\ JobsHold(u) /\ SameTitles(u.lists, lists)
    BY <1>2, <2>2 DEF Follows, JobsHold
  <2>4. healed \subseteq Bridged
    BY WorldIs
  <2>5. \A s \in healed : Free(u, Heal!Bridge(s))
    BY <1>3, <2>1, <2>2, <2>4 DEF Follows, Free
  <2>6. healed' \subseteq Bridged /\ \A s \in healed' : Free(u, Heal!Bridge(s))
    BY <1>2, <1>8, <2>2, <2>4, <2>5
  <2> QED
    BY <1>8, <2>3, <2>6, SettlesKeeps
<1> QED
  BY <1>4, <1>6, <1>7, <1>8

-----------------------------------------------------------------------------
\* The lists change with a search alone: the searches are told apart.
HealCounts == HealInv /\ searches \in Nat

\* Nothing is known, nothing is out.
LEMMA HealStarts == Heal!Init => HealInv /\ searches = 0
<1> SUFFICES ASSUME Heal!Init PROVE HealInv
  BY DEF Heal!Init
<1>1. /\ showRows \in Stores /\ copies \in LibraryRows /\ openGrid \in IdOrNone
      /\ writing \in InFlight /\ armed \in Armed /\ ask \in Heal!Ask /\ questions = {}
      /\ ~ask.inflight /\ healed = {}
  BY DEF Heal!Init, Stores, LibraryRows, InFlight, Armed, IdOrNone, Heal!OrNone, Heal!Ask
<1>2. lists = [l \in Heal!Catalogs |-> <<>>] /\ lists \in CatalogRows
  BY DEF Heal!Init, CatalogRows
<1>3. at \in Heal!Screen /\ at.view = "Browse"
  BY DEF Heal!Init, Heal!Screen, Heal!Views, Heal!Catalogs, Heal!OrNone
<1>4. Heal!World \in Healed
  BY <1>1, <1>2, <1>3 DEF Heal!World, Healed
<1>5. JobsHold(Heal!World)
  BY <1>1 DEF JobsHold, Heal!World
<1>6. Heal!Shown(Heal!World) = None
  <2>1. lists["Browse"] = <<>>
    BY <1>2 DEF Heal!Catalogs
  <2> QED
    BY <1>3, <2>1 DEF Heal!Shown, Heal!World, Heal!Libraries
<1>7. LookedAt(Heal!World)
  BY <1>6 DEF LookedAt
<1> QED
  BY <1>1, <1>4, <1>5, <1>7 DEF HealInv

LEMMA HealStep ==
  ASSUME HealInv, searches \in Nat, [Heal!Next]_(Heal!vars)
  PROVE  HealInv' /\ searches' \in Nat /\ (searches' = searches => SameTitles(lists', lists))
<1>0. SameTitles(lists, lists)
  BY DEF SameTitles
<1>1. CASE UNCHANGED Heal!vars
  <2>1. /\ UNCHANGED <<showRows, lists, copies, at, ask, questions, openGrid, writing, armed, healed>>
        /\ searches' = searches
    BY <1>1 DEF Heal!vars
  <2>2. Heal!World' = Heal!World
    BY <2>1 DEF Heal!World
  <2>3. HealInv'
    BY <2>1, <2>2 DEF HealInv
  <2> QED
    BY <1>0, <2>1, <2>3
<1>2. CASE Heal!Move \/ Heal!OpenDetail \/ Heal!Back \/ Heal!AddToLibrary \/ Heal!Play
  <2>1. HealInv' /\ lists' = lists
    BY <1>2, MoveKeeps, DetailKeeps, BackKeeps, AddRowKeeps, PlayKeeps
  <2>2. searches' = searches
    BY <1>2 DEF Heal!Move, Heal!OpenDetail, Heal!Back, Heal!AddToLibrary, Heal!Play, Heal!Kept
  <2> QED
    BY <1>0, <2>1, <2>2
<1>3. CASE Heal!Undo \/ Heal!PutAway \/ Heal!Confirm \/ Heal!WalkEnds \/ Heal!PlayEnds
  <2>1. HealInv' /\ lists' = lists
    BY <1>3, UndoKeeps, PutAwayKeeps, ConfirmKeeps, WalkEndsKeeps, PlayEndsKeeps
  <2>2. searches' = searches
    BY <1>3 DEF Heal!Undo, Heal!PutAway, Heal!Confirm, Heal!WalkEnds, Heal!PlayEnds, Heal!Kept
  <2> QED
    BY <1>0, <2>1, <2>2
<1>4. ASSUME NEW v \in Heal!Views, Heal!GoTo(v)
      PROVE  HealInv' /\ searches' \in Nat /\ SameTitles(lists', lists)
  <2>1. HealInv' /\ lists' = lists
    BY <1>4, GoToViewKeeps
  <2>2. searches' = searches
    BY <1>4 DEF Heal!GoTo, Heal!Kept
  <2> QED
    BY <1>0, <2>1, <2>2
<1>5. ASSUME NEW key \in {"delete", "undo"}, Heal!Arm(key)
      PROVE  HealInv' /\ searches' \in Nat /\ SameTitles(lists', lists)
  <2>1. HealInv' /\ lists' = lists
    BY <1>5, ArmKeeps
  <2>2. searches' = searches
    BY <1>5 DEF Heal!Arm, Heal!Kept
  <2> QED
    BY <1>0, <2>1, <2>2
<1>6. ASSUME NEW l \in Heal!Catalogs, Heal!Answered(l)
      PROVE  HealInv' /\ searches' \in Nat /\ searches' # searches
  <2>1. HealInv'
    BY <1>6, AnsweredKeeps
  <2>2. searches' = searches + 1
    BY <1>6 DEF Heal!Answered
  <2> QED
    BY <2>1, <2>2
<1>7. CASE Heal!EnrichAnswers
  <2>1. HealInv' /\ lists' = lists
    BY <1>7, EnrichKeeps
  <2>2. searches' = searches
    BY <1>7 DEF Heal!EnrichAnswers, Heal!Kept
  <2> QED
    BY <1>0, <2>1, <2>2
<1>8. CASE Heal!HealAnswers
  <2>1. HealInv' /\ SameTitles(lists', lists)
    BY <1>8, HealKeeps
  <2>2. searches' = searches
    BY <1>8 DEF Heal!HealAnswers
  <2> QED
    BY <2>1, <2>2
<1>9. ASSUME NEW i \in Id, Heal!Expires(i)
      PROVE  HealInv' /\ searches' \in Nat /\ SameTitles(lists', lists)
  <2>1. HealInv' /\ lists' = lists
    BY <1>9, ExpiresKeeps
  <2>2. searches' = searches
    BY <1>9 DEF Heal!Expires
  <2> QED
    BY <1>0, <2>1, <2>2
<1> QED
  BY <1>1, <1>2, <1>3, <1>4, <1>5, <1>6, <1>7, <1>8, <1>9 DEF Heal!Next, Id

\* What the invariant says of a healed bridge, and of the question that is out.
LEMMA HealedWhole ==
  ASSUME HealInv
  PROVE  Heal!HealedIsGone /\ Heal!OneQuestion /\ Heal!ShownIsLookedAt
<1>1. Heal!HealedIsGone
  <2>1. writing \in InFlight /\ armed \in Armed
    BY WorldIs
  <2>2. ASSUME NEW t \in healed
        PROVE  Free(Heal!World, Heal!Bridge(t))
    BY DEF HealInv
  <2> QED
    BY <2>1, <2>2 DEF Heal!HealedIsGone, Free, Unlisted, Unnamed, Heal!World, InFlight, Armed
<1>2. Heal!OneQuestion
  BY DEF HealInv, JobsHold, Heal!World, Heal!OneQuestion
<1>3. Heal!ShownIsLookedAt
  BY DEF HealInv, LookedAt, Heal!ShownIsLookedAt, Heal!World
<1> QED
  BY <1>1, <1>2, <1>3

\* A healed bridge is named nowhere and nothing brings it back, one question is
\* out at a time and the show on screen is asked about or looked at, and an answer
\* leaves every row the show it is.
THEOREM HealedRowsAreWhole == Heal!Spec => HealsWhole
<1>1. Heal!Init => HealCounts
  BY HealStarts DEF HealCounts
<1>2. HealCounts /\ [Heal!Next]_(Heal!vars) => HealCounts'
  BY HealStep DEF HealCounts
<1>3. HealCounts => Heal!HealedIsGone /\ Heal!OneQuestion /\ Heal!ShownIsLookedAt
  BY HealedWhole DEF HealCounts
<1>4. HealCounts /\ [Heal!Next]_(Heal!vars)
        => [searches' = searches =>
              \A l \in Heal!Catalogs :
                  /\ DOMAIN lists'[l] = DOMAIN lists[l]
                  /\ \A k \in DOMAIN lists[l] : lists'[l][k].title = lists[l][k].title]_(Heal!vars)
  BY HealStep DEF HealCounts, SameTitles
<1> QED
  BY <1>1, <1>2, <1>3, <1>4, PTL DEF Heal!Spec, HealsWhole, Heal!HealsWhole, Heal!RowsKeepTheirShow
=============================================================================
