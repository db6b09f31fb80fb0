---------------------------- MODULE WatchHistory ----------------------------
(* One show's place in the library and the playback history behind it: what  *)
(* a play writes, where it resumes, what the history keys and the tracker    *)
(* sync do to it (store.cpp, domain.hpp, tui/app.cpp), with a play from the  *)
(* command line on the same database.                                        *)
EXTENDS Integers, FiniteSets

CONSTANTS
    None,           \* no row, no play, nothing to undo
    Planning, Watching, Completed,
    Status,         \* list statuses
    Total,          \* the show's episode count, 0 when unknown
    Episodes,       \* how many episodes the provider lists
    MaxProgress,    \* bound: the highest progress a tracker reports
    MaxClock,       \* bound: seconds that pass
    MaxPlays,       \* bound: positions recorded
    MaxChanges      \* bound: changes by hand or by a tracker (an undo is free)

ASSUME WatchHistoryAssumption ==
    /\ {Planning, Watching, Completed} \subseteq Status
    /\ {Total, Episodes, MaxProgress, MaxClock, MaxPlays, MaxChanges} \subseteq Nat
    /\ Planning # Completed

VARIABLES
    clock,          \* now_epoch_secs
    show,           \* the show's row
    parts,          \* its episode_progress rows (one translation)
    play,           \* App::play: the episode that plays
    screen,         \* "elsewhere", "history" (its list), "confirm" (its armed delete)
    view, undo,     \* the list's in-memory row; App::undo
    plays, changes, \* how much of the bounds is spent
    dead, moved,    \* history: partials the frontier went past; when it last did
    floor,          \* history: the highest episode finished since progress was last set by hand
    earned          \* history: a counted play, an add or a tracker put the show in the library

vars == <<clock, show, parts, play, screen, view, undo, plays, changes,
          dead, moved, floor, earned>>

row     == <<show, parts>>
ui      == <<screen, view, undo>>
history == <<dead, moved, floor, earned>>
bounds  == <<plays, changes>>

-----------------------------------------------------------------------------
\* Positions, by the tiers of the episode they reach; 0 is no position.

Episode == 1..Episodes
Tier    == 1..4

PlayCounts(t) == t >= 2
NaturalEnd(t) == t >= 3
FullyWatched(t) == t = 4

Pair   == [status : Status, progress : Nat]
Row    == [status : Status, progress : Nat, stamped : Nat, added : BOOLEAN]
Part   == [tier : Tier, at : Nat]

ASSUME NoneIsNoRow == None \notin Row

NewRow == [status |-> Planning, progress |-> 0, stamped |-> 0, added |-> FALSE]

Init ==
    /\ clock = 1
    /\ show = None /\ parts = [e \in Episode |-> None]
    /\ play = None
    /\ screen = "elsewhere" /\ view = None /\ undo = None
    /\ plays = 0 /\ changes = 0
    /\ dead = {} /\ moved = 0 /\ floor = 0 /\ earned = FALSE

Plays == plays < MaxPlays /\ plays' = plays + 1 /\ UNCHANGED changes

Changes == changes < MaxChanges /\ changes' = changes + 1 /\ UNCHANGED plays

-----------------------------------------------------------------------------
\* The row's writes.

\* The frontier's stamp: touched when progress moves.
Stamp(r, progress) == IF r.progress # progress THEN clock ELSE r.stamped

\* The tracker's adoption stamps on a rise only.
\* Mutant: it stamps like the other writers.
AdoptStamp(r, progress) == Stamp(r, progress)
RiseStamp(r, progress) == IF r.progress < progress THEN clock ELSE r.stamped

Put(r, status, progress) ==
    [status |-> status, progress |-> progress, stamped |-> Stamp(r, progress), added |-> TRUE]

Recorded(e) == parts[e] # None

\* The history behind a move of the frontier: everything written until now is
\* behind it.
Retire(moves) ==
    IF moves THEN dead' = {e \in Episode : parts[e] # None} /\ moved' = clock
    ELSE UNCHANGED <<dead, moved>>

-----------------------------------------------------------------------------
\* Plays.

\* Mutant: the last finish decides.
LastFinish(progress, e) == e
HighWater(progress, e) == IF e > progress THEN e ELSE progress

AfterPlayStatus(status, progress, airing) ==
    IF \/ status = Completed
       \/ ~airing /\ Total > 0 /\ progress >= Total
    THEN Completed ELSE Watching

\* record_finish; a show without a row is left alone.
\* Mutant: a finish under the count tier is a play all the same.
CountedAlways(t) == TRUE
Counted(t) == PlayCounts(t)

RecordFinish(e, t) ==
    \/ /\ show = None
       /\ UNCHANGED <<row, history>>
    \/ /\ show # None
       /\ parts' = [parts EXCEPT ![e] = [tier |-> t, at |-> clock]]
       /\ \E airing \in BOOLEAN :
            LET p == IF NaturalEnd(t) THEN HighWater(show.progress, e) ELSE show.progress
            IN  /\ show' = IF Counted(t)
                           THEN Put(show, AfterPlayStatus(show.status, p, airing), p)
                           ELSE show
                /\ IF Counted(t) /\ p # show.progress
                   THEN dead' = {d \in Episode : Recorded(d)} \cup {e} /\ moved' = clock
                   ELSE dead' = dead \ {e} /\ UNCHANGED moved
       /\ floor' = IF NaturalEnd(t) /\ e > floor THEN e ELSE floor
       /\ earned' = (earned \/ PlayCounts(t))

\* save_progress; the foreign key refuses it without the show's row.
SaveProgress(e, t) ==
    /\ IF show = None THEN UNCHANGED <<parts, dead>>
       ELSE /\ parts' = [parts EXCEPT ![e] = [tier |-> t, at |-> clock]]
            /\ dead' = dead \ {e}
    /\ UNCHANGED <<show, moved, floor, earned>>

\* A play starts, by key or as the continuation of one that failed.
Fire(e) ==
    /\ play = None
    /\ play' = e
    /\ UNCHANGED <<clock, row, ui, history, bounds>>

Checkpoint ==
    /\ play # None
    /\ \E t \in Tier : SaveProgress(play, t)
    /\ UNCHANGED <<clock, play, ui>>
    /\ Plays

\* PlayDone; a play that never got a position writes nothing.  The history
\* list is not read again.
PlayDone ==
    /\ play # None
    /\ \/ (\E t \in Tier : RecordFinish(play, t)) /\ Plays
       \/ UNCHANGED <<row, history, bounds>>
    /\ play' = None
    /\ UNCHANGED <<clock, ui>>

PlayFails ==
    /\ play # None
    /\ play' = None
    /\ UNCHANGED <<clock, row, ui, history, bounds>>

\* `shigoku play` in another terminal.
CliPlay(e) ==
    /\ \E t \in Tier : RecordFinish(e, t)
    /\ UNCHANGED <<clock, play, ui>>
    /\ Plays

-----------------------------------------------------------------------------
\* The row appears: with the provider's binding, by the add key, from a tracker.

Bind ==
    /\ show = None
    /\ show' = NewRow
    /\ UNCHANGED <<clock, parts, play, ui, history, bounds>>

Add ==
    /\ show' = IF show = None THEN [NewRow EXCEPT !.added = TRUE] ELSE [show EXCEPT !.added = TRUE]
    /\ earned' = TRUE
    /\ UNCHANGED <<clock, parts, play, ui, dead, moved, floor>>
    /\ Changes

\* apply_reconcile: an import takes a row nobody has used, a merge any other.
Adopt(status, progress) ==
    LET r == IF show = None THEN NewRow ELSE show IN
    /\ r.added \/ (r.status = Planning /\ r.progress = 0)
    /\ show' = [status |-> status, progress |-> progress,
                stamped |-> RiseStamp(r, progress), added |-> TRUE]
    /\ UNCHANGED parts
    /\ Retire(r.progress < progress)
    /\ floor' = 0 /\ earned' = TRUE
    /\ UNCHANGED <<clock, play, ui>>
    /\ Changes

-----------------------------------------------------------------------------
\* The history list and its keys.

\* list_history's row for the show, if it has one.
Listed(r) == IF r # None /\ r.added THEN [status |-> r.status, progress |-> r.progress] ELSE None

\* load_history on an event: a sync that changed something, an enrichment.
Reload ==
    /\ screen # "elsewhere"
    /\ view' = Listed(show)
    /\ UNCHANGED <<clock, row, play, screen, undo, history, bounds>>

ReloadHistory == view' = Listed(show') /\ screen' = "history"

GoHistory ==
    /\ screen = "elsewhere"
    /\ UNCHANGED <<clock, row, play, undo, history, bounds>>
    /\ ReloadHistory

\* The rows stay in memory, but nothing uses them before they are read again.
Leave ==
    /\ screen = "history"
    /\ screen' = "elsewhere" /\ view' = None
    /\ UNCHANGED <<clock, row, play, undo, history, bounds>>

Selected == screen = "history" /\ view # None

\* p/x/c/w/P: set_list_status; the undo is taken from the list's row.
StatusKey(status) ==
    /\ Selected
    /\ undo' = view
    /\ IF show = None THEN UNCHANGED <<show, dead, moved, floor, earned>>
       ELSE LET p == IF status = Completed /\ Total > 0 THEN Total ELSE show.progress
            IN  /\ show' = Put(show, status, p)
                /\ Retire(p # show.progress)
                /\ floor' = IF p = show.progress THEN floor ELSE 0
                /\ UNCHANGED earned
    /\ UNCHANGED <<clock, parts, play>>
    /\ ReloadHistory
    /\ Changes

\* u: restore_list_status of the captured pair.
Undo ==
    /\ screen = "history" /\ undo # None
    /\ undo' = None
    /\ IF show = None THEN UNCHANGED <<show, dead, moved, floor, earned>>
       ELSE /\ show' = Put(show, undo.status, undo.progress)
            /\ Retire(undo.progress # show.progress)
            /\ floor' = 0
            /\ UNCHANGED earned
    /\ UNCHANGED <<clock, parts, play, bounds>>
    /\ ReloadHistory

\* The place, among the recorded episodes, of the last one fully watched.
WatchedRows == {e \in Episode : Recorded(e) /\ FullyWatched(parts[e].tier)}

HighWaterMark == Cardinality({e \in Episode : Recorded(e) /\ \E d \in WatchedRows : e <= d})

\* r: recompute_progress.
Recompute ==
    /\ Selected
    /\ undo' = None
    /\ IF show = None THEN UNCHANGED <<show, dead, moved, floor, earned>>
       ELSE LET p == HighWaterMark
            IN  /\ show' = [show EXCEPT !.progress = p, !.stamped = Stamp(show, p)]
                /\ Retire(p # show.progress)
                /\ floor' = 0
                /\ UNCHANGED earned
    /\ UNCHANGED <<clock, parts, play>>
    /\ ReloadHistory
    /\ Changes

ArmDelete ==
    /\ Selected
    /\ screen' = "confirm"
    /\ UNCHANGED <<clock, row, play, view, undo, history, bounds>>

CancelDelete ==
    /\ screen = "confirm"
    /\ screen' = "history"
    /\ UNCHANGED <<clock, row, play, view, undo, history, bounds>>

Cascaded == [e \in Episode |-> None]

\* y: delete_show, whose cascade takes the episodes along; refused while the
\* show plays.
Delete ==
    /\ screen = "confirm" /\ play = None
    /\ show' = None /\ parts' = Cascaded
    /\ undo' = None
    /\ ReloadHistory
    /\ dead' = {} /\ moved' = 0 /\ floor' = 0 /\ earned' = FALSE
    /\ UNCHANGED <<clock, play>>
    /\ Changes

-----------------------------------------------------------------------------
Second ==
    /\ clock < MaxClock
    /\ clock' = clock + 1
    /\ UNCHANGED <<row, play, ui, history, bounds>>

\* The program ends, by quitting or otherwise, and is started again.
Restart ==
    /\ play' = None /\ screen' = "elsewhere" /\ view' = None
    /\ undo' = None
    /\ UNCHANGED <<clock, row, history, bounds>>

Next ==
    \/ \E e \in Episode : Fire(e) \/ CliPlay(e)
    \/ Checkpoint \/ PlayDone \/ PlayFails
    \/ Bind \/ Add
    \/ \E s \in Status, p \in 0..MaxProgress : Adopt(s, p)
    \/ Reload \/ GoHistory \/ Leave
    \/ \E s \in Status : StatusKey(s)
    \/ Undo \/ Recompute \/ ArmDelete \/ CancelDelete \/ Delete
    \/ Second \/ Restart

Spec == Init /\ [][Next]_vars

-----------------------------------------------------------------------------
\* Properties.

\* The shape of every variable; no episode row outlives its show.
TypeOK ==
    /\ clock \in Nat
    /\ show \in Row \cup {None}
    /\ parts \in [Episode -> Part \cup {None}]
    /\ show = None => \A e \in Episode : parts[e] = None
    /\ play \in Episode \cup {None}
    /\ screen \in {"elsewhere", "history", "confirm"}
    /\ view \in Pair \cup {None} /\ undo \in Pair \cup {None}
    /\ plays \in 0..MaxPlays /\ changes \in 0..MaxChanges
    /\ dead \subseteq Episode /\ moved \in Nat /\ floor \in Nat /\ earned \in BOOLEAN

\* latest_resume: the partials it chooses from, the freshest first.
\* Mutant: a partial of the frontier's own second still counts.
NotBefore(at, stamp) == at >= stamp
After(at, stamp) == at > stamp

ResumeRows ==
    {e \in Episode : /\ Recorded(e) /\ ~FullyWatched(parts[e].tier)
                     /\ After(parts[e].at, show.stamped)}

\* A partial the frontier went past never comes back as the resume point,
\* whatever happens to progress afterwards and whoever moved it: the finish of
\* a later episode, a status key, an undo, a recompute or a tracker (ROD-477).
DeadPartialsStayDead == ResumeRows \cap dead = {}

\* A partial saved in a later second than the last frontier move resumes: a
\* tracker that takes progress back does not retire it, nor do a finish that
\* moves nothing, a kill or a status (ROD-497).
LivePartialsResume ==
    \A e \in Episode :
        Recorded(e) /\ ~FullyWatched(parts[e].tier) /\ parts[e].at > moved => e \in ResumeRows

\* What was played to its natural end stays finished, in whatever order the
\* episodes are played and from whichever process, until the user or a tracker
\* sets progress (record_finish's ratchet).
FinishesAreKept == show # None => show.progress >= floor

\* A show gets into the library, and out of Planning, by a counted play, the
\* add key or a tracker only: a quick check of a stream leaves the row as it
\* was (docs/MANUAL.md, "A play counts as a watch").
LibraryIsEarned ==
    show # None /\ ~earned => ~show.added /\ show.status = Planning /\ show.progress = 0

=============================================================================
