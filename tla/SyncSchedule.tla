---------------------------- MODULE SyncSchedule ----------------------------
(* When the interface runs a sync: the bounded event queue, the debounce an  *)
(* edit arms, the one run at a time, the quit flush with its deadline, over  *)
(* several launches (tui/queue.hpp, tui/app.cpp).  What a run does to the    *)
(* library is AniListSync and MalMirror; here a run is what it gets to see.  *)
EXTENDS Integers, Sequences

CONSTANTS
    MaxDepth,       \* the queue's cap (kMaxDepth)
    FlushTicks,     \* ticks from an edit to its flush (kSyncFlushTicks)
    MaxPosts,       \* bound: events posted by the user and by other workers
    MaxEdits,       \* bound: edits of the library
    MaxLaunches,    \* bound: times the program is started
    MaxAgings       \* bound: times MAL's token passes its date

VARIABLES
    phase,          \* "down", "up", "quitting" (the flush is waited for)
    queue,          \* the event queue
    syncing, due,   \* the in-flight flag; ticks left to the flush, 0 disarmed
    ani, mal,       \* AniList sync is on; MAL's sign-in: "none", "live", "dated"
    run,            \* the sync worker
    final,          \* the quit flush's worker
    made, heard,    \* edits so far; how many of them each tracker's push has read
    owed,           \* history: how many of them this launch owes each tracker
    posts, launches, agings,        \* how much of each bound is spent
    wedged          \* history: a SyncFlushed was dropped

vars == <<phase, queue, syncing, due, ani, mal, run, final, made, heard, owed,
          posts, launches, agings, wedged>>

ui       == <<syncing, due>>
accounts == <<ani, mal>>
library  == <<made, heard, owed>>
bounds   == <<posts, launches, agings>>

-----------------------------------------------------------------------------
Tracker == {"ani", "mal"}

NoRun == [pc |-> "none", pullOnly |-> FALSE, ani |-> FALSE, mal |-> "none", rolled |-> FALSE]

Init ==
    /\ phase = "down" /\ queue = <<>>
    /\ syncing = FALSE /\ due = 0
    /\ ani \in BOOLEAN /\ mal \in {"none", "live", "dated"}
    /\ run = NoRun /\ final = "none"
    /\ made = 0 /\ heard = [t \in Tracker |-> 0] /\ owed = heard
    /\ posts = 0 /\ launches = 0 /\ agings = 0
    /\ wedged = FALSE

-----------------------------------------------------------------------------
\* The queue.  A post past the cap is dropped, and so is one after shutdown.

Fits == phase = "up" /\ Len(queue) < MaxDepth

TryPost(ev) == queue' = IF Fits THEN Append(queue, ev) ELSE queue

\* What the reader thread and the other workers post.
Posted == {"edit", "toggle", "quit", "other", "signin_ani", "signin_mal"}

Post ==
    /\ phase = "up"
    /\ posts < MaxPosts
    /\ posts' = posts + 1
    /\ \E ev \in Posted : TryPost(ev)
    /\ UNCHANGED <<phase, ui, accounts, run, final, library, launches, agings, wedged>>

-----------------------------------------------------------------------------
\* The gates.

AnyTracker == ani \/ mal = "live"

\* A tracker an edit is owed to: a dated MAL sign-in is renewed by the next run.
Owing(a, m) == (IF a THEN {"ani"} ELSE {}) \cup
               (IF m = "live" \/ (m = "dated" /\ a) THEN {"mal"} ELSE {})

\* A tracker that is no longer connected is owed nothing more.
Reowe(a, m) ==
    owed' = [t \in Tracker |-> IF t \in Owing(a, m) THEN owed[t] ELSE heard[t]]

Spawned(pullOnly, a, m) ==
    [pc |-> "ani", pullOnly |-> pullOnly, ani |-> a, mal |-> m, rolled |-> FALSE]

\* flush_sync's retry while a run is going.
\* Mutant: the flush is taken as done.
ForgetWhileRunning == due' = 0
RetryWhileRunning == due' = FlushTicks

\* flush_sync, called with the deadline at d and the accounts as they now are.
FlushSync(pullOnly, d, a, m) ==
    CASE ~(a \/ m = "live" \/ pullOnly) -> due' = d /\ UNCHANGED <<syncing, run>>
      [] (a \/ m = "live" \/ pullOnly) /\ syncing ->
             RetryWhileRunning /\ UNCHANGED <<syncing, run>>
      [] OTHER -> /\ run' = Spawned(pullOnly, a, m)
                  /\ syncing' = TRUE
                  /\ due' = d

-----------------------------------------------------------------------------
\* The interface's loop: one event, or a tick after an empty wait.

Head1 == queue[1]

Take == phase = "up" /\ queue # <<>> /\ queue' = Tail(queue)

\* A status key, undo, recompute, score, add or counted play, then arm_sync.
HandleEdit ==
    /\ Take /\ Head1 = "edit"
    /\ made < MaxEdits
    /\ made' = made + 1
    /\ owed' = [t \in Tracker |-> IF t \in Owing(ani, mal) THEN made' ELSE owed[t]]
    /\ due' = IF AnyTracker THEN FlushTicks ELSE due
    /\ UNCHANGED <<phase, syncing, accounts, run, final, heard, bounds, wedged>>

HandleOther ==
    /\ Take
    /\ Head1 = "other" \/ (Head1 = "edit" /\ made = MaxEdits)
    /\ UNCHANGED <<phase, ui, accounts, run, final, library, bounds, wedged>>

\* Settings: "sync enabled" on or off; no flush follows.
HandleToggle ==
    /\ Take /\ Head1 = "toggle"
    /\ ani' = ~ani /\ UNCHANGED mal
    /\ Reowe(ani', mal)
    /\ UNCHANGED <<phase, ui, run, final, made, heard, bounds, wedged>>

\* on_connect_result: a full run at once, or after the one going.
HandleSignIn ==
    /\ Take /\ Head1 = "signin_ani"
    /\ ani' = TRUE /\ UNCHANGED mal
    /\ Reowe(TRUE, mal)
    /\ FlushSync(FALSE, due, TRUE, mal)
    /\ UNCHANGED <<phase, final, made, heard, bounds, wedged>>

\* on_mal_connect_result.
HandleMalSignIn ==
    /\ Take /\ Head1 = "signin_mal"
    /\ mal' = "live" /\ UNCHANGED ani
    /\ Reowe(ani, "live")
    /\ FlushSync(TRUE, due, ani, "live")
    /\ UNCHANGED <<phase, final, made, heard, bounds, wedged>>

\* on_sync_flushed; a renewed pair is read back from the auth file.
HandleFlushed ==
    /\ Take /\ Head1 \in {"flushed", "renewed"}
    /\ syncing' = FALSE
    /\ mal' = IF Head1 = "renewed" THEN "live" ELSE mal
    /\ UNCHANGED <<phase, due, ani, run, final, library, bounds, wedged>>

\* Whether the quit waits for a last push.
QuitFlushes == ani /\ ~syncing

HandleQuit ==
    /\ Take /\ Head1 = "quit"
    /\ IF QuitFlushes
       THEN phase' = "quitting" /\ final' = "ani" /\ UNCHANGED <<run, syncing, due>>
       ELSE /\ phase' = "down" /\ final' = "none"
            /\ run' = NoRun /\ syncing' = FALSE /\ due' = 0
    /\ UNCHANGED <<accounts, library, bounds, wedged>>

Tick ==
    /\ phase = "up" /\ queue = <<>>
    /\ due > 0
    /\ IF due > 1
       THEN due' = due - 1 /\ UNCHANGED <<syncing, run>>
       ELSE FlushSync(FALSE, 0, ani, mal)
    /\ UNCHANGED <<phase, queue, accounts, final, library, bounds, wedged>>

Loop == HandleEdit \/ HandleOther \/ HandleToggle \/ HandleSignIn
        \/ HandleMalSignIn \/ HandleFlushed \/ HandleQuit

\* MAL's access token passes its date.
Ages ==
    /\ mal = "live" /\ agings < MaxAgings
    /\ mal' = "dated" /\ UNCHANGED ani
    /\ agings' = agings + 1
    /\ Reowe(ani, "dated")
    /\ UNCHANGED <<phase, queue, ui, run, final, made, heard, posts, launches, wedged>>

-----------------------------------------------------------------------------
\* The sync worker: it keeps the accounts it was spawned with.

Reads(t) == heard' = [heard EXCEPT ![t] = made]

\* pull_mirror (which renews an outdated pair, or cannot reach MAL), then the
\* AniList half, whose push reads the library unless the run only pulls.
RunAniList ==
    /\ run.pc = "ani"
    /\ IF run.ani /\ ~run.pullOnly THEN Reads("ani") ELSE UNCHANGED heard
    /\ \E rolled \in IF run.mal = "dated" THEN BOOLEAN ELSE {FALSE} :
           run' = [run EXCEPT !.pc = "mal", !.rolled = rolled]
    /\ UNCHANGED <<phase, queue, ui, accounts, final, made, owed, bounds, wedged>>

\* push_mirror rides every run.
RunMal ==
    /\ run.pc = "mal"
    /\ IF run.mal # "none" THEN Reads("mal") ELSE UNCHANGED heard
    /\ run' = [run EXCEPT !.pc = "post"]
    /\ UNCHANGED <<phase, queue, ui, accounts, final, made, owed, bounds, wedged>>

\* The worker's last act; it does not look at what try_post answers.
RunPosts ==
    /\ run.pc = "post"
    /\ TryPost(IF run.rolled THEN "renewed" ELSE "flushed")
    /\ wedged' = (wedged \/ (phase = "up" /\ ~Fits))
    /\ run' = NoRun
    /\ UNCHANGED <<phase, ui, accounts, final, library, bounds>>

SyncWorker == RunAniList \/ RunMal \/ RunPosts

-----------------------------------------------------------------------------
\* Quitting, dying, starting again.

FinalStep ==
    /\ phase = "quitting" /\ final \in {"ani", "mal"}
    /\ IF final = "ani" THEN Reads("ani") /\ final' = "mal"
       ELSE /\ IF mal # "none" THEN Reads("mal") ELSE UNCHANGED heard
            /\ final' = "done"
    /\ UNCHANGED <<phase, queue, ui, accounts, run, made, owed, bounds, wedged>>

Down ==
    /\ phase' = "down" /\ final' = "none"
    /\ queue' = <<>> /\ syncing' = FALSE /\ due' = 0 /\ run' = NoRun
    /\ UNCHANGED <<accounts, library, bounds, wedged>>

\* bounded_wait: the flush is through, or its second is.
WaitIsOver == final = "done" \/ phase = "quitting"

FinalWait ==
    /\ phase = "quitting"
    /\ WaitIsOver
    /\ Down

Killed == phase = "up" /\ Down

Launch ==
    /\ phase = "down" /\ launches < MaxLaunches
    /\ launches' = launches + 1
    /\ phase' = "up" /\ queue' = <<>> /\ wedged' = FALSE
    /\ owed' = heard
    /\ FlushSync(TRUE, 0, ani, mal)
    /\ UNCHANGED <<accounts, final, made, heard, posts, agings>>

Next ==
    \/ Post \/ Loop \/ Tick \/ Ages
    \/ SyncWorker \/ FinalStep \/ FinalWait
    \/ Killed \/ Launch

Spec == Init /\ [][Next]_vars

\* The loop takes what is queued and ticks when nothing is; a run's calls all
\* time out, so its steps come; the quit's deadline comes.  Nothing is assumed
\* of the user, of the token's age or of the quit flush's own calls.
Fairness == WF_vars(Loop) /\ WF_vars(Tick) /\ WF_vars(SyncWorker) /\ WF_vars(FinalWait)
FairSpec == Spec /\ Fairness

-----------------------------------------------------------------------------
\* Properties.

\* While the program is up, and once the edits stop, it comes to a point where every edit made
\* with a tracker connected has been read by a push to that tracker, unless the
\* one event that ends a run was dropped (arm_sync, the tick, flush_sync's
\* retry).
EveryEditIsHeard ==
    []<>(phase # "up" \/ wedged \/ \A t \in Tracker : heard[t] >= owed[t])

\* Quitting ends, however long the last push takes (tests: "a hung worker cannot
\* exceed its deadline").
QuitEnds == phase = "quitting" ~> phase = "down"
=============================================================================
