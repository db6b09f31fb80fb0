----------------------------- MODULE MCSyncEnds -----------------------------
(* What the two sides of the sync come to: the runs against AniList           *)
(* (AniListSync), and the scheduling of runs by the interface (SyncSchedule). *)
(* A behaviour runs one of the two while the other rests.                     *)
EXTENDS MCAniListSync

CONSTANTS MaxDepth, FlushTicks, MaxPosts, MaxUiEdits, MaxLaunches, MaxAgings

VARIABLES part,
    phase, queue, syncing, due, ani, mal, run, final, made, heard, owed,
    posts, launches, agings, wedged

uiVars == <<phase, queue, syncing, due, ani, mal, run, final, made, heard, owed,
            posts, launches, agings, wedged>>

UI == INSTANCE SyncSchedule WITH MaxEdits <- MaxUiEdits

MCInit ==
    /\ part \in {"runs", "schedule"}
    /\ Init /\ UI!Init
    /\ part = "runs" => ani /\ mal = "none"
    /\ part = "schedule" => \A i \in Id : server[i] = None

MCNext ==
    \/ part = "runs" /\ Next /\ UNCHANGED <<part, uiVars>>
    \/ part = "schedule" /\ UI!Next /\ UNCHANGED part /\ UNCHANGED vars

\* FairSpec's fairness for the runs, SyncSchedule's for the schedule.
MCSpec ==
    /\ MCInit /\ [][MCNext]_<<part, uiVars, vars>>
    /\ \A p \in Worker :
          /\ WF_vars(part = "runs" /\ Progresses(p))
          /\ SF_vars(part = "runs" /\ FetchList(p))
          /\ SF_vars(part = "runs" /\ Guard(p))
          /\ SF_vars(part = "runs" /\ Save(p))
          /\ SF_vars(part = "runs" /\ Start(p, "full"))
    /\ UI!Fairness

\* An edit is read by a push to each connected tracker (SyncSchedule.tla).
EveryEditIsHeard == UI!EveryEditIsHeard
\* Every run ends, even against a server that answers 429 for ever, and so does
\* quitting, even while the last push hangs (AniListSync.tla, SyncSchedule.tla).
RunsEnd == RunTerminates /\ UI!QuitEnds
=============================================================================
