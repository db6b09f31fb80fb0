---------------------------- MODULE MCTwoSyncs -----------------------------
(* AniListSync with one sync process, or with two and fewer values.         *)
EXTENDS MCAniListSync, FiniteSets

VARIABLE procs    \* the sync processes of this behaviour: one, or two

Two == Cardinality(procs) = 2

\* Two processes come with one edit on each side, no fault, and one value of
\* progress and score.
Small ==
    \A i \in Id :
        /\ show[i] # None => show[i].entry.progress = 0 /\ show[i].entry.score = 0
        /\ server[i] # None => server[i].progress = 0 /\ server[i].score = 0

MCInit ==
    /\ show = [i \in Id |-> None]
    /\ server \in [Id -> {None} \cup {e \in ServerEntry : e.score = 0}]
    /\ w = [p \in Worker |-> Idle]
    /\ procs \in {Worker, {CHOOSE p \in Worker : TRUE}}
    /\ edits = (IF Two THEN MaxEdits - 1 ELSE 0)
    /\ faults = (IF Two THEN MaxFaults ELSE 0)
    /\ remoteEdits = 0
    /\ known = [i \in Id |-> {}]
    /\ held = [i \in Id |-> {server[i]} \ {None}]
    /\ touched = {}
    /\ Two => Small

MCNext ==
    /\ Next
    /\ UNCHANGED procs
    /\ \A p \in Worker \ procs : w'[p] = w[p]
    /\ Two => Small'

MCSpec == MCInit /\ [][MCNext]_<<vars, procs>>

\* One sync process never takes back what the user changed.  Two may: the
\* guard of apply_reconcile does not name the snapshot, so a plan made before
\* another process moved it can undo an edit that restored the planned value.
LocalMovesSurvive == [][~Two => LocalMovesKept]_vars
=============================================================================
