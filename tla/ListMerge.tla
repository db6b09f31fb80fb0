----------------------------- MODULE ListMerge -----------------------------
(* The list entry a tracker row carries (status, progress, score) and the   *)
(* three-way merge a pull runs on it: store.cpp, namespace store_detail.    *)
EXTENDS Integers

CONSTANTS
    Status,         \* the ListStatus values in play
    Planning,       \* the status of a row nobody has moved yet
    MaxProgress,    \* bound: the highest episode number
    Score,          \* the raw scores in play, 0 standing for "no score"
    None            \* no snapshot, no server entry, no library row

ASSUME ListMergeAssumption ==
    /\ Planning \in Status
    /\ MaxProgress \in Nat
    /\ Score \subseteq Nat
    /\ 0 \in Score

Progress == 0..MaxProgress

Entry == [status : Status, progress : Progress, score : Score]

\* The base of a first contact: ListEntry{}.
DefaultEntry == [status |-> Planning, progress |-> 0, score |-> 0]

ASSUME NoneAssumption == None \notin Entry

MaybeEntry == Entry \cup {None}

\* Status and score: whichever side moved wins, the local one when both did.
MergeLocalWins(base, local, remote) == IF local # base THEN local ELSE remote

BothMoved(base, local, remote) ==
    local # base /\ remote # base /\ local # remote

\* Progress: the side that moved, and the larger one when both or none did.
MergeProgress(base, local, remote) ==
    IF local = base \/ (remote # base /\ remote > local) THEN remote ELSE local

EffectiveBase(base) == IF base = None THEN DefaultEntry ELSE base

Merged(base, local, remote) ==
    LET b == EffectiveBase(base) IN
    [status   |-> MergeLocalWins(b.status, local.status, remote.status),
     progress |-> MergeProgress(b.progress, local.progress, remote.progress),
     score    |-> MergeLocalWins(b.score, local.score, remote.score)]

Conflict(base, local, remote) ==
    LET b == EffectiveBase(base) IN
    \/ BothMoved(b.status, local.status, remote.status)
    \/ BothMoved(b.score, local.score, remote.score)

\* reconcile(): the triple the row takes, the snapshot it is written with
\* (always what the server was seen to hold) and the conflict flag.
Reconcile(base, local, remote) ==
    [merged   |-> Merged(base, local, remote),
     snapshot |-> remote,
     conflict |-> Conflict(base, local, remote)]
=============================================================================
