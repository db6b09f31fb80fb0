--------------------------- MODULE MCAniListSync ---------------------------
(* Small instances of AniListSync: one show with three statuses, an episode *)
(* and a lossy score scale.                                                 *)
EXTENDS AniListSync

OneEpisode == [i \in Id |-> 1]
UnknownTotal == [i \in Id |-> 0]

\* Raw score 1 is off the account's grid and is kept as 2.
Lossy == [s \in Score |-> IF s = 1 THEN 2 ELSE s]
=============================================================================
