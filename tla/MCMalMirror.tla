---------------------------- MODULE MCMalMirror ----------------------------
(* Small instances of MalMirror: one show, three raw scores of which one is  *)
(* off both sites' grids.                                                    *)
EXTENDS MalMirror

\* MAL rounds raw 2 up to 3 (7.5 of 10 is kept as 8); AniList's own format
\* rounds raw 1 up to 3.
MalRounds == [s \in Score |-> IF s = 2 THEN 3 ELSE s]
AniRounds == [s \in Score |-> IF s \in {1, 2} THEN 3 ELSE s]
Exact == [s \in Score |-> s]
=============================================================================
