--------------------------- MODULE MCEpisodeWalk ---------------------------
EXTENDS EpisodeWalk

CONSTANTS a, b, p, q, r, x, y

\* p is keyed by the show's own id, q and r are searched; r may answer two
\* ids for the first show, one of which the second show's search finds too.
MCRegistry == <<p, q, r>>
MCKey == [show \in Shows |-> [v \in Providers |->
            IF v = p THEN IF show = a THEN x ELSE y ELSE None]]
MCHits == [show \in Shows |-> [v \in Providers |->
            IF v = p THEN {} ELSE IF v = r /\ show = a THEN {x, y} ELSE {x}]]
=============================================================================
