---------------------------- MODULE PlaySession ----------------------------
(* What play and play_local promise their callers (player.hpp): a play begins, *)
(* the player may tell where it is, and the play ends.  The last position told *)
(* is the play's position, however the player then ended; only a play without  *)
(* one can fail, and one that ended cleanly without one is no failure either.  *)
EXTENDS Naturals

CONSTANTS Secs   \* positions a player may tell; 0 does not count

ErrorKinds == {"resolve", "unsafe_url", "unsafe_arg", "open_failed", "mpv_not_found",
               "spawn", "exit"}

VARIABLES session   \* the play: idle, playing or over; what it told; how it ended

Between == [at |-> "idle", told |-> 0, out |-> "none"]

Began == session' = [Between EXCEPT !.at = "playing"]

Begin == session.at = "idle" /\ Began

Tell == /\ session.at = "playing"
        /\ \E s \in Secs \ {0} : session' = [session EXCEPT !.told = s]

Finish == /\ session.at = "playing"
          /\ \E out \in ErrorKinds \cup {"ok"} :
               /\ session.told > 0 => out = "ok"
               /\ session' = [session EXCEPT !.at = "over", !.out = out]

Return == session.at = "over" /\ session' = Between

SessionInit == session = Between
SessionNext == Begin \/ Tell \/ Finish \/ Return
SessionSpec == SessionInit /\ [][SessionNext]_session
=============================================================================
