--------------------------- MODULE MCWatchHistory ---------------------------
(* Small instances of WatchHistory; the configurations give the bounds.      *)
EXTENDS WatchHistory
=============================================================================
