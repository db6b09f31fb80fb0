------------------------------- MODULE Player -------------------------------
(* One play of one episode: player.cpp and proxy.cpp.  The thread that plays   *)
(* resolves the episode (or takes the downloaded file), guards the link,       *)
(* engages the de-cloaking proxy, spawns the player, waits for it, joins the   *)
(* thread that watches its position, stops the proxy, and judges the attempt:  *)
(* only a player that could not open the stream is started again.  The watcher *)
(* reads positions over mpv's socket or polls mplayer through its pipes; the   *)
(* proxy accepts connections on a thread of its own.                           *)
(* Left out: argument building, a second process on the socket's path (refused *)
(* by its pid), lines over 64 KiB, and a process that has no file descriptor   *)
(* left for the proxy's wake-up dial.                                          *)
(* Player implements PlaySession, which is what the callers rely on.           *)
EXTENDS Naturals, Sequences

CONSTANTS Backends,    \* of {"mpv", "mplayer", "qmplay2"}: the configured players
          MaxPlayAttempts, \* kMaxPlayAttempts
          IpcTries,    \* kIpcConnectTries
          Secs,        \* positions a player may report; 0 is not meaningful
          MaxReports,  \* bound: reports of one attempt
          MaxConns     \* bound: connections the player opens to one proxy

VARIABLES
    play,   \* the playing thread: where it is, its attempt, what the attempt gave
    kid,    \* the player process
    wire,   \* what the process wrote and the watcher has not read
    watch,  \* the watcher thread
    seen,   \* Observed::meaningful_secs; 0 = none
    proxy,  \* the attempt's proxy
    told    \* history: the last meaningful position a watcher could read, this play

vars == <<play, kid, wire, watch, seen, proxy, told>>

meaningful(s) == s > 0

NoKid == [state |-> "none", bound |-> FALSE, code |-> 0, reports |-> 0]
NoWatch == [at |-> "none", tries |-> 0, asked |-> FALSE]
NoProxy == [loop |-> "none", shutting |-> FALSE, dials |-> 0, served |-> 0, conns |-> 0]
Idle == [at |-> "idle", backend |-> "mpv", local |-> FALSE, attempt |-> 0,
         gone |-> FALSE, result |-> "none", out |-> "none"]

PlayerInit ==
    /\ play = Idle /\ kid = NoKid /\ wire = <<>> /\ watch = NoWatch
    /\ seen = 0 /\ proxy = NoProxy /\ told = 0

\* play, play_local: a file has nothing to resolve, guard or de-cloak.
BeginPlay ==
    /\ play.at = "idle"
    /\ \E b \in Backends, local \in BOOLEAN :
         play' = [Idle EXCEPT !.at = IF local THEN "spawn" ELSE "resolve",
                              !.backend = b, !.local = local, !.attempt = 1]
    /\ UNCHANGED <<kid, wire, watch, seen, proxy, told>>

Goes(at) == play' = [play EXCEPT !.at = at]
\* An attempt that fails before its player runs ends the play: no retry.
Fails(why, at) == play' = [play EXCEPT !.at = at, !.out = why]

-----------------------------------------------------------------------------
\* One attempt, on the playing thread.

Resolve ==
    /\ play.at = "resolve"
    /\ \/ Fails("resolve", "done")
       \/ Fails("unsafe_url", "done")
       \/ Goes("engage")
    /\ UNCHANGED <<kid, wire, watch, seen, proxy, told>>

\* engage: a plain link plays as it is; a cloaked one through the proxy.
Engage ==
    /\ play.at = "engage"
    /\ \/ Goes("spawn") /\ UNCHANGED proxy
       \/ Fails("spawn", "done") /\ UNCHANGED proxy
       \/ Goes("spawn") /\ proxy' = [NoProxy EXCEPT !.loop = "checking"]
    /\ UNCHANGED <<kid, wire, watch, seen, told>>

WatcherOf(b) == [NoWatch EXCEPT !.at = CASE b = "mpv" -> "connecting"
                                         [] b = "mplayer" -> "polling"
                                         [] OTHER -> "done"]

\* run_child_attempt up to waitpid; unsafe arguments, no pipe and no player fail.
Spawn ==
    /\ play.at = "spawn"
    /\ \/ /\ play' = [play EXCEPT !.at = "waiting", !.gone = FALSE]
          /\ kid' = [NoKid EXCEPT !.state = "running"]
          /\ watch' = WatcherOf(play.backend)
          /\ wire' = <<>> /\ seen' = 0
       \/ /\ \E why \in {"unsafe_arg", "mpv_not_found", "spawn"} : Fails(why, "stopping")
          /\ UNCHANGED <<kid, watch, wire, seen>>
    /\ UNCHANGED <<proxy, told>>

Waited ==
    /\ play.at = "waiting" /\ kid.state = "dead"
    /\ play' = [play EXCEPT !.at = "joining", !.gone = TRUE]
    /\ UNCHANGED <<kid, wire, watch, seen, proxy, told>>

Joined ==
    /\ play.at = "joining" /\ watch.at = "done"
    /\ play' = [play EXCEPT !.at = "stopping", !.out = "judge"]
    /\ watch' = NoWatch
    /\ UNCHANGED <<kid, wire, seen, proxy, told>>

\* Proxy::stop: the flag, then one dial to wake the accept loop, then the join.
Flag(p) == [p EXCEPT !.shutting = TRUE]
Dial(p) == [p EXCEPT !.dials = @ + 1]

DialsFirst(p, first) == IF first THEN Dial(p) ELSE Flag(p)

\* The flag is set before the dial, or the loop may answer the dial and park.
stop(p, first) == IF first THEN Flag(p) ELSE Dial(p)

StopProxy ==
    /\ \/ /\ play.at = "stopping" /\ proxy.loop # "none"
          /\ Goes("waking") /\ proxy' = stop(proxy, TRUE)
       \/ /\ play.at = "waking"
          /\ Goes("stopped") /\ proxy' = stop(proxy, FALSE)
       \/ /\ \/ play.at = "stopping" /\ proxy.loop = "none"
             \/ play.at = "stopped" /\ proxy.loop = "left"
          /\ proxy' = NoProxy
          /\ IF play.out = "judge" THEN Goes("judging") ELSE Goes("done")
    /\ UNCHANGED <<kid, wire, watch, seen, told>>

\* run_attempts: exit 2 with nothing watched is a stream that did not open.
OpenFailed == kid.code = 2 /\ ~meaningful(seen)

Judge ==
    /\ play.at = "judging"
    /\ \/ /\ ~OpenFailed
          /\ IF ~meaningful(seen) /\ kid.code # 0 THEN Fails("exit", "done")
             ELSE play' = [play EXCEPT !.at = "done", !.out = "ok"]
       \/ /\ OpenFailed /\ play.attempt < MaxPlayAttempts
          /\ play' = [play EXCEPT !.at = IF play.local THEN "spawn" ELSE "resolve",
                                  !.attempt = @ + 1, !.out = "none"]
       \/ /\ OpenFailed /\ play.attempt >= MaxPlayAttempts
          /\ Fails("open_failed", "done")
    /\ UNCHANGED <<kid, wire, watch, seen, proxy, told>>

\* The result is returned; a connection still open outlives its proxy.
EndPlay ==
    /\ play.at = "done"
    /\ play' = Idle /\ kid' = NoKid /\ wire' = <<>> /\ seen' = 0 /\ told' = 0
    /\ UNCHANGED <<watch, proxy>>

-----------------------------------------------------------------------------
\* The watcher thread.

\* connect_ipc: a bounded number of tries, cut short once the player is gone.
Connect ==
    /\ watch.at = "connecting"
    /\ \/ /\ kid.bound /\ kid.state = "running"
          /\ watch' = [watch EXCEPT !.at = "reading"]
       \/ /\ ~(kid.bound /\ kid.state = "running")
          /\ watch' = IF play.gone \/ watch.tries + 1 = IpcTries
                        THEN [watch EXCEPT !.at = "done"]
                        ELSE [watch EXCEPT !.tries = @ + 1]
    /\ UNCHANGED <<play, kid, wire, seen, proxy, told>>

Read(s) == IF meaningful(s) THEN s ELSE seen

\* watch_ipc: blocks for a line, and ends at the end of the stream.
ReadIpc ==
    /\ watch.at = "reading"
    /\ \/ /\ wire # <<>>
          /\ seen' = Read(Head(wire)) /\ wire' = Tail(wire) /\ UNCHANGED watch
       \/ /\ wire = <<>> /\ kid.state = "dead"
          /\ watch' = [watch EXCEPT !.at = "done"] /\ UNCHANGED <<seen, wire>>
    /\ UNCHANGED <<play, kid, proxy, told>>

LeavesUnread == "done"

\* A player that is gone, or a command pipe that is closed, ends the polling and
\* leaves what the player answered last to be drained.
AfterPolling == "draining"

\* watch_slave: ask, gather answers for a while, ask again.
Ask ==
    /\ watch.at = "polling"
    /\ watch' = [watch EXCEPT !.at = IF play.gone \/ kid.state = "dead" THEN AfterPolling
                                     ELSE "gathering",
                              !.asked = kid.state = "running" /\ ~play.gone]
    /\ UNCHANGED <<play, kid, wire, seen, proxy, told>>

Gather ==
    /\ watch.at = "gathering"
    /\ \/ /\ wire # <<>>
          /\ seen' = Read(Head(wire)) /\ wire' = Tail(wire) /\ UNCHANGED watch
       \/ /\ wire = <<>> /\ kid.state = "dead"  \* the end of the stream
          /\ watch' = [watch EXCEPT !.at = "done"] /\ UNCHANGED <<seen, wire>>
       \/ /\ watch' = [watch EXCEPT !.at = "polling"] /\ UNCHANGED <<seen, wire>>
    /\ UNCHANGED <<play, kid, proxy, told>>

Drain ==
    /\ watch.at = "draining"
    /\ \/ /\ wire # <<>>
          /\ seen' = Read(Head(wire)) /\ wire' = Tail(wire) /\ UNCHANGED watch
       \/ /\ wire = <<>>
          /\ watch' = [watch EXCEPT !.at = "done"] /\ UNCHANGED <<seen, wire>>
    /\ UNCHANGED <<play, kid, proxy, told>>

-----------------------------------------------------------------------------
\* The player process and the proxy's accept loop.

Bind ==
    /\ kid.state = "running" /\ ~kid.bound /\ play.backend = "mpv"
    /\ kid' = [kid EXCEPT !.bound = TRUE]
    /\ UNCHANGED <<play, wire, watch, seen, proxy, told>>

\* mpv reports to a client that observes; mplayer answers what it was asked.
Listening == CASE play.backend = "mpv" -> watch.at = "reading"
               [] play.backend = "mplayer" -> watch.asked
               [] OTHER -> FALSE

Report ==
    /\ kid.state = "running" /\ Listening /\ kid.reports < MaxReports
    /\ \E s \in Secs :
         /\ wire' = Append(wire, s)
         /\ told' = IF meaningful(s) THEN s ELSE told
    /\ kid' = [kid EXCEPT !.reports = @ + 1]
    /\ watch' = [watch EXCEPT !.asked = FALSE]
    /\ UNCHANGED <<play, seen, proxy>>

\* Closed by its user, ended, unable to open the stream, or killed by a signal.
Exits ==
    /\ kid.state = "running"
    /\ \E c \in {0, 2, 9} : kid' = [kid EXCEPT !.state = "dead", !.code = c]
    /\ UNCHANGED <<play, wire, watch, seen, proxy, told>>

OpensConnection ==
    /\ kid.state = "running" /\ proxy.loop # "none" /\ proxy.conns < MaxConns
    /\ proxy' = [proxy EXCEPT !.dials = @ + 1, !.conns = @ + 1]
    /\ UNCHANGED <<play, kid, wire, watch, seen, told>>

\* accept_loop; a connection's handler is a thread of its own.
AcceptLoop ==
    /\ \/ /\ proxy.loop = "checking"
          /\ proxy' = [proxy EXCEPT !.loop = IF proxy.shutting THEN "left" ELSE "parked"]
       \/ /\ proxy.loop = "parked" /\ proxy.dials > 0
          /\ proxy' = IF proxy.shutting
                        THEN [proxy EXCEPT !.loop = "left", !.dials = @ - 1]
                        ELSE [proxy EXCEPT !.loop = "checking", !.dials = @ - 1,
                                           !.served = @ + 1]
    /\ UNCHANGED <<play, kid, wire, watch, seen, told>>

\* handle_conn: answers until the client hangs up, errs or idles.
HandlerEnds ==
    /\ proxy.served > 0
    /\ proxy' = [proxy EXCEPT !.served = @ - 1]
    /\ UNCHANGED <<play, kid, wire, watch, seen, told>>

PlayingThread == Resolve \/ Engage \/ Spawn \/ Waited \/ Joined \/ StopProxy \/ Judge
Watcher == Connect \/ ReadIpc \/ Ask \/ Gather \/ Drain
PlayerProcess == Bind \/ Report \/ Exits \/ OpensConnection

Next == BeginPlay \/ PlayingThread \/ EndPlay \/ Watcher \/ PlayerProcess
        \/ AcceptLoop \/ HandlerEnds

\* Threads run, and a player is closed, or comes to the end, some day.
Fairness == /\ WF_vars(PlayingThread) /\ WF_vars(Watcher) /\ WF_vars(AcceptLoop)
            /\ WF_vars(Exits)

Spec == PlayerInit /\ [][Next]_vars /\ Fairness

-----------------------------------------------------------------------------
\* Where a play is and what it returns, as its caller sees it.
CallersView ==
    [at |-> CASE play.at = "idle" -> "idle" [] play.at = "done" -> "over" [] OTHER -> "playing",
     told |-> IF play.at = "done" /\ play.out = "ok" THEN seen ELSE told,
     out |-> IF play.at = "done" THEN play.out ELSE "none"]

P == INSTANCE PlaySession WITH session <- CallersView

\* play keeps its promise.  However the player ends, and whatever the watcher
\* had read when it did, the last position that counts is the one returned, and
\* a play that has one is neither tried again nor failed.
KeepsItsPromise == P!SessionSpec

\* Every play returns: none hangs on its watcher, on the proxy's accept thread,
\* on a player that never opens its socket, or in its retries.
PlaysReturn == (play.at # "idle") ~> (play.at = "done")
=============================================================================
