--------------------------- MODULE SessionsProofs ---------------------------
(* Theorems about what has to come to an end: a play of one episode keeps the *)
(* promise of PlaySession, for any players, any positions, any number of      *)
(* attempts and of tries for the socket; a sign-in saves its own token and    *)
(* answers its modal, for any number of sessions; and a span of episodes      *)
(* plays forward, for any sources and any lists they have.                    *)
EXTENDS MCSessions, SequenceTheorems, TLAPS

-----------------------------------------------------------------------------
(* One play of one episode (Player)                                        *)

Running == {"waiting", "joining"}
Stops == {"stopping", "waking", "stopped"}
Errors == Play!P!ErrorKinds

PlayThread == [at : {"idle", "resolve", "engage", "spawn", "judging", "done"} \cup Running \cup Stops,
               backend : Backends \cup {"mpv"}, local : BOOLEAN, attempt : Nat, gone : BOOLEAN,
               result : {"none"}, out : Errors \cup {"none", "judge", "ok"}]
Process == [state : {"none", "running", "dead"}, bound : BOOLEAN, code : {0, 2, 9}, reports : Nat]
Watching == [at : {"none", "connecting", "reading", "polling", "gathering", "draining", "done"},
             tries : Nat, asked : BOOLEAN]

PlayTypes ==
    /\ play \in PlayThread /\ kid \in Process /\ watch \in Watching
    /\ wire \in Seq(Nat) /\ seen \in Nat /\ told \in Nat

\* What the player wrote and the watcher has yet to read leads from `from' to
\* `to': the last that counts of what is unread, or else what was read, is `to'.
Leads(unread, from, to) ==
    /\ (\A i \in DOMAIN unread : unread[i] = 0) => to = from
    /\ \A i \in DOMAIN unread :
          unread[i] # 0 /\ (\A j \in DOMAIN unread : j > i => unread[j] = 0) => to = unread[i]

\* A player runs while it is waited for and no longer; its watcher has ended with
\* nothing left to read, and only where the player can say no more.
WatchHolds ==
    /\ kid.state = "running" => play.at = "waiting"
    /\ play.at = "joining" \/ (play.at = "waiting" /\ play.gone) => kid.state = "dead"
    /\ play.at \notin Running => watch.at = "none"
    /\ play.at \in Running => Leads(wire, seen, told)
    /\ watch.at = "connecting" => play.backend = "mpv" /\ wire = <<>>
    /\ watch.at = "draining" => kid.state = "dead"
    /\ watch.at = "done" => wire = <<>> /\ (kid.state = "dead" \/ ~Play!Listening)

\* Until a player runs, or once one could not be started, nothing was told; when
\* it was waited for and its watcher has ended, all that was told has been read.
ToldHolds ==
    /\ play.at \in {"idle", "resolve", "engage", "spawn"} => told = 0
    /\ play.at \in Stops /\ play.out = "judge" => told = seen
    /\ play.at \in Stops /\ play.out # "judge" => play.out \in Errors /\ told = 0
    /\ play.at = "judging" => told = seen
    /\ play.at = "done" => \/ play.out \in Errors /\ told = 0
                           \/ play.out = "ok" /\ told = seen

PlayInv == PlayTypes /\ WatchHolds /\ ToldHolds

LEMMA OutcomesDiffer ==
  /\ Errors = {"resolve", "unsafe_url", "unsafe_arg", "open_failed", "mpv_not_found", "spawn", "exit"}
  /\ "ok" \notin Errors /\ "none" \notin Errors /\ "judge" \notin Errors
BY DEF Errors, Play!P!ErrorKinds

LEMMA NothingUnread ==
  ASSUME NEW n
  PROVE  Leads(<<>>, n, n)
BY DEF Leads

LEMMA AllIsRead ==
  ASSUME NEW from, NEW to, Leads(<<>>, from, to)
  PROVE  to = from
BY DEF Leads

\* Reading a line takes the watcher on.
LEMMA ReadingLeads ==
  ASSUME NEW unread \in Seq(Nat), unread # <<>>, NEW to, Leads(unread, seen, to), seen \in Nat
  PROVE  /\ Leads(Tail(unread), Play!Read(Head(unread)), to)
         /\ Tail(unread) \in Seq(Nat) /\ Play!Read(Head(unread)) \in Nat
<1> DEFINE t == Tail(unread)
           h == Head(unread)
           n == Len(unread)
<1>1. /\ t \in Seq(Nat) /\ h \in Nat /\ h = unread[1] /\ n \in Nat /\ n >= 1
      /\ Len(t) = n - 1 /\ DOMAIN unread = 1..n
  OBVIOUS
<1>2. DOMAIN t = 1..(n - 1) /\ \A i \in 1..(n - 1) : t[i] = unread[i + 1]
  BY <1>1
<1> HIDE DEF t, h, n
\* The entries after i are those of the tail after i - 1.
<1>3. ASSUME NEW i \in Nat, NEW j \in DOMAIN unread, j > i, i >= 1
      PROVE  j - 1 \in DOMAIN t /\ j - 1 > i - 1 /\ t[j - 1] = unread[j]
  <2>1. j \in Int /\ 1 <= j /\ j <= n /\ n \in Int /\ i \in Int
    BY <1>1, <1>3
  <2>2. j - 1 \in 1..(n - 1) /\ j - 1 > i - 1 /\ (j - 1) + 1 = j
    BY <1>3, <2>1
  <2> QED
    BY <1>2, <2>2
<1>4. Play!Read(h) = IF h > 0 THEN h ELSE seen
  BY DEF Play!Read, Play!meaningful
<1>5. ASSUME \A i \in DOMAIN t : t[i] = 0
      PROVE  to = Play!Read(h)
  <2>1. \A j \in DOMAIN unread : j > 1 => unread[j] = 0
    BY <1>3, <1>5
  <2>2. 1 \in DOMAIN unread
    BY <1>1
  <2>3. CASE h > 0
    BY <1>1, <1>4, <2>1, <2>2, <2>3 DEF Leads
  <2>4. CASE ~(h > 0)
    <3>1. h = 0
      BY <1>1, <2>4
    <3>2. \A j \in DOMAIN unread : unread[j] = 0
      <4>1. \A j \in 1..n : j = 1 \/ j > 1
        BY <1>1
      <4> QED
        BY <1>1, <2>1, <3>1, <4>1
    <3> QED
      BY <1>4, <2>4, <3>2 DEF Leads
  <2> QED
    BY <2>3, <2>4
<1>6. ASSUME NEW i \in DOMAIN t, t[i] # 0, \A j \in DOMAIN t : j > i => t[j] = 0
      PROVE  to = t[i]
  <2>1. i \in 1..(n - 1) /\ t[i] = unread[i + 1]
    BY <1>2
  <2>2. i + 1 \in Nat /\ i + 1 >= 1 /\ i + 1 \in 1..n /\ (i + 1) - 1 = i
    BY SMTT(60), <1>1, <2>1
  <2>3. ASSUME NEW j \in DOMAIN unread, j > i + 1
        PROVE  unread[j] = 0
    <3>1. j - 1 \in DOMAIN t /\ j - 1 > i /\ t[j - 1] = unread[j]
      BY <1>3, <2>2, <2>3
    <3> QED
      BY <1>6, <3>1
  <2>4. i + 1 \in DOMAIN unread /\ unread[i + 1] # 0
    BY <1>1, <1>6, <2>1, <2>2
  <2> QED
    BY <2>1, <2>3, <2>4 DEF Leads
<1>7. Play!Read(h) \in Nat
  BY <1>1, <1>4
<1> QED
  BY <1>1, <1>5, <1>6, <1>7 DEF Leads, t, h

\* A position that is told is unread after all the others.
LEMMA TellingLeads ==
  ASSUME NEW unread \in Seq(Nat), NEW from, NEW to, Leads(unread, from, to), NEW s \in Nat
  PROVE  Leads(Append(unread, s), from, IF s > 0 THEN s ELSE to)
<1> DEFINE a == Append(unread, s)
           n == Len(unread)
           last == IF s > 0 THEN s ELSE to
<1>1. /\ n \in Nat /\ DOMAIN unread = 1..n /\ DOMAIN a = 1..(n + 1) /\ a[n + 1] = s
      /\ \A i \in 1..n : a[i] = unread[i]
  OBVIOUS
<1> HIDE DEF a, n
<1>2. ASSUME \A i \in DOMAIN a : a[i] = 0
      PROVE  last = from
  <2>1. s = 0
    BY <1>1, <1>2
  <2>2. \A i \in DOMAIN unread : unread[i] = 0
    BY <1>1, <1>2
  <2> QED
    BY <2>1, <2>2 DEF Leads
<1>3. ASSUME NEW i \in DOMAIN a, a[i] # 0, \A j \in DOMAIN a : j > i => a[j] = 0
      PROVE  last = a[i]
  <2>1. CASE i = n + 1
    BY <1>1, <1>3, <2>1
  <2>2. CASE i # n + 1
    <3>1. i \in 1..n /\ n + 1 > i /\ n + 1 \in DOMAIN a
      BY <1>1, <2>2
    <3>2. s = 0
      BY <1>1, <1>3, <3>1
    <3>3. \A j \in DOMAIN unread : j > i => unread[j] = 0
      BY <1>1, <1>3
    <3> QED
      BY <1>1, <1>3, <3>1, <3>2, <3>3 DEF Leads
  <2> QED
    BY <2>1, <2>2
<1> QED
  BY <1>2, <1>3 DEF Leads, a

\* What the caller sees of a step: nothing, or a step of the session.
Seen == [Play!P!SessionNext]_(Play!CallersView)

\* A step inside a play that the caller sees nothing of.
LEMMA InsideAPlay ==
  ASSUME play.at \notin {"idle", "done"}, play'.at \notin {"idle", "done"}, told' = told
  PROVE  Seen
<1>1. Play!CallersView = [at |-> "playing", told |-> told, out |-> "none"]
  BY DEF Play!CallersView
<1>2. Play!CallersView' = [at |-> "playing", told |-> told', out |-> "none"]
  BY DEF Play!CallersView
<1> QED
  BY <1>1, <1>2 DEF Seen

\* A step that leaves a play where it is, and what it would return.
LEMMA AsItWas ==
  ASSUME play' = play, told' = told, seen' = seen
  PROVE  Seen
BY DEF Seen, Play!CallersView

\* A play ends as the session may: with what was told, or without a position.
LEMMA EndsAsPromised ==
  ASSUME told \in Nat, play.at \notin {"idle", "done"}, play'.at = "done", told' = told,
         seen' = seen,
         \/ play'.out \in Errors /\ told = 0
         \/ play'.out = "ok" /\ told = seen
  PROVE  Seen
<1> DEFINE s == Play!CallersView
<1>1. s = [at |-> "playing", told |-> told, out |-> "none"]
  BY DEF Play!CallersView
<1>2. s' = [at |-> "over", told |-> IF play'.out = "ok" THEN seen' ELSE told', out |-> play'.out]
  BY DEF Play!CallersView
<1>2a. s' = [at |-> "over", told |-> told, out |-> play'.out]
  BY <1>2, OutcomesDiffer
<1> HIDE DEF s
<1>2b. [s EXCEPT !.at = "over", !.out = play'.out]
         = [at |-> "over", told |-> told, out |-> play'.out]
  <2>1. ASSUME NEW o, NEW r,
               r = [[at |-> "playing", told |-> told, out |-> "none"] EXCEPT !.at = "over",
                                                                            !.out = o]
        PROVE  r = [at |-> "over", told |-> told, out |-> o]
    BY <2>1
  <2> QED
    BY <1>1, <2>1
<1>3. s' = [s EXCEPT !.at = "over", !.out = play'.out]
  BY <1>2a, <1>2b
<1>4. s.at = "playing" /\ s.told = told
  BY <1>1
<1>5. play'.out \in Play!P!ErrorKinds \cup {"ok"} /\ (told > 0 => play'.out = "ok")
  BY DEF Errors
<1>6. Play!P!Finish
  BY <1>3, <1>4, <1>5 DEF Play!P!Finish, s
<1> QED
  BY <1>6 DEF Seen, Play!P!SessionNext

LEMMA BeginKeeps ==
  ASSUME PlayInv, Play!BeginPlay
  PROVE  PlayInv' /\ Seen
<1>1. PICK b \in Backends, local \in BOOLEAN :
        play' = [Play!Idle EXCEPT !.at = IF local THEN "spawn" ELSE "resolve",
                                  !.backend = b, !.local = local, !.attempt = 1]
  BY DEF Play!BeginPlay
<1>2. play.at = "idle" /\ UNCHANGED <<kid, wire, watch, seen, told>>
  BY DEF Play!BeginPlay
<1>3. play' \in PlayThread /\ play'.at \in {"resolve", "spawn"}
  BY <1>1 DEF Play!Idle, PlayThread
<1>4. told = 0 /\ told' = 0
  BY <1>2 DEF PlayInv, ToldHolds
<1>5. PlayTypes'
  BY <1>2, <1>3 DEF PlayInv, PlayTypes
<1>6. WatchHolds'
  BY <1>2, <1>3 DEF PlayInv, WatchHolds, Running
<1>7. ToldHolds'
  BY <1>3, <1>4 DEF ToldHolds, Stops
<1>8. Play!CallersView = Play!P!Between
  BY <1>2, <1>4 DEF Play!CallersView, Play!P!Between
<1>9. Play!CallersView' = [at |-> "playing", told |-> 0, out |-> "none"]
  BY <1>3, <1>4 DEF Play!CallersView
<1>10. Play!P!Begin
  BY <1>8, <1>9 DEF Play!P!Begin, Play!P!Began, Play!P!Between
<1> QED
  BY <1>5, <1>6, <1>7, <1>10 DEF PlayInv, Seen, Play!P!SessionNext

\* Up to the player: what fails before it runs is returned, and nothing was told.
LEMMA ResolveKeeps ==
  ASSUME PlayInv, Play!Resolve \/ Play!Engage
  PROVE  PlayInv' /\ Seen
<1>1. play.at \in {"resolve", "engage"} /\ UNCHANGED <<kid, wire, watch, seen, told>>
  BY DEF Play!Resolve, Play!Engage
<1>2. \/ \E at \in {"engage", "spawn"} : play' = [play EXCEPT !.at = at]
      \/ \E why \in {"resolve", "unsafe_url", "spawn"} :
            play' = [play EXCEPT !.at = "done", !.out = why]
  BY DEF Play!Resolve, Play!Engage, Play!Goes, Play!Fails
<1>3. play \in PlayThread /\ told = 0 /\ told \in Nat
  BY <1>1 DEF PlayInv, PlayTypes, ToldHolds
<1>4. CASE \E at \in {"engage", "spawn"} : play' = [play EXCEPT !.at = at]
  <2>1. play' \in PlayThread /\ play'.at \in {"engage", "spawn"}
    BY <1>3, <1>4 DEF PlayThread
  <2>2. PlayTypes' /\ WatchHolds' /\ ToldHolds'
    BY <1>1, <1>3, <2>1 DEF PlayInv, PlayTypes, WatchHolds, ToldHolds, Running, Stops
  <2>3. Seen
    BY <1>1, <2>1, InsideAPlay
  <2> QED
    BY <2>2, <2>3 DEF PlayInv
<1>5. CASE \E why \in {"resolve", "unsafe_url", "spawn"} :
             play' = [play EXCEPT !.at = "done", !.out = why]
  <2>1. play' \in PlayThread /\ play'.at = "done" /\ play'.out \in Errors
    BY <1>3, <1>5, OutcomesDiffer DEF PlayThread, Stops
  <2>2. PlayTypes' /\ WatchHolds' /\ ToldHolds'
    BY <1>1, <1>3, <2>1 DEF PlayInv, PlayTypes, WatchHolds, ToldHolds, Running, Stops
  <2>3. Seen
    BY <1>1, <1>3, <2>1, EndsAsPromised
  <2> QED
    BY <2>2, <2>3 DEF PlayInv
<1> QED
  BY <1>2, <1>4, <1>5

LEMMA SpawnKeeps ==
  ASSUME PlayInv, Play!Spawn
  PROVE  PlayInv' /\ Seen
<1>1. play.at = "spawn" /\ told' = told
  BY DEF Play!Spawn
<1>2. play \in PlayThread /\ told = 0 /\ told \in Nat /\ kid.state # "running"
  BY <1>1 DEF PlayInv, PlayTypes, ToldHolds, WatchHolds
<1>3. ASSUME play' = [play EXCEPT !.at = "waiting", !.gone = FALSE],
             kid' = [Play!NoKid EXCEPT !.state = "running"],
             watch' = Play!WatcherOf(play.backend), wire' = <<>>, seen' = 0
      PROVE  PlayInv' /\ Seen
  <2>1. /\ play' \in PlayThread /\ play'.at = "waiting" /\ ~play'.gone
        /\ play'.backend = play.backend
    BY <1>2, <1>3 DEF PlayThread, Running
  <2>2. kid' \in Process /\ kid'.state = "running"
    BY <1>3 DEF Play!NoKid, Process
  <2>3. /\ watch' \in Watching /\ watch'.at \in {"connecting", "polling", "done"}
        /\ watch'.at = "connecting" => play.backend = "mpv"
        /\ watch'.at = "done" => play.backend # "mpv" /\ play.backend # "mplayer"
    BY <1>3 DEF Play!WatcherOf, Play!NoWatch, Watching
  <2>4. Leads(wire', seen', told')
    BY <1>1, <1>2, <1>3, NothingUnread
  <2>5. watch'.at = "done" => ~Play!Listening'
    BY <2>1, <2>3 DEF Play!Listening
  <2>6. WatchHolds'
    BY <1>3, <2>1, <2>2, <2>3, <2>4, <2>5 DEF WatchHolds, Running, Leads
  <2>7. PlayTypes' /\ ToldHolds'
    BY <1>1, <1>2, <1>3, <2>1, <2>2, <2>3 DEF PlayTypes, ToldHolds, Stops
  <2>8. Seen
    BY <1>1, <2>1, InsideAPlay
  <2> QED
    BY <2>6, <2>7, <2>8 DEF PlayInv
<1>4. ASSUME NEW why \in {"unsafe_arg", "mpv_not_found", "spawn"},
             play' = [play EXCEPT !.at = "stopping", !.out = why],
             UNCHANGED <<kid, watch, wire, seen>>
      PROVE  PlayInv' /\ Seen
  <2>1. play' \in PlayThread /\ play'.at = "stopping" /\ play'.out \in Errors
    BY <1>2, <1>4, OutcomesDiffer DEF PlayThread, Stops
  <2>2. PlayTypes' /\ WatchHolds' /\ ToldHolds'
    BY <1>1, <1>2, <1>4, <2>1, OutcomesDiffer
       DEF PlayInv, PlayTypes, WatchHolds, ToldHolds, Running, Stops
  <2>3. Seen
    BY <1>1, <2>1, InsideAPlay
  <2> QED
    BY <2>2, <2>3 DEF PlayInv
<1> QED
  BY <1>3, <1>4 DEF Play!Spawn, Play!Fails

LEMMA WaitedKeeps ==
  ASSUME PlayInv, Play!Waited
  PROVE  PlayInv' /\ Seen
<1>1. /\ play.at = "waiting" /\ kid.state = "dead"
      /\ play' = [play EXCEPT !.at = "joining", !.gone = TRUE]
      /\ UNCHANGED <<kid, wire, watch, seen, told>>
  BY DEF Play!Waited
<1>2. play' \in PlayThread /\ play'.at = "joining" /\ play'.backend = play.backend
  BY <1>1 DEF PlayInv, PlayTypes, PlayThread, Running, Stops
<1>3. PlayTypes' /\ ToldHolds'
  BY <1>1, <1>2 DEF PlayInv, PlayTypes, ToldHolds, Stops
<1>4. Leads(wire, seen, told)
  BY <1>1 DEF PlayInv, WatchHolds, Running
<1>5. WatchHolds'
  BY <1>1, <1>2, <1>4 DEF PlayInv, WatchHolds, Running, Leads
<1>6. Seen
  BY <1>1, <1>2, InsideAPlay
<1> QED
  BY <1>3, <1>5, <1>6 DEF PlayInv

\* The watcher has ended with nothing left to read: what was told was read.
LEMMA JoinedKeeps ==
  ASSUME PlayInv, Play!Joined
  PROVE  PlayInv' /\ Seen
<1>1. /\ play.at = "joining" /\ watch.at = "done"
      /\ play' = [play EXCEPT !.at = "stopping", !.out = "judge"]
      /\ watch' = Play!NoWatch /\ UNCHANGED <<kid, wire, seen, told>>
  BY DEF Play!Joined
<1>2. play' \in PlayThread /\ play'.at = "stopping" /\ play'.out = "judge"
  BY <1>1 DEF PlayInv, PlayTypes, PlayThread, Running, Stops
<1>3. watch' \in Watching /\ watch'.at = "none"
  BY <1>1 DEF Play!NoWatch, Watching
<1>4. told = seen
  BY <1>1, AllIsRead DEF PlayInv, WatchHolds, Running
<1>5. kid.state = "dead"
  BY <1>1 DEF PlayInv, WatchHolds
<1>6. PlayTypes' /\ WatchHolds' /\ ToldHolds'
  BY <1>1, <1>2, <1>3, <1>4, <1>5 DEF PlayInv, PlayTypes, WatchHolds, ToldHolds, Running, Stops
<1>7. Seen
  BY <1>1, <1>2, InsideAPlay
<1> QED
  BY <1>6, <1>7 DEF PlayInv

LEMMA StopKeeps ==
  ASSUME PlayInv, Play!StopProxy
  PROVE  PlayInv' /\ Seen
<1>1. /\ play.at \in Stops /\ UNCHANGED <<kid, wire, watch, seen, told>>
      /\ \/ \E at \in {"waking", "stopped"} : play' = [play EXCEPT !.at = at]
         \/ play' = [play EXCEPT !.at = IF play.out = "judge" THEN "judging" ELSE "done"]
  BY DEF Play!StopProxy, Play!Goes, Stops
<1>2. /\ play \in PlayThread /\ told \in Nat /\ kid.state # "running" /\ watch.at = "none"
      /\ play.out = "judge" => told = seen
      /\ play.out # "judge" => play.out \in Errors /\ told = 0
  BY <1>1 DEF PlayInv, PlayTypes, WatchHolds, ToldHolds, Running, Stops
<1>3. /\ play' \in PlayThread /\ play'.out = play.out
      /\ \/ play'.at \in {"waking", "stopped"}
         \/ play'.at = "judging" /\ play.out = "judge"
         \/ play'.at = "done" /\ play.out # "judge"
  BY <1>1, <1>2 DEF PlayThread, Stops
<1>4. PlayTypes' /\ WatchHolds' /\ ToldHolds'
  BY <1>1, <1>2, <1>3 DEF PlayInv, PlayTypes, WatchHolds, ToldHolds, Running, Stops
<1>5. CASE play'.at = "done"
  <2>1. play'.out \in Errors /\ told = 0 /\ play.at \notin {"idle", "done"}
    BY <1>1, <1>2, <1>3, <1>5 DEF Stops
  <2>2. Seen
    BY <1>1, <1>2, <1>5, <2>1, EndsAsPromised
  <2> QED
    BY <1>4, <2>2 DEF PlayInv
<1>6. CASE play'.at # "done"
  <2>1. Seen
    BY <1>1, <1>3, <1>6, InsideAPlay DEF Stops
  <2> QED
    BY <1>4, <2>1 DEF PlayInv
<1> QED
  BY <1>5, <1>6

\* Only an attempt that told nothing is tried again or failed.
LEMMA JudgeKeeps ==
  ASSUME PlayInv, Play!Judge
  PROVE  PlayInv' /\ Seen
<1>1. play.at = "judging" /\ UNCHANGED <<kid, wire, watch, seen, told>>
  BY DEF Play!Judge
<1>2. /\ play \in PlayThread /\ told \in Nat /\ told = seen /\ kid.state # "running"
      /\ watch.at = "none"
  BY <1>1 DEF PlayInv, PlayTypes, WatchHolds, ToldHolds, Running
<1>3. ~Play!meaningful(seen) => told = 0
  BY <1>2 DEF Play!meaningful
<1>4. \/ ~Play!meaningful(seen) /\ \E why \in {"exit", "open_failed"} :
            play' = [play EXCEPT !.at = "done", !.out = why]
      \/ play' = [play EXCEPT !.at = "done", !.out = "ok"]
      \/ ~Play!meaningful(seen) /\ \E at \in {"spawn", "resolve"} :
            play' = [play EXCEPT !.at = at, !.attempt = @ + 1, !.out = "none"]
  <2>1. CASE ~Play!OpenFailed
    <3>1. CASE ~Play!meaningful(seen) /\ kid.code # 0
      <4>1. play' = [play EXCEPT !.at = "done", !.out = "exit"]
        BY <2>1, <3>1 DEF Play!Judge, Play!Fails
      <4> QED
        BY <3>1, <4>1
    <3>2. CASE ~(~Play!meaningful(seen) /\ kid.code # 0)
      <4>1. play' = [play EXCEPT !.at = "done", !.out = "ok"]
        BY <2>1, <3>2 DEF Play!Judge
      <4> QED
        BY <4>1
    <3> QED
      BY <3>1, <3>2
  <2>2. CASE Play!OpenFailed
    <3>1. ~Play!meaningful(seen)
      BY <2>2 DEF Play!OpenFailed
    <3>2. CASE play' = [play EXCEPT !.at = IF play.local THEN "spawn" ELSE "resolve",
                                    !.attempt = @ + 1, !.out = "none"]
      <4> DEFINE at == IF play.local THEN "spawn" ELSE "resolve"
      <4>1. at \in {"spawn", "resolve"}
        OBVIOUS
      <4> QED
        BY <3>1, <3>2, <4>1
    <3>3. CASE play' = [play EXCEPT !.at = "done", !.out = "open_failed"]
      BY <3>1, <3>3
    <3> QED
      BY <2>2, <3>2, <3>3 DEF Play!Judge, Play!Fails
  <2> QED
    BY <2>1, <2>2
<1>5. CASE \/ ~Play!meaningful(seen) /\ \E why \in {"exit", "open_failed"} :
                 play' = [play EXCEPT !.at = "done", !.out = why]
           \/ play' = [play EXCEPT !.at = "done", !.out = "ok"]
  <2>1. /\ play' \in PlayThread /\ play'.at = "done"
        /\ (play'.out \in Errors /\ told = 0) \/ play'.out = "ok"
    BY <1>2, <1>3, <1>5, OutcomesDiffer DEF PlayThread, Stops
  <2>2. PlayTypes' /\ WatchHolds' /\ ToldHolds'
    BY <1>1, <1>2, <2>1 DEF PlayInv, PlayTypes, WatchHolds, ToldHolds, Running, Stops
  <2>3. Seen
    BY <1>1, <1>2, <2>1, EndsAsPromised
  <2> QED
    BY <2>2, <2>3 DEF PlayInv
<1>6. ASSUME ~Play!meaningful(seen), NEW at \in {"spawn", "resolve"},
             play' = [play EXCEPT !.at = at, !.attempt = @ + 1, !.out = "none"]
      PROVE  PlayInv' /\ Seen
  <2>1. play' \in PlayThread /\ play'.at \in {"spawn", "resolve"}
    <3>1. play.attempt + 1 \in Nat
      BY <1>2 DEF PlayThread
    <3> QED
      BY <1>2, <1>6, <3>1 DEF PlayThread
  <2>2. PlayTypes' /\ WatchHolds' /\ ToldHolds'
    BY <1>1, <1>2, <1>3, <1>6, <2>1
       DEF PlayInv, PlayTypes, WatchHolds, ToldHolds, Running, Stops
  <2>3. Seen
    BY <1>1, <2>1, InsideAPlay
  <2> QED
    BY <2>2, <2>3 DEF PlayInv
<1> QED
  BY <1>4, <1>5, <1>6

LEMMA EndPlayKeeps ==
  ASSUME PlayInv, Play!EndPlay
  PROVE  PlayInv' /\ Seen
<1>1. /\ play.at = "done" /\ play' = Play!Idle /\ kid' = Play!NoKid /\ wire' = <<>>
      /\ seen' = 0 /\ told' = 0 /\ watch' = watch
  BY DEF Play!EndPlay
<1>2. watch.at = "none"
  BY <1>1 DEF PlayInv, WatchHolds, Running
<1>3. play' \in PlayThread /\ play'.at = "idle" /\ kid' \in Process /\ kid'.state = "none"
  BY <1>1 DEF Play!Idle, Play!NoKid, PlayThread, Process
<1>4. PlayTypes' /\ WatchHolds' /\ ToldHolds'
  BY <1>1, <1>2, <1>3 DEF PlayInv, PlayTypes, WatchHolds, ToldHolds, Running, Stops
<1>5. Play!CallersView.at = "over"
  BY <1>1 DEF Play!CallersView
<1>6. Play!CallersView' = Play!P!Between
  BY <1>1, <1>3 DEF Play!CallersView, Play!P!Between
<1>7. Play!P!Return
  BY <1>5, <1>6 DEF Play!P!Return
<1> QED
  BY <1>4, <1>7 DEF PlayInv, Seen, Play!P!SessionNext

\* A step of the watcher: what it reads, or where it goes on.
LEMMA WatcherKeeps ==
  ASSUME PlayInv, Play!Watcher
  PROVE  PlayInv' /\ Seen
<1>1. UNCHANGED <<play, kid, told>>
  BY DEF Play!Watcher, Play!Connect, Play!ReadIpc, Play!Ask, Play!Gather, Play!Drain
<1>2. play \in PlayThread /\ kid \in Process /\ watch \in Watching /\ wire \in Seq(Nat) /\ seen \in Nat
  BY DEF PlayInv, PlayTypes
<1>3. watch.at \in {"connecting", "reading", "polling", "gathering", "draining"}
  BY DEF Play!Watcher, Play!Connect, Play!ReadIpc, Play!Ask, Play!Gather, Play!Drain
<1>4. play.at \in Running /\ Leads(wire, seen, told)
  BY <1>3 DEF PlayInv, WatchHolds
<1>5. play.at = "waiting" /\ play.gone => kid.state = "dead"
  BY DEF PlayInv, WatchHolds
<1>6. kid.state # "running" /\ kid.state # "dead" => play.at = "waiting" /\ kid.state = "none"
  BY <1>2, <1>4 DEF PlayInv, WatchHolds, Running, Process
\* It reads a line.
<1>7. ASSUME watch.at \in {"reading", "gathering", "draining"}, wire # <<>>,
             seen' = Play!Read(Head(wire)), wire' = Tail(wire), watch' = watch
      PROVE  PlayInv' /\ Seen
  <2>1. Leads(wire', seen', told) /\ wire' \in Seq(Nat) /\ seen' \in Nat
    BY <1>2, <1>4, <1>7, ReadingLeads
  <2>2. Leads(wire', seen', told')
    BY <1>1, <2>1
  <2>3. PlayTypes' /\ ToldHolds'
    BY <1>1, <1>4, <1>7, <2>1 DEF PlayInv, PlayTypes, ToldHolds, Running, Stops
  <2>4. WatchHolds'
    BY <1>1, <1>7, <2>2 DEF PlayInv, WatchHolds, Leads
  <2>5. Seen
    BY <1>1, <1>4, InsideAPlay DEF Running
  <2> QED
    BY <2>3, <2>4, <2>5 DEF PlayInv
\* It goes on, or ends.
<1>8. ASSUME UNCHANGED <<wire, seen>>, watch' \in Watching,
             watch'.at = "connecting" => watch.at = "connecting",
             watch'.at = "draining" => kid.state = "dead",
             watch'.at = "done" => wire = <<>> /\ (kid.state = "dead" \/ play.backend = "mpv")
      PROVE  PlayInv' /\ Seen
  <2>1. PlayTypes' /\ ToldHolds'
    BY <1>1, <1>8 DEF PlayInv, PlayTypes, ToldHolds
  <2>2. Leads(wire', seen', told')
    BY <1>1, <1>4, <1>8
  <2>3. watch'.at = "done" => wire' = <<>> /\ (kid'.state = "dead" \/ ~Play!Listening')
    BY <1>1, <1>8 DEF Play!Listening
  <2>4. watch'.at = "connecting" => play'.backend = "mpv" /\ wire' = <<>>
    BY <1>1, <1>8 DEF PlayInv, WatchHolds
  <2>5. WatchHolds'
    BY <1>1, <1>4, <1>8, <2>2, <2>3, <2>4 DEF PlayInv, WatchHolds, Leads
  <2>6. Seen
    BY <1>1, <1>8, AsItWas
  <2> QED
    BY <2>1, <2>5, <2>6 DEF PlayInv
<1>9. CASE Play!Connect
  <2>1. watch.at = "connecting" /\ UNCHANGED <<wire, seen>>
    BY <1>9 DEF Play!Connect
  <2>2. play.backend = "mpv" /\ wire = <<>>
    BY <2>1 DEF PlayInv, WatchHolds
  <2>3. \/ \E at \in {"reading", "done"} : watch' = [watch EXCEPT !.at = at]
        \/ watch' = [watch EXCEPT !.tries = @ + 1]
    BY <1>9 DEF Play!Connect
  <2>4. watch' \in Watching /\ watch'.at \in {"reading", "done", "connecting"}
    BY <1>2, <2>1, <2>3 DEF Watching
  <2> QED
    BY <1>8, <2>1, <2>2, <2>4
<1>10. CASE Play!ReadIpc
  <2>1. CASE wire # <<>>
    BY <1>7, <1>10, <2>1 DEF Play!ReadIpc
  <2>2. CASE wire = <<>>
    <3>1. /\ kid.state = "dead" /\ watch' = [watch EXCEPT !.at = "done"]
          /\ UNCHANGED <<wire, seen>>
      BY <1>10, <2>2 DEF Play!ReadIpc
    <3>2. watch' \in Watching /\ watch'.at = "done"
      BY <1>2, <3>1 DEF Watching
    <3> QED
      BY <1>8, <2>2, <3>1, <3>2
  <2> QED
    BY <2>1, <2>2
<1>11. CASE Play!Ask
  <2>1. /\ UNCHANGED <<wire, seen>>
        /\ watch' = [watch EXCEPT !.at = IF play.gone \/ kid.state = "dead" THEN Play!AfterPolling
                                         ELSE "gathering",
                                  !.asked = kid.state = "running" /\ ~play.gone]
    BY <1>11 DEF Play!Ask
  <2>2. play.gone => kid.state = "dead"
    BY <1>4 DEF PlayInv, WatchHolds, Running
  <2>3. /\ watch' \in Watching /\ watch'.at \in {"draining", "gathering"}
        /\ watch'.at = "draining" => kid.state = "dead"
    BY <1>2, <2>1, <2>2 DEF Play!AfterPolling, Watching
  <2> QED
    BY <1>8, <2>1, <2>3
<1>12. CASE Play!Gather
  <2>1. CASE watch.at = "gathering" /\ wire # <<>> /\ seen' = Play!Read(Head(wire))
             /\ wire' = Tail(wire) /\ watch' = watch
    BY <1>7, <2>1
  <2>2. ASSUME NEW at \in {"done", "polling"}, watch' = [watch EXCEPT !.at = at],
               UNCHANGED <<wire, seen>>, at = "done" => wire = <<>> /\ kid.state = "dead"
        PROVE  PlayInv' /\ Seen
    <3>1. watch' \in Watching /\ watch'.at = at
      BY <1>2, <2>2 DEF Watching
    <3> QED
      BY <1>8, <2>2, <3>1
  <2> QED
    BY <1>12, <2>1, <2>2 DEF Play!Gather
<1>13. CASE Play!Drain
  <2>1. CASE wire # <<>>
    BY <1>7, <1>13, <2>1 DEF Play!Drain
  <2>2. CASE wire = <<>>
    <3>1. watch.at = "draining" /\ watch' = [watch EXCEPT !.at = "done"] /\ UNCHANGED <<wire, seen>>
      BY <1>13, <2>2 DEF Play!Drain
    <3>2. watch' \in Watching /\ watch'.at = "done"
      BY <1>2, <3>1 DEF Watching
    <3>3. kid.state = "dead"
      BY <3>1 DEF PlayInv, WatchHolds
    <3> QED
      BY <1>8, <2>2, <3>1, <3>2, <3>3
  <2> QED
    BY <2>1, <2>2
<1> QED
  BY <1>9, <1>10, <1>11, <1>12, <1>13 DEF Play!Watcher

\* What the player tells is what the session tells.
LEMMA ReportKeeps ==
  ASSUME PlayInv, Play!Report
  PROVE  PlayInv' /\ Seen
<1>1. PICK s \in Secs : wire' = Append(wire, s)
                        /\ told' = IF Play!meaningful(s) THEN s ELSE told
  BY DEF Play!Report
<1>2. /\ kid.state = "running" /\ Play!Listening /\ kid' = [kid EXCEPT !.reports = @ + 1]
      /\ watch' = [watch EXCEPT !.asked = FALSE] /\ UNCHANGED <<play, seen>>
  BY DEF Play!Report
<1>3. /\ play \in PlayThread /\ kid \in Process /\ watch \in Watching /\ wire \in Seq(Nat)
      /\ seen \in Nat /\ told \in Nat /\ s \in Nat /\ play.at = "waiting"
  BY <1>2, SessionsAssumption DEF PlayInv, PlayTypes, WatchHolds
<1>4. told' = IF s > 0 THEN s ELSE told
  BY <1>1 DEF Play!meaningful
<1>5. /\ kid' \in Process /\ kid'.state = "running"
      /\ watch' \in Watching /\ watch'.at = watch.at
  <2>1. kid.reports + 1 \in Nat
    BY <1>3 DEF Process
  <2>2. kid' \in Process /\ kid'.state = kid.state
    BY <1>2, <1>3, <2>1 DEF Process
  <2>3. watch' \in Watching /\ watch'.at = watch.at
    BY <1>2, <1>3 DEF Watching
  <2> QED
    BY <1>2, <2>2, <2>3
<1>6. wire' \in Seq(Nat) /\ told' \in Nat
  BY <1>1, <1>3, <1>4
<1>7. Leads(wire, seen, told) /\ ~play.gone
  BY <1>2, <1>3 DEF PlayInv, WatchHolds, Running
<1>8. Leads(wire', seen', told')
  <2>1. Leads(Append(wire, s), seen, IF s > 0 THEN s ELSE told)
    BY <1>3, <1>7, TellingLeads
  <2> QED
    BY <1>1, <1>2, <1>4, <2>1
<1>9. watch.at \notin {"connecting", "draining", "done"}
  BY <1>2 DEF PlayInv, WatchHolds, Play!Listening
<1>10. WatchHolds'
  BY <1>2, <1>3, <1>5, <1>7, <1>8, <1>9 DEF WatchHolds, Running, Leads
<1>11. PlayTypes' /\ ToldHolds'
  BY <1>2, <1>3, <1>5, <1>6 DEF PlayTypes, ToldHolds, Stops
<1>12. CASE s > 0
  <2>1. Play!CallersView = [at |-> "playing", told |-> told, out |-> "none"]
    BY <1>3 DEF Play!CallersView
  <2>2. Play!CallersView' = [at |-> "playing", told |-> s, out |-> "none"]
    BY <1>2, <1>3, <1>4, <1>12 DEF Play!CallersView
  <2>3. Play!P!Tell
    BY <1>3, <1>12, <2>1, <2>2 DEF Play!P!Tell
  <2>4. Seen
    BY <2>3 DEF Seen, Play!P!SessionNext
  <2> QED
    BY <1>10, <1>11, <2>4 DEF PlayInv
<1>13. CASE ~(s > 0)
  <2>1. Seen
    BY <1>2, <1>4, <1>13, AsItWas
  <2> QED
    BY <1>10, <1>11, <2>1 DEF PlayInv
<1> QED
  BY <1>12, <1>13

\* The player's other steps and the proxy's.
LEMMA ProcessKeeps ==
  ASSUME PlayInv, Play!Bind \/ Play!Exits \/ Play!OpensConnection \/ Play!AcceptLoop \/ Play!HandlerEnds
  PROVE  PlayInv' /\ Seen
<1>1. UNCHANGED <<play, wire, watch, seen, told>>
  BY DEF Play!Bind, Play!Exits, Play!OpensConnection, Play!AcceptLoop, Play!HandlerEnds
<1>2. \/ kid' = kid
      \/ kid' = [kid EXCEPT !.bound = TRUE]
      \/ \E c \in {0, 2, 9} : kid' = [kid EXCEPT !.state = "dead", !.code = c]
  BY DEF Play!Bind, Play!Exits, Play!OpensConnection, Play!AcceptLoop, Play!HandlerEnds
<1>3. kid' \in Process /\ kid'.state \in {kid.state, "dead"}
  BY <1>2 DEF PlayInv, PlayTypes, Process
<1>4. PlayTypes' /\ ToldHolds'
  BY <1>1, <1>3 DEF PlayInv, PlayTypes, ToldHolds
<1>5. Play!Listening' = Play!Listening
  BY <1>1 DEF Play!Listening
<1>6. WatchHolds'
  BY <1>1, <1>3, <1>5 DEF PlayInv, WatchHolds, Leads
<1>7. Seen
  BY <1>1, AsItWas
<1> QED
  BY <1>4, <1>6, <1>7 DEF PlayInv

LEMMA PlayStarts == Play!PlayerInit => PlayInv /\ Play!P!SessionInit
<1> SUFFICES ASSUME Play!PlayerInit PROVE PlayInv /\ Play!P!SessionInit
  OBVIOUS
<1>1. /\ play = Play!Idle /\ kid = Play!NoKid /\ wire = <<>> /\ watch = Play!NoWatch
      /\ seen = 0 /\ told = 0
  BY DEF Play!PlayerInit
<1>2. /\ play \in PlayThread /\ play.at = "idle" /\ kid \in Process /\ kid.state = "none"
      /\ watch \in Watching /\ watch.at = "none"
  BY <1>1 DEF Play!Idle, Play!NoKid, Play!NoWatch, PlayThread, Process, Watching
<1>3. PlayTypes /\ WatchHolds /\ ToldHolds
  BY <1>1, <1>2 DEF PlayTypes, WatchHolds, ToldHolds, Running, Stops
<1>4. Play!P!SessionInit
  BY <1>1, <1>2 DEF Play!P!SessionInit, Play!P!Between, Play!CallersView
<1> QED
  BY <1>3, <1>4 DEF PlayInv

LEMMA PlayStep ==
  ASSUME PlayInv, [Play!Next]_(Play!vars)
  PROVE  PlayInv' /\ Seen
<1>1. CASE UNCHANGED Play!vars
  <2>1. UNCHANGED <<play, kid, wire, watch, seen, told>>
    BY <1>1 DEF Play!vars
  <2>2. PlayTypes' /\ ToldHolds'
    BY <2>1 DEF PlayInv, PlayTypes, ToldHolds
  <2>3. WatchHolds'
    BY <2>1 DEF PlayInv, WatchHolds, Leads, Play!Listening
  <2> QED
    BY <2>1, <2>2, <2>3, AsItWas DEF PlayInv
<1>2. CASE Play!Next
  BY <1>2, BeginKeeps, ResolveKeeps, SpawnKeeps, WaitedKeeps, JoinedKeeps, StopKeeps, JudgeKeeps,
     EndPlayKeeps, WatcherKeeps, ReportKeeps, ProcessKeeps
     DEF Play!Next, Play!PlayingThread, Play!PlayerProcess
<1> QED
  BY <1>1, <1>2

\* play implements PlaySession: however the player ends, the last position that
\* counts is the one returned, and a play that has one is neither tried again nor
\* failed.
THEOREM PlayKeepsItsPromise == Play!Spec => KeepsItsPromise
<1>1. PlayInv /\ [Play!Next]_(Play!vars) => PlayInv' /\ [Play!P!SessionNext]_(Play!CallersView)
  BY PlayStep DEF Seen
<1> QED
  BY <1>1, PlayStarts, PTL
     DEF Play!Spec, KeepsItsPromise, Play!KeepsItsPromise, Play!P!SessionSpec

-----------------------------------------------------------------------------
(* Signing in (SignIn)                                                     *)

SignFile == [anilist : Nat \cup {None}, mal : Nat \cup {None}]
SignWorker == [step : {"accepting", "reading", "asking", "saving", "ended", "closed"},
               cancelled : BOOLEAN, waiting : SUBSET Nat, conn : Nat \cup {None},
               copy : SignFile \cup {None}]
Answer == [of : Nat, outcome : Sign!Outcome]

SignTypes ==
    /\ disk \in SignFile /\ tabs \subseteq Nat /\ queue \in Seq(Answer)
    /\ opened \in Seq(Sign!Services) /\ server \in Seq(SignWorker)
    /\ Len(server) = Len(opened)

\* What a worker asks the service for and saves is its own session's token, and
\* the file it read before is a file.
Own(s, w) ==
    /\ w.step \in {"asking", "saving"} => w.conn = s
    /\ w.step = "saving" /\ opened[s] = "mal" => w.copy \in SignFile
TokenHolds == \A s \in Sign!Sessions : Own(s, server[s])

\* The session whose modal is up was not cancelled; so its end is answered.
ModalHolds ==
    modal # None => modal \in Sign!Sessions /\ ~server[modal].cancelled /\ Sign!ModalIsAnswered

SignInv == SignTypes /\ TokenHolds /\ ModalHolds

LEMMA SomeEntryChanges ==
  ASSUME NEW S, NEW q \in Seq(S), NEW i \in 1..Len(q), NEW e \in S
  PROVE  LET p == [q EXCEPT ![i] = e]
         IN  /\ p \in Seq(S) /\ Len(p) = Len(q) /\ DOMAIN p = 1..Len(q)
             /\ p[i] = e /\ \A j \in 1..Len(q) : j # i => p[j] = q[j]
BY ExceptSeq

\* A session of its own steps on: the others' workers are as they were.
LEMMA SessionSteps ==
  ASSUME SignInv, NEW s \in Sign!Sessions, NEW w \in SignWorker, Own(s, w),
         server' = [server EXCEPT ![s] = w], opened' = opened
  PROVE  /\ server' \in Seq(SignWorker) /\ Len(server') = Len(opened') /\ TokenHolds'
         /\ Sign!Sessions' = Sign!Sessions /\ server'[s] = w
         /\ \A t \in Sign!Sessions : t # s => server'[t] = server[t]
<1>1. server \in Seq(SignWorker) /\ Len(server) = Len(opened) /\ TokenHolds
  BY DEF SignInv, SignTypes
<1>2. Sign!Sessions = 1..Len(server) /\ Sign!Sessions' = Sign!Sessions
  BY <1>1 DEF Sign!Sessions
<1>3. /\ server' \in Seq(SignWorker) /\ Len(server') = Len(server) /\ server'[s] = w
      /\ \A t \in 1..Len(server) : t # s => server'[t] = server[t]
  BY <1>1, <1>2, SomeEntryChanges
<1>4. ASSUME NEW t \in Sign!Sessions
      PROVE  Own(t, server[t])' 
  <2>1. CASE t = s
    <3>1. server'[t] = w
      BY <1>3, <2>1
    <3> QED
      BY <2>1, <3>1 DEF Own
  <2>2. CASE t # s
    <3>1. server'[t] = server[t]
      BY <1>2, <1>3, <2>2
    <3>2. Own(t, server[t])
      BY <1>1 DEF TokenHolds
    <3> QED
      BY <3>1, <3>2 DEF Own
  <2> QED
    BY <2>1, <2>2
<1>5. TokenHolds'
  BY <1>2, <1>4 DEF TokenHolds
<1> QED
  BY <1>1, <1>2, <1>3, <1>5

\* A step of a worker that does not end it, and is of no concern to the modal.
LEMMA WorkerGoesOn ==
  ASSUME SignInv, NEW s \in Sign!Sessions, NEW w \in SignWorker, Own(s, w),
         server' = [server EXCEPT ![s] = w], UNCHANGED <<disk, modal, opened, queue>>,
         tabs' \subseteq Nat, w.cancelled = server[s].cancelled,
         w.step \in {"ended", "closed"} => server[s].step \in {"ended", "closed"}
  PROVE  SignInv'
<1>1. /\ server' \in Seq(SignWorker) /\ Len(server') = Len(opened') /\ TokenHolds'
      /\ Sign!Sessions' = Sign!Sessions /\ server'[s] = w
      /\ \A t \in Sign!Sessions : t # s => server'[t] = server[t]
  BY SessionSteps
<1>2. SignTypes'
  BY <1>1 DEF SignInv, SignTypes
<1>3. ASSUME modal # None
      PROVE  modal \in Sign!Sessions /\ ~server'[modal].cancelled /\ Sign!ModalIsAnswered'
  <2>1. modal \in Sign!Sessions /\ ~server[modal].cancelled /\ Sign!ModalIsAnswered
    BY <1>3 DEF SignInv, ModalHolds
  <2>2. /\ server'[modal].cancelled = server[modal].cancelled
        /\ server'[modal].step \in {"ended", "closed"} => server[modal].step \in {"ended", "closed"}
    BY <1>1, <2>1
  <2> QED
    BY <1>3, <2>1, <2>2 DEF Sign!ModalIsAnswered
<1>4. ModalHolds'
  BY <1>1, <1>3 DEF ModalHolds
<1> QED
  BY <1>1, <1>2, <1>4 DEF SignInv

\* A worker that ends answers the modal, unless it was cancelled.
LEMMA WorkerEnds ==
  ASSUME SignInv, NEW s \in Sign!Sessions, NEW o \in Sign!Outcome, Sign!End(s, o),
         o = "Canceled" => server[s].cancelled,
         UNCHANGED <<modal, opened, tabs>>, disk' \in SignFile
  PROVE  SignInv'
<1> DEFINE w == [server[s] EXCEPT !.step = "ended", !.conn = None, !.copy = None]
<1>1. server[s] \in SignWorker /\ server \in Seq(SignWorker) /\ queue \in Seq(Answer)
  BY DEF SignInv, SignTypes, Sign!Sessions
<1>2. w \in SignWorker /\ w.step = "ended" /\ w.cancelled = server[s].cancelled
  BY <1>1 DEF SignWorker
<1>3. server' = [server EXCEPT ![s] = w]
  BY <1>1 DEF Sign!End, SignWorker
<1>4. Own(s, w)
  BY <1>2 DEF Own
<1> HIDE DEF w
<1>5. /\ server' \in Seq(SignWorker) /\ Len(server') = Len(opened') /\ TokenHolds'
      /\ Sign!Sessions' = Sign!Sessions /\ server'[s] = w
      /\ \A t \in Sign!Sessions : t # s => server'[t] = server[t]
  BY <1>2, <1>3, <1>4, SessionSteps
<1> DEFINE a == [of |-> s, outcome |-> o]
<1>6. a \in Answer /\ a.of = s
  BY DEF Answer, Sign!Sessions
<1>7. queue' = IF o = "Canceled" THEN queue ELSE Append(queue, a)
  BY DEF Sign!End, Sign!Posted
<1> HIDE DEF a
<1>8. /\ queue' \in Seq(Answer)
      /\ \A i \in DOMAIN queue : i \in DOMAIN queue' /\ queue'[i] = queue[i]
      /\ o # "Canceled" => \E i \in DOMAIN queue' : queue'[i].of = s
  <2>1. CASE o = "Canceled"
    BY <1>1, <1>7, <2>1
  <2>2. CASE o # "Canceled"
    <3>1. /\ queue' \in Seq(Answer) /\ Len(queue') = Len(queue) + 1 /\ Len(queue) \in Nat
          /\ queue'[Len(queue) + 1] = a /\ \A i \in 1..Len(queue) : queue'[i] = queue[i]
      BY <1>1, <1>6, <1>7, <2>2, AppendProperties
    <3>2. DOMAIN queue = 1..Len(queue) /\ DOMAIN queue' = 1..(Len(queue) + 1)
      BY <1>1, <3>1
    <3>3. Len(queue) + 1 \in DOMAIN queue' /\ \A i \in DOMAIN queue : i \in DOMAIN queue'
      BY <3>1, <3>2
    <3> QED
      BY <1>6, <2>2, <3>1, <3>2, <3>3
  <2> QED
    BY <2>1, <2>2
<1>9. SignTypes'
  BY <1>5, <1>8 DEF SignInv, SignTypes
<1>10. ASSUME modal # None
       PROVE  modal \in Sign!Sessions /\ ~server'[modal].cancelled /\ Sign!ModalIsAnswered'
  <2>1. modal \in Sign!Sessions /\ ~server[modal].cancelled /\ Sign!ModalIsAnswered
    BY <1>10 DEF SignInv, ModalHolds
  <2>2. CASE modal = s
    <3>1. ~server'[modal].cancelled /\ o # "Canceled"
      BY <1>2, <1>5, <2>1, <2>2
    <3> QED
      BY <1>8, <2>1, <2>2, <3>1 DEF Sign!ModalIsAnswered
  <2>3. CASE modal # s
    <3>1. server'[modal] = server[modal]
      BY <1>5, <2>1, <2>3
    <3> QED
      BY <1>8, <1>10, <2>1, <3>1 DEF Sign!ModalIsAnswered
  <2> QED
    BY <2>2, <2>3
<1>11. ModalHolds'
  BY <1>5, <1>10 DEF ModalHolds
<1> QED
  BY <1>5, <1>9, <1>11 DEF SignInv

LEMMA SignStarts == Sign!Init => SignInv
<1> SUFFICES ASSUME Sign!Init PROVE SignInv
  OBVIOUS
<1>1. disk \in SignFile
  BY DEF Sign!Init, SignFile, Sign!Old
<1>2. opened = <<>> /\ server = <<>> /\ tabs = {} /\ queue = <<>> /\ modal = None
  BY DEF Sign!Init
<1>3. Sign!Sessions = {}
  BY <1>2 DEF Sign!Sessions
<1> QED
  BY <1>1, <1>2, <1>3 DEF SignInv, SignTypes, TokenHolds, ModalHolds

LEMMA OpenConnectKeeps ==
  ASSUME SignInv, Sign!OpenConnect
  PROVE  SignInv'
<1> DEFINE n == Len(opened)
<1>1. PICK svc \in Sign!Services : opened' = Append(opened, svc)
  BY DEF Sign!OpenConnect
<1>2. /\ server' = Append(server, Sign!Listening) /\ modal' = Len(opened')
      /\ tabs' = tabs \cup {Len(opened')} /\ UNCHANGED <<disk, queue>>
  BY DEF Sign!OpenConnect
<1>3. /\ opened \in Seq(Sign!Services) /\ server \in Seq(SignWorker) /\ Len(server) = n /\ n \in Nat
      /\ tabs \subseteq Nat /\ disk \in SignFile /\ queue \in Seq(Answer)
  BY DEF SignInv, SignTypes
<1>4. /\ Sign!Listening \in SignWorker /\ ~Sign!Listening.cancelled
      /\ Sign!Listening.step = "accepting"
  BY DEF Sign!Listening, SignWorker
<1> HIDE DEF n
<1>5. /\ opened' \in Seq(Sign!Services) /\ Len(opened') = n + 1
      /\ \A i \in 1..n : opened'[i] = opened[i]
  BY <1>1, <1>3, AppendProperties DEF n
<1>6. /\ server' \in Seq(SignWorker) /\ Len(server') = n + 1 /\ server'[n + 1] = Sign!Listening
      /\ \A i \in 1..n : server'[i] = server[i]
  BY <1>2, <1>3, <1>4, AppendProperties
<1>7. SignTypes'
  BY <1>2, <1>3, <1>5, <1>6 DEF SignTypes
<1>8. Sign!Sessions = 1..n /\ Sign!Sessions' = 1..(n + 1)
  BY <1>5 DEF Sign!Sessions, n
<1>9. ASSUME NEW s \in 1..(n + 1)
      PROVE  Own(s, server[s])'
  <2>1. CASE s = n + 1
    BY <1>4, <1>6, <2>1 DEF Own
  <2>2. CASE s # n + 1
    <3>1. s \in 1..n
      BY <1>3, <2>2
    <3>2. Own(s, server[s])
      BY <1>8, <3>1 DEF SignInv, TokenHolds
    <3>3. server'[s] = server[s] /\ opened'[s] = opened[s]
      BY <1>5, <1>6, <3>1
    <3> QED
      BY <3>2, <3>3 DEF Own
  <2> QED
    BY <2>1, <2>2
<1>10. TokenHolds'
  BY <1>8, <1>9 DEF TokenHolds
<1>11. modal' = n + 1 /\ n + 1 \in 1..(n + 1)
  BY <1>2, <1>3, <1>5
<1>12. ModalHolds'
  BY <1>4, <1>6, <1>8, <1>11 DEF ModalHolds, Sign!ModalIsAnswered
<1> QED
  BY <1>7, <1>10, <1>12 DEF SignInv

LEMMA CancelConnectKeeps ==
  ASSUME SignInv, Sign!CancelConnect
  PROVE  SignInv'
<1> DEFINE w == [server[modal] EXCEPT !.cancelled = TRUE, !.waiting = @ \cup {0}]
<1>1. /\ modal # None /\ modal' = None /\ UNCHANGED <<disk, opened, tabs, queue>>
      /\ server' = [server EXCEPT ![modal].cancelled = TRUE,
                                  ![modal].waiting = @ \cup {0}]
  BY DEF Sign!CancelConnect, Sign!Dialled, Sign!Dial
<1>2. modal \in Sign!Sessions
  BY <1>1 DEF SignInv, ModalHolds
<1>3. server[modal] \in SignWorker /\ server \in Seq(SignWorker)
  BY <1>2 DEF SignInv, SignTypes, Sign!Sessions
<1>4. w \in SignWorker /\ w.step = server[modal].step /\ w.conn = server[modal].conn
      /\ w.copy = server[modal].copy
  <2>1. server[modal].waiting \cup {0} \in SUBSET Nat
    BY <1>3 DEF SignWorker
  <2> QED
    BY <1>3, <2>1 DEF SignWorker
<1>5. server' = [server EXCEPT ![modal] = w]
  BY <1>1, <1>3 DEF SignWorker
<1>6. Own(modal, w)
  BY <1>2, <1>4 DEF SignInv, TokenHolds, Own
<1> HIDE DEF w
<1>7. server' \in Seq(SignWorker) /\ Len(server') = Len(opened') /\ TokenHolds'
  BY <1>1, <1>2, <1>4, <1>5, <1>6, SessionSteps
<1>8. SignTypes'
  BY <1>1, <1>7 DEF SignInv, SignTypes
<1>9. ModalHolds'
  BY <1>1 DEF ModalHolds
<1> QED
  BY <1>7, <1>8, <1>9 DEF SignInv

LEMMA ConnectAnsweredKeeps ==
  ASSUME SignInv, Sign!ConnectAnswered \/ Sign!PasteLogin
  PROVE  SignInv'
<1>1. UNCHANGED <<opened, server, tabs>>
  BY DEF Sign!ConnectAnswered, Sign!PasteLogin
<1>2. /\ disk \in SignFile /\ tabs \subseteq Nat /\ queue \in Seq(Answer)
      /\ opened \in Seq(Sign!Services) /\ server \in Seq(SignWorker) /\ Len(server) = Len(opened)
  BY DEF SignInv, SignTypes
<1>3. TokenHolds'
  BY <1>1 DEF SignInv, TokenHolds, Own, Sign!Sessions
<1>4. CASE Sign!ConnectAnswered
  <2>1. queue' \in Seq(Answer) /\ disk' = disk /\ modal' = None
    BY <1>2, <1>4 DEF Sign!ConnectAnswered
  <2> QED
    BY <1>1, <1>2, <1>3, <2>1 DEF SignInv, SignTypes, ModalHolds
<1>5. CASE Sign!PasteLogin
  <2>1. disk' \in SignFile /\ UNCHANGED <<modal, queue>>
    BY <1>5, SessionsAssumption DEF Sign!PasteLogin, Sign!AniListFile, Sign!Pasted, SignFile
  <2>2. ModalHolds'
    BY <1>1, <2>1 DEF SignInv, ModalHolds, Sign!ModalIsAnswered, Sign!Sessions
  <2> QED
    BY <1>1, <1>2, <1>3, <2>1, <2>2 DEF SignInv, SignTypes
<1> QED
  BY <1>4, <1>5

LEMMA BrowserKeeps ==
  ASSUME SignInv, NEW s \in Sign!Sessions, Sign!TabCallsBack(s) \/ Sign!OtherConnection(s)
  PROVE  SignInv'
<1>1. PICK c \in Nat : /\ server' = [server EXCEPT ![s].waiting = @ \cup {c}]
                       /\ tabs' \subseteq tabs /\ UNCHANGED <<disk, modal, opened, queue>>
  <2>1. CASE Sign!TabCallsBack(s)
    <3>1. PICK t \in tabs : /\ server' = [server EXCEPT ![s].waiting = @ \cup {t}]
                            /\ tabs' = tabs \ {t}
      BY <2>1 DEF Sign!TabCallsBack
    <3>2. t \in Nat
      BY DEF SignInv, SignTypes
    <3> QED
      BY <2>1, <3>1, <3>2 DEF Sign!TabCallsBack
  <2>2. CASE Sign!OtherConnection(s)
    <3>1. Sign!Other \in Nat
      BY SessionsAssumption DEF Sign!Other
    <3> QED
      BY <2>2, <3>1 DEF Sign!OtherConnection
  <2> QED
    BY <2>1, <2>2
<1> DEFINE w == [server[s] EXCEPT !.waiting = @ \cup {c}]
<1>2. server[s] \in SignWorker /\ server \in Seq(SignWorker) /\ tabs \subseteq Nat
  BY DEF SignInv, SignTypes, Sign!Sessions
<1>3. w \in SignWorker /\ w.step = server[s].step /\ w.conn = server[s].conn
      /\ w.copy = server[s].copy /\ w.cancelled = server[s].cancelled
  BY <1>1, <1>2 DEF SignWorker
<1>4. server' = [server EXCEPT ![s] = w]
  BY <1>1, <1>2 DEF SignWorker
<1>5. Own(s, w)
  BY <1>3 DEF SignInv, TokenHolds, Own
<1> HIDE DEF w
<1> QED
  BY <1>1, <1>2, <1>3, <1>4, <1>5, WorkerGoesOn

LEMMA AcceptKeeps ==
  ASSUME SignInv, NEW s \in Sign!Sessions, Sign!Accept(s)
  PROVE  SignInv'
<1>1. server[s] \in SignWorker /\ server \in Seq(SignWorker) /\ tabs \subseteq Nat /\ disk \in SignFile
  BY DEF SignInv, SignTypes, Sign!Sessions
<1>2. UNCHANGED <<disk, modal, opened, tabs>>
  BY DEF Sign!Accept
<1>3. CASE \E o \in {"Canceled", "NetworkError"} :
              Sign!End(s, o) /\ (o = "Canceled" => server[s].cancelled)
  BY <1>1, <1>2, <1>3, WorkerEnds DEF Sign!Outcome
<1>4. ASSUME NEW c \in server[s].waiting, UNCHANGED queue,
             server' = [server EXCEPT ![s].step = "reading", ![s].conn = c,
                                      ![s].waiting = @ \ {c}]
      PROVE  SignInv'
  <2> DEFINE w == [server[s] EXCEPT !.step = "reading", !.conn = c, !.waiting = @ \ {c}]
  <2>1. w \in SignWorker /\ w.step = "reading" /\ w.cancelled = server[s].cancelled
    BY <1>1 DEF SignWorker
  <2>2. server' = [server EXCEPT ![s] = w]
    BY <1>1, <1>4 DEF SignWorker
  <2>3. Own(s, w)
    BY <2>1 DEF Own
  <2> HIDE DEF w
  <2> QED
    BY <1>1, <1>2, <1>4, <2>1, <2>2, <2>3, WorkerGoesOn
<1> QED
  BY <1>3, <1>4 DEF Sign!Accept

\* Only the session's own callback is taken to the service.
LEMMA ReadRequestKeeps ==
  ASSUME SignInv, NEW s \in Sign!Sessions, Sign!ReadRequest(s)
  PROVE  SignInv'
<1>1. server[s] \in SignWorker /\ server \in Seq(SignWorker) /\ tabs \subseteq Nat
  BY DEF SignInv, SignTypes, Sign!Sessions
<1>2. UNCHANGED <<disk, modal, opened, tabs, queue>>
  BY DEF Sign!ReadRequest
<1>3. CASE Sign!OwnState(s, server[s].conn)
  <2> DEFINE w == [server[s] EXCEPT !.step = "asking"]
  <2>1. server' = [server EXCEPT ![s].step = "asking"]
    BY <1>3 DEF Sign!ReadRequest
  <2>2. w \in SignWorker /\ w.step = "asking" /\ w.cancelled = server[s].cancelled /\ w.conn = s
    BY <1>1, <1>3 DEF SignWorker, Sign!OwnState
  <2>3. server' = [server EXCEPT ![s] = w]
    BY <1>1, <2>1 DEF SignWorker
  <2>4. Own(s, w)
    BY <2>2 DEF Own
  <2> HIDE DEF w
  <2> QED
    BY <1>1, <1>2, <2>2, <2>3, <2>4, WorkerGoesOn
<1>4. CASE ~Sign!OwnState(s, server[s].conn)
  <2> DEFINE w == [server[s] EXCEPT !.step = "accepting", !.conn = None]
  <2>1. server' = [server EXCEPT ![s].step = "accepting", ![s].conn = None]
    BY <1>4 DEF Sign!ReadRequest
  <2>2. w \in SignWorker /\ w.step = "accepting" /\ w.cancelled = server[s].cancelled
    BY <1>1 DEF SignWorker
  <2>3. server' = [server EXCEPT ![s] = w]
    BY <1>1, <2>1 DEF SignWorker
  <2>4. Own(s, w)
    BY <2>2 DEF Own
  <2> HIDE DEF w
  <2> QED
    BY <1>1, <1>2, <2>2, <2>3, <2>4, WorkerGoesOn
<1> QED
  BY <1>3, <1>4

LEMMA AskKeeps ==
  ASSUME SignInv, NEW s \in Sign!Sessions, Sign!Ask(s)
  PROVE  SignInv'
<1>1. /\ server[s] \in SignWorker /\ server \in Seq(SignWorker) /\ tabs \subseteq Nat
      /\ disk \in SignFile
  BY DEF SignInv, SignTypes, Sign!Sessions
<1>2. UNCHANGED <<disk, modal, opened, tabs>> /\ server[s].step = "asking"
  BY DEF Sign!Ask
<1>3. CASE \E o \in {"NoToken", "Rejected", "NetworkError"} : Sign!End(s, o)
  BY <1>1, <1>2, <1>3, WorkerEnds DEF Sign!Outcome
<1>4. ASSUME UNCHANGED queue,
             server' = [server EXCEPT ![s].step = "saving",
                                      ![s].copy = IF opened[s] = "mal" THEN disk ELSE None]
      PROVE  SignInv'
  <2> DEFINE f == IF opened[s] = "mal" THEN disk ELSE None
             w == [server[s] EXCEPT !.step = "saving", !.copy = f]
  <2>1. f \in SignFile \cup {None} /\ (opened[s] = "mal" => f = disk)
    BY <1>1
  <2>2. server' = [server EXCEPT ![s].step = "saving", ![s].copy = f]
    BY <1>4
  <2> HIDE DEF f
  <2>3. /\ w \in SignWorker /\ w.step = "saving" /\ w.cancelled = server[s].cancelled
        /\ w.conn = server[s].conn /\ w.copy = f
    BY <1>1, <2>1 DEF SignWorker
  <2>4. server' = [server EXCEPT ![s] = w]
    BY <1>1, <2>2 DEF SignWorker
  <2>5. server[s].conn = s
    BY <1>2 DEF SignInv, TokenHolds, Own
  <2>6. Own(s, w)
    BY <1>1, <2>1, <2>3, <2>5 DEF Own
  <2> HIDE DEF w
  <2> QED
    BY <1>1, <1>2, <1>4, <2>3, <2>4, <2>6, WorkerGoesOn
<1> QED
  BY <1>3, <1>4 DEF Sign!Ask

\* What is saved is the session's own token, the service's block of the file apart
\* from what it was.
LEMMA SaveIsOwn ==
  ASSUME SignInv, NEW s \in Sign!Sessions, Sign!Save(s)
  PROVE  disk' \in SignFile /\ disk'[opened[s]] \in {s, disk[opened[s]]}
<1>1. /\ server[s].step = "saving" /\ disk \in SignFile /\ s \in Nat
      /\ opened[s] \in {"anilist", "mal"}
  BY DEF Sign!Save, SignInv, SignTypes, Sign!Sessions, Sign!Services
<1>2. server[s].conn = s /\ (opened[s] = "mal" => server[s].copy \in SignFile)
  BY <1>1 DEF SignInv, TokenHolds, Own
<1>3. \/ disk' = disk
      \/ opened[s] = "anilist" /\ disk' = [anilist |-> s, mal |-> None]
      \/ opened[s] # "anilist" /\ disk' = [server[s].copy EXCEPT !.mal = s]
  BY <1>2 DEF Sign!Save, Sign!AniListFile
<1>4. CASE disk' = disk
  BY <1>1, <1>4
<1>5. CASE opened[s] = "anilist" /\ disk' = [anilist |-> s, mal |-> None]
  BY <1>1, <1>5 DEF SignFile
<1>6. CASE opened[s] # "anilist" /\ disk' = [server[s].copy EXCEPT !.mal = s]
  <2>1. opened[s] = "mal" /\ server[s].copy \in SignFile
    BY <1>1, <1>2, <1>6
  <2>2. disk' \in SignFile /\ disk'["mal"] = s
    BY <1>1, <1>6, <2>1 DEF SignFile
  <2> QED
    BY <2>1, <2>2
<1> QED
  BY <1>3, <1>4, <1>5, <1>6

LEMMA SaveKeeps ==
  ASSUME SignInv, NEW s \in Sign!Sessions, Sign!Save(s)
  PROVE  SignInv'
<1>1. disk' \in SignFile
  BY SaveIsOwn
<1>2. \E o \in {"Ok", "SaveFailed"} : Sign!End(s, o)
  BY DEF Sign!Save
<1>3. UNCHANGED <<modal, opened, tabs>>
  BY DEF Sign!Save
<1> QED
  BY <1>1, <1>2, <1>3, WorkerEnds DEF Sign!Outcome

LEMMA CloseKeeps ==
  ASSUME SignInv, NEW s \in Sign!Sessions, Sign!CloseListener(s)
  PROVE  SignInv'
<1> DEFINE w == [server[s] EXCEPT !.step = "closed", !.waiting = {}]
<1>1. server[s] \in SignWorker /\ server \in Seq(SignWorker) /\ tabs \subseteq Nat
  BY DEF SignInv, SignTypes, Sign!Sessions
<1>2. /\ server[s].step = "ended" /\ UNCHANGED <<disk, modal, opened, tabs, queue>>
      /\ server' = [server EXCEPT ![s].step = "closed", ![s].waiting = {}]
  BY DEF Sign!CloseListener
<1>3. w \in SignWorker /\ w.step = "closed" /\ w.cancelled = server[s].cancelled
  BY <1>1 DEF SignWorker
<1>4. server' = [server EXCEPT ![s] = w]
  BY <1>1, <1>2 DEF SignWorker
<1>5. Own(s, w)
  BY <1>3 DEF Own
<1> HIDE DEF w
<1> QED
  BY <1>1, <1>2, <1>3, <1>4, <1>5, WorkerGoesOn

LEMMA SignStep ==
  ASSUME SignInv, [Sign!Next]_(Sign!vars)
  PROVE  SignInv'
<1>1. CASE UNCHANGED Sign!vars
  <2>1. UNCHANGED <<disk, modal, opened, server, tabs, queue>>
    BY <1>1 DEF Sign!vars
  <2>2. SignTypes' /\ TokenHolds' /\ ModalHolds'
    BY <2>1 DEF SignInv, SignTypes, TokenHolds, ModalHolds, Own, Sign!Sessions, Sign!ModalIsAnswered
  <2> QED
    BY <2>2 DEF SignInv
<1>2. CASE Sign!Next
  BY <1>2, OpenConnectKeeps, CancelConnectKeeps, ConnectAnsweredKeeps, BrowserKeeps, AcceptKeeps,
     ReadRequestKeeps, AskKeeps, SaveKeeps, CloseKeeps DEF Sign!Next, Sign!Worker
<1> QED
  BY <1>1, <1>2

\* While the modal is up its worker goes on, or its answer is on the way: a
\* session is cancelled only with its modal, and every other end is posted.
THEOREM TheModalIsAnswered == Sign!Spec => []Sign!ModalIsAnswered
<1>1. SignInv => Sign!ModalIsAnswered
  BY DEF SignInv, ModalHolds, Sign!ModalIsAnswered
<1>2. SignInv /\ [Sign!Next]_(Sign!vars) => SignInv'
  BY SignStep
<1> QED
  BY <1>1, <1>2, SignStarts, PTL DEF Sign!Spec

\* A token that reaches the file is that of the session that saved it: nothing but
\* a session's own callback is taken to the service and saved.
THEOREM SavesItsOwnToken == Sign!Spec => OwnTabSignsIn
<1> DEFINE Saved == \A s \in Sign!Sessions :
                       Sign!Save(s) => disk'[opened[s]] \in {s, disk[opened[s]]}
<1>1. SignInv => [Saved]_(Sign!vars)
  BY SaveIsOwn
<1>2. SignInv /\ [Sign!Next]_(Sign!vars) => SignInv'
  BY SignStep
<1> QED
  BY <1>1, <1>2, SignStarts, PTL DEF Sign!Spec, OwnTabSignsIn, Sign!OwnTabSignsIn

-----------------------------------------------------------------------------
(* A span of plays (CommandPlay)                                           *)

SourceSet == {CliSources[n] : n \in DOMAIN CliSources}
Lists == {Listing[s] : s \in SourceSet}
Labels == {Canon[i] : i \in DOMAIN Canon}

Episode == [src : SourceSet, list : Lists, ord : Nat, label : Labels]
Finding == {"search", "choose", "bound", "episodes"}
Run == [at : Finding \cup {"start", "ready", "playing", "hop", "played", "exit"},
        flow : {"play", "continue"}, keyed : BOOLEAN, ask : Nat, empty : BOOLEAN,
        src : SourceSet \cup {None}, list : Lists \cup {<<>>}, idx : Nat,
        last : Labels \cup {None}, lastOrd : Nat, tried : SUBSET SourceSet,
        why : Errors \cup {None}, code : {0, 1, None}]
Session == [at : {"idle", "playing", "over"}, told : Secs \cup {0},
            out : Errors \cup {"ok", "none"}]

\* A play that is over ended well or with an error.
SessionOver == session.at = "over" => session.out \in Errors \cup {"ok"}

\* Where the run is, it has a source to ask, a list, and a place in it.
RunHolds ==
    /\ cli \in Run /\ session \in Session /\ SessionOver
    /\ cli.at \in {"search", "bound"} => cli.ask \in DOMAIN CliSources
    /\ cli.at \notin {"search", "exit"} => cli.src \in SourceSet
    /\ cli.at \notin Finding \cup {"exit"} => cli.list \in Lists
    /\ cli.at \in {"ready", "playing", "hop", "played"} => cli.idx \in DOMAIN cli.list

\* What plays, or played last, is an episode of the list it was taken from; and
\* in a span the run goes on from its place in that list.
PlaceHolds ==
    /\ now = Cli!Nowhere \/ (now \in Episode /\ now.ord \in DOMAIN now.list
                             /\ now.label = now.list[now.ord])
    /\ cli.at = "playing" <=> session.at # "idle"
    /\ cli.at \in Finding \cup {"start"} => now = Cli!Nowhere
    /\ cli.at \in {"playing", "played", "hop"} => now # Cli!Nowhere
    /\ cli.at = "played" => cli.list = now.list /\ cli.idx = now.ord
    /\ cli.at = "ready" /\ cli.last # None /\ now # Cli!Nowhere =>
          cli.list = now.list /\ cli.idx = now.ord + 1

CliInv == RunHolds /\ PlaceHolds

LEMMA ListsAreOrdered ==
  ASSUME NEW l \in Lists
  PROVE  /\ l \in Seq(Labels) /\ Len(l) \in Nat /\ DOMAIN l = 1..Len(l)
         /\ \A i \in DOMAIN l : i \in Nat /\ l[i] \in Labels
         /\ \A i, j \in DOMAIN l : i < j => Cli!Rank(l[i]) < Cli!Rank(l[j])
<1>1. PICK n \in DOMAIN CliSources : l = Listing[CliSources[n]]
  BY DEF Lists, SourceSet
<1>2. /\ l \in Seq(Labels)
      /\ \A i, j \in DOMAIN l : i < j => Cli!Rank(l[i]) < Cli!Rank(l[j])
  BY <1>1, ListingAssumption DEF Labels
<1>3. Len(l) \in Nat /\ DOMAIN l = 1..Len(l) /\ \A i \in 1..Len(l) : i \in Nat /\ l[i] \in Labels
  BY <1>2
<1> QED
  BY <1>2, <1>3

\* What is found by a label is in the list, and is of that label if one is.
LEMMA MapFinds ==
  ASSUME NEW l \in Lists, NEW label, NEW ordinal
  PROVE  LET i == Cli!map_episode_index(l, label, ordinal)
         IN  /\ i = 0 \/ i \in DOMAIN l
             /\ (\E j \in DOMAIN l : l[j] = label) => i \in DOMAIN l /\ l[i] = label
<1> DEFINE i == Cli!map_episode_index(l, label, ordinal)
<1>1. CASE \E j \in DOMAIN l : l[j] = label
  <2>1. i = CHOOSE j \in DOMAIN l : l[j] = label
    BY <1>1 DEF Cli!map_episode_index
  <2> QED
    BY <1>1, <2>1
<1>2. CASE ~\E j \in DOMAIN l : l[j] = label
  <2>1. i = IF ordinal \in DOMAIN l THEN ordinal ELSE 0
    BY <1>2 DEF Cli!map_episode_index
  <2> QED
    BY <1>2, <2>1
<1> QED
  BY <1>1, <1>2

LEMMA SpanFinds ==
  ASSUME cli.list \in Lists, NEW from, NEW to, Cli!Span(from, to) # <<>>
  PROVE  /\ Cli!Span(from, to)[1] \in DOMAIN cli.list
         /\ Cli!Span(from, to)[2] \in DOMAIN cli.list
<1> DEFINE first == Cli!map_episode_index(cli.list, from, ordinal_of[from])
           last == IF to = None THEN Cli!Size
                   ELSE Cli!map_episode_index(cli.list, to, ordinal_of[to])
<1>1. first = 0 \/ first \in DOMAIN cli.list
  BY MapFinds
<1>2. last = 0 \/ last \in DOMAIN cli.list
  <2>1. CASE to = None
    BY <2>1, ListsAreOrdered DEF Cli!Size
  <2>2. CASE to # None
    BY <2>2, MapFinds
  <2> QED
    BY <2>1, <2>2
<1> HIDE DEF first, last
<1>3. Cli!Span(from, to) = <<first, last>> /\ first # 0 /\ last # 0
  BY DEF Cli!Span, first, last
<1> QED
  BY <1>1, <1>2, <1>3

LEMMA CliStarts == Cli!Init => CliInv
<1> SUFFICES ASSUME Cli!Init PROVE CliInv
  OBVIOUS
<1>1. session = Cli!Between /\ now = Cli!Nowhere
  BY DEF Cli!Init, Cli!SessionInit
<1>2. PICK flow \in {"play", "continue"}, keyed \in BOOLEAN, bound \in 0..1 :
        cli = [at |-> IF bound # 0 THEN "bound" ELSE "search", flow |-> flow,
               keyed |-> keyed, ask |-> 1, empty |-> FALSE,
               src |-> IF bound = 0 THEN None ELSE CliSources[bound],
               list |-> <<>>, idx |-> 0, last |-> None, lastOrd |-> 0,
               tried |-> {}, why |-> None, code |-> None]
  BY DEF Cli!Init
<1>3. 1 \in DOMAIN CliSources /\ CliSources[1] \in SourceSet
  BY ListingAssumption DEF SourceSet
<1>4. cli \in Run /\ cli.at \in {"bound", "search"} /\ cli.ask = 1
  BY <1>2, <1>3 DEF Run, Finding
<1>5. cli.at = "bound" => cli.src \in SourceSet
  BY <1>2, <1>3
<1>6. session \in Session /\ session.at = "idle"
  BY <1>1 DEF Cli!Between, Session
<1> QED
  BY <1>1, <1>3, <1>4, <1>5, <1>6 DEF CliInv, RunHolds, PlaceHolds, Finding, SessionOver

\* Steps that find the show and its list, or end the run before a play.
LEMMA FindingKeeps ==
  ASSUME CliInv, Cli!SearchWalk \/ Cli!ChooseShow \/ Cli!BoundSource \/ Cli!LoadEpisodes
  PROVE  CliInv'
<1>1. UNCHANGED <<now, session>> /\ cli.at \in Finding
  BY DEF Cli!SearchWalk, Cli!ChooseShow, Cli!BoundSource, Cli!LoadEpisodes, Finding
<1>2. cli \in Run /\ session \in Session /\ now = Cli!Nowhere /\ session.at = "idle"
  BY <1>1 DEF CliInv, RunHolds, PlaceHolds, Finding, SessionOver
<1>3. ASSUME cli' \in Run, cli'.at \in Finding \cup {"start", "exit"},
             cli'.at \in {"search", "bound"} => cli'.ask \in DOMAIN CliSources,
             cli'.at \notin {"search", "exit"} => cli'.src \in SourceSet,
             cli'.at = "start" => cli'.list \in Lists
      PROVE  CliInv'
  BY <1>1, <1>2, <1>3 DEF CliInv, RunHolds, PlaceHolds, Finding, SessionOver
<1>4. ASSUME NEW c \in {0, 1}, Cli!Exit(c)
      PROVE  CliInv'
  <2>1. cli' \in Run /\ cli'.at = "exit"
    BY <1>2, <1>4 DEF Cli!Exit, Run
  <2> QED
    BY <1>3, <2>1
<1>5. CASE Cli!SearchWalk
  <2>1. cli.at = "search" /\ cli.ask \in DOMAIN CliSources /\ cli.ask \in Nat
    BY <1>5 DEF Cli!SearchWalk, CliInv, RunHolds, Run
  <2>2. CASE cli' = [cli EXCEPT !.src = CliSources[cli.ask], !.at = "choose", !.ask = 1]
    <3>1. CliSources[cli.ask] \in SourceSet
      BY <2>1 DEF SourceSet
    <3>2. cli' \in Run /\ cli'.at = "choose" /\ cli'.src \in SourceSet
      BY <1>2, <2>2, <3>1 DEF Run, Finding
    <3> QED
      BY <1>3, <3>2 DEF Finding
  <2>3. ASSUME NEW some \in BOOLEAN, cli.ask < Len(CliSources),
               cli' = [cli EXCEPT !.ask = @ + 1, !.empty = some]
        PROVE  CliInv'
    <3>1. cli.ask + 1 \in DOMAIN CliSources /\ cli.ask + 1 \in Nat
      BY <2>1, <2>3, ListingAssumption
    <3>2. cli' \in Run /\ cli'.at = "search" /\ cli'.ask = cli.ask + 1
      BY <1>2, <2>1, <2>3, <3>1 DEF Run
    <3> QED
      BY <1>3, <3>1, <3>2 DEF Finding
  <2> QED
    BY <1>2, <1>4, <1>5, <2>2, <2>3 DEF Cli!SearchWalk, Run
<1>6. CASE Cli!ChooseShow
  <2>1. CASE Cli!Goto("episodes")
    <3>1. cli' \in Run /\ cli'.at = "episodes" /\ cli'.src = cli.src
      BY <1>2, <2>1 DEF Cli!Goto, Run, Finding
    <3>2. cli.src \in SourceSet
      BY <1>6 DEF Cli!ChooseShow, CliInv, RunHolds
    <3> QED
      BY <1>3, <3>1, <3>2 DEF Finding
  <2> QED
    BY <1>4, <1>6, <2>1 DEF Cli!ChooseShow
\* The list is the source's.
<1>7. ASSUME cli.src \in SourceSet,
             cli' = [cli EXCEPT !.at = "start", !.list = Listing[cli.src], !.empty = FALSE]
      PROVE  CliInv'
  <2>1. Listing[cli.src] \in Lists
    BY <1>7 DEF Lists
  <2>2. cli' \in Run /\ cli'.at = "start" /\ cli'.src = cli.src /\ cli'.list = Listing[cli.src]
    BY <1>2, <1>7, <2>1 DEF Run
  <2> QED
    BY <1>3, <1>7, <2>1, <2>2
<1>8. CASE Cli!BoundSource
  <2>1. cli.at = "bound" /\ cli.src \in SourceSet /\ cli.ask \in DOMAIN CliSources
    BY <1>8 DEF Cli!BoundSource, CliInv, RunHolds
  <2>2. CASE Cli!Goto("search")
    <3>1. cli' \in Run /\ cli'.at = "search" /\ cli'.ask = cli.ask
      BY <1>2, <2>2 DEF Cli!Goto, Run, Finding
    <3> QED
      BY <1>3, <2>1, <3>1 DEF Finding
  <2> QED
    BY <1>7, <1>8, <2>1, <2>2 DEF Cli!BoundSource
<1>9. CASE Cli!LoadEpisodes
  <2>1. cli.src \in SourceSet
    BY <1>9 DEF Cli!LoadEpisodes, CliInv, RunHolds
  <2> QED
    BY <1>4, <1>7, <1>9, <2>1 DEF Cli!LoadEpisodes
<1> QED
  BY <1>5, <1>6, <1>8, <1>9

\* The first episode, and the end of the span.
LEMMA StartKeeps ==
  ASSUME CliInv, Cli!StartSpan \/ Cli!StartOne \/ Cli!Continue
  PROVE  CliInv'
<1>1. UNCHANGED <<now, session>> /\ cli.at = "start"
  BY DEF Cli!StartSpan, Cli!StartOne, Cli!Continue
<1>2. /\ cli \in Run /\ session \in Session /\ now = Cli!Nowhere /\ session.at = "idle"
      /\ cli.list \in Lists /\ cli.src \in SourceSet
  BY <1>1 DEF CliInv, RunHolds, PlaceHolds, Finding, SessionOver
<1>3. /\ Len(cli.list) \in Nat /\ DOMAIN cli.list = 1..Len(cli.list)
      /\ \A i \in DOMAIN cli.list : i \in Nat /\ cli.list[i] \in Labels
  BY <1>2, ListsAreOrdered
<1>4. ASSUME Cli!Exit(0)
      PROVE  CliInv'
  <2>1. cli' \in Run /\ cli'.at = "exit"
    BY <1>2, <1>4 DEF Cli!Exit, Run
  <2> QED
    BY <1>1, <1>2, <2>1 DEF CliInv, RunHolds, PlaceHolds, Finding, SessionOver
<1>5. ASSUME cli' \in Run, cli'.at = "ready", cli'.list = cli.list, cli'.src = cli.src,
             cli'.idx \in DOMAIN cli.list
      PROVE  CliInv'
  BY <1>1, <1>2, <1>5 DEF CliInv, RunHolds, PlaceHolds, Finding, SessionOver
<1>6. ASSUME NEW i \in DOMAIN cli.list, cli' = [cli EXCEPT !.at = "ready", !.idx = i]
      PROVE  CliInv'
  <2>1. /\ cli' \in Run /\ cli'.at = "ready" /\ cli'.list = cli.list /\ cli'.src = cli.src
        /\ cli'.idx = i
    BY <1>2, <1>3, <1>6 DEF Run
  <2> QED
    BY <1>5, <2>1
<1>7. CASE Cli!StartSpan
  <2>1. PICK from \in Typed, to \in Typed \cup {None} :
          LET span == Cli!Span(from, to)
          IN  IF span = <<>> THEN Cli!Exit(0)
              ELSE cli' = [cli EXCEPT !.at = "ready", !.idx = span[1],
                                      !.last = cli.list[span[2]], !.lastOrd = span[2]]
    BY <1>7 DEF Cli!StartSpan
  <2>2. CASE Cli!Span(from, to) = <<>>
    BY <1>4, <2>1, <2>2
  <2>3. CASE Cli!Span(from, to) # <<>>
    <3> DEFINE a == Cli!Span(from, to)[1]
               b == Cli!Span(from, to)[2]
    <3>1. a \in DOMAIN cli.list /\ b \in DOMAIN cli.list
      BY <1>2, <2>3, SpanFinds
    <3>2. cli' = [cli EXCEPT !.at = "ready", !.idx = a, !.last = cli.list[b], !.lastOrd = b]
      BY <2>1, <2>3
    <3> HIDE DEF a, b
    <3>3. a \in Nat /\ b \in Nat /\ cli.list[b] \in Labels
      BY <1>3, <3>1
    <3>4. /\ cli' \in Run /\ cli'.at = "ready" /\ cli'.list = cli.list /\ cli'.src = cli.src
          /\ cli'.idx = a
      BY <1>2, <3>2, <3>3 DEF Run
    <3> QED
      BY <1>5, <3>1, <3>4
  <2> QED
    BY <2>2, <2>3
<1>8. CASE Cli!StartOne
  <2>1. CASE Cli!Exit(0)
    BY <1>4, <2>1
  <2>2. ASSUME NEW l \in Typed, Cli!map_episode_index(cli.list, l, ordinal_of[l]) # 0,
               cli' = [cli EXCEPT !.at = "ready",
                                  !.idx = Cli!map_episode_index(cli.list, l, ordinal_of[l])]
        PROVE  CliInv'
    <3>1. Cli!map_episode_index(cli.list, l, ordinal_of[l]) \in DOMAIN cli.list
      BY <1>2, <2>2, MapFinds
    <3> QED
      BY <1>6, <2>2, <3>1
  <2> QED
    BY <1>8, <2>1, <2>2 DEF Cli!StartOne
<1>9. CASE Cli!Continue
  <2>1. \/ Cli!Exit(0)
        \/ \E i \in 1..Cli!Size : cli' = [cli EXCEPT !.at = "ready", !.idx = i]
    <3>1. CASE \E i \in 1..Cli!Size : cli' = [cli EXCEPT !.at = "ready", !.idx = i]
      BY <3>1
    <3>2. ASSUME NEW progress \in 0..Len(Canon),
                 IF progress < Cli!Size
                   THEN cli' = [cli EXCEPT !.at = "ready", !.idx = progress + 1]
                   ELSE Cli!Exit(0)
          PROVE  \/ Cli!Exit(0)
                 \/ \E i \in 1..Cli!Size : cli' = [cli EXCEPT !.at = "ready", !.idx = i]
      <4>1. CASE progress < Cli!Size
        <5>1. progress + 1 \in 1..Cli!Size
          BY <1>3, <4>1 DEF Cli!Size
        <5> QED
          BY <3>2, <4>1, <5>1
      <4>2. CASE ~(progress < Cli!Size)
        BY <3>2, <4>2
      <4> QED
        BY <4>1, <4>2
    <3> QED
      BY <1>9, <3>1, <3>2 DEF Cli!Continue
  <2>2. 1..Cli!Size = DOMAIN cli.list
    BY <1>3 DEF Cli!Size
  <2> QED
    BY <1>4, <1>6, <2>1, <2>2
<1> QED
  BY <1>7, <1>8, <1>9

\* A play begins.
LEMMA SessionBegins ==
  ASSUME CliInv, Cli!Begin
  PROVE  session.at = "idle" /\ session' \in Session /\ session'.at = "playing"
BY DEF Cli!Begin, Cli!Began, Cli!Between, Session

LEMMA SessionReturns ==
  ASSUME Cli!Return
  PROVE  session' \in Session /\ session'.at = "idle"
BY DEF Cli!Return, Cli!Between, Session

\* What begins to play is the episode at its place in its list.
LEMMA EpisodeBegins ==
  ASSUME NEW s \in SourceSet, NEW l \in Lists, NEW i \in DOMAIN l,
         now' = [src |-> s, list |-> l, ord |-> i, label |-> l[i]]
  PROVE  /\ now' \in Episode /\ now'.list = l /\ now'.ord = i /\ now'.label = l[i]
         /\ now'.ord \in DOMAIN now'.list /\ now' # Cli!Nowhere
<1>1. i \in Nat /\ l[i] \in Labels
  BY ListsAreOrdered
<1>2. now' \in Episode /\ now'.list = l /\ now'.ord = i /\ now'.label = l[i]
  BY <1>1 DEF Episode
<1>3. i # 0
  BY ListsAreOrdered
<1> QED
  BY <1>2, <1>3 DEF Cli!Nowhere

LEMMA StartPlayKeeps ==
  ASSUME CliInv, Cli!StartPlay
  PROVE  /\ CliInv'
         /\ cli.last # None /\ now # Cli!Nowhere => Cli!Rank(now'.label) > Cli!Rank(now.label)
<1>1. /\ cli.at = "ready" /\ Cli!Begin
      /\ now' = [src |-> cli.src, list |-> cli.list, ord |-> cli.idx,
                 label |-> cli.list[cli.idx]]
      /\ cli' = [cli EXCEPT !.at = "playing", !.tried = {cli.src}, !.why = None]
  BY DEF Cli!StartPlay, Cli!PlayOne
<1>2. /\ cli \in Run /\ cli.src \in SourceSet /\ cli.list \in Lists
      /\ cli.idx \in DOMAIN cli.list
  BY <1>1 DEF CliInv, RunHolds, Finding
<1>3. session' \in Session /\ session'.at = "playing"
  BY <1>1, SessionBegins
<1>4. /\ now' \in Episode /\ now'.label = cli.list[cli.idx] /\ now' # Cli!Nowhere
      /\ now'.label = now'.list[now'.ord] /\ now'.ord \in DOMAIN now'.list
  BY <1>1, <1>2, EpisodeBegins
<1>5. /\ cli' \in Run /\ cli'.at = "playing" /\ cli'.src = cli.src /\ cli'.list = cli.list
      /\ cli'.idx = cli.idx
  BY <1>1, <1>2 DEF Run
<1>6. CliInv'
  BY <1>2, <1>3, <1>4, <1>5 DEF CliInv, RunHolds, PlaceHolds, Finding, SessionOver
<1>7. ASSUME cli.last # None, now # Cli!Nowhere
      PROVE  Cli!Rank(now'.label) > Cli!Rank(now.label)
  <2>1. cli.list = now.list /\ cli.idx = now.ord + 1 /\ now.label = now.list[now.ord]
        /\ now.ord \in DOMAIN now.list
    BY <1>1, <1>7 DEF CliInv, PlaceHolds
  <2>2. now.ord < cli.idx
    BY <1>2, <2>1, ListsAreOrdered
  <2>3. Cli!Rank(cli.list[now.ord]) < Cli!Rank(cli.list[cli.idx])
    BY <1>2, <2>1, <2>2, ListsAreOrdered
  <2> QED
    BY <1>4, <2>1, <2>3
<1> QED
  BY <1>6, <1>7

\* What was played becomes the run's list and place; what failed leaves them.
LEMMA PlayedKeeps ==
  ASSUME CliInv, Cli!Played \/ Cli!Failed
  PROVE  CliInv'
<1>1. session.at = "over" /\ Cli!Return /\ now' = now
  BY DEF Cli!Played, Cli!Failed
<1>2. /\ cli \in Run /\ cli.at = "playing" /\ now \in Episode /\ now # Cli!Nowhere
      /\ now.ord \in DOMAIN now.list /\ now.label = now.list[now.ord]
      /\ cli.src \in SourceSet /\ cli.list \in Lists /\ cli.idx \in DOMAIN cli.list
  BY <1>1 DEF CliInv, RunHolds, PlaceHolds, Finding, SessionOver
<1>3. session' \in Session /\ session'.at = "idle"
  BY <1>1, SessionReturns
<1>4. CASE Cli!Played
  <2>1. cli' = [cli EXCEPT !.at = "played", !.src = now.src, !.list = now.list, !.idx = now.ord]
    BY <1>4 DEF Cli!Played, Cli!Rebind
  <2>2. now.src \in SourceSet /\ now.list \in Lists /\ now.ord \in Nat
    BY <1>2 DEF Episode
  <2>3. /\ cli' \in Run /\ cli'.at = "played" /\ cli'.src = now.src /\ cli'.list = now.list
        /\ cli'.idx = now.ord
    BY <1>2, <2>1, <2>2 DEF Run
  <2> QED
    BY <1>1, <1>2, <1>3, <2>2, <2>3 DEF CliInv, RunHolds, PlaceHolds, Finding, SessionOver
<1>5. CASE Cli!Failed
  <2>1. session.out # "ok" /\ cli' = [cli EXCEPT !.at = "hop", !.why = session.out]
    BY <1>5 DEF Cli!Failed
  <2>2. session.out \in Errors
    BY <1>1, <2>1 DEF CliInv, RunHolds, SessionOver
  <2>3. /\ cli' \in Run /\ cli'.at = "hop" /\ cli'.src = cli.src /\ cli'.list = cli.list
        /\ cli'.idx = cli.idx
    BY <1>2, <2>1, <2>2 DEF Run
  <2> QED
    BY <1>1, <1>2, <1>3, <2>3 DEF CliInv, RunHolds, PlaceHolds, Finding, SessionOver
<1> QED
  BY <1>4, <1>5

\* A hop asks for the episode that failed, and takes it where it is listed.
LEMMA HopKeeps ==
  ASSUME CliInv, Cli!Hop
  PROVE  /\ CliInv'
         /\ session'.at # "idle" /\ now'.label # cli.list[cli.idx] =>
               \A i \in DOMAIN now'.list : now'.list[i] # cli.list[cli.idx]
<1> DEFINE wanted == cli.list[cli.idx]
<1>1. /\ cli \in Run /\ cli.at = "hop" /\ cli.src \in SourceSet /\ cli.list \in Lists
      /\ cli.idx \in DOMAIN cli.list /\ session \in Session /\ session.at = "idle"
      /\ now # Cli!Nowhere
  BY DEF Cli!Hop, CliInv, RunHolds, PlaceHolds, Finding
<1>2. CASE Cli!Exit(1) /\ UNCHANGED <<now, session>>
  <2>1. cli' \in Run /\ cli'.at = "exit"
    BY <1>1, <1>2 DEF Cli!Exit, Run
  <2> QED
    BY <1>1, <1>2, <2>1 DEF CliInv, RunHolds, PlaceHolds, Finding, SessionOver
<1>3. ASSUME NEW p \in SourceSet, Cli!HopTo(p)
      PROVE  /\ CliInv'
             /\ session'.at # "idle" /\ now'.label # wanted =>
                   \A i \in DOMAIN now'.list : now'.list[i] # wanted
  <2> DEFINE at == Cli!map_episode_index(Listing[p], wanted, cli.idx)
  <2>1. Listing[p] \in Lists
    BY DEF Lists
  <2>2. /\ at = 0 \/ at \in DOMAIN Listing[p]
        /\ (\E j \in DOMAIN Listing[p] : Listing[p][j] = wanted) => Listing[p][at] = wanted
    BY <2>1, MapFinds
  <2>3. CASE cli' = [cli EXCEPT !.tried = @ \cup {p}] /\ UNCHANGED <<now, session>>
    <3>1. /\ cli' \in Run /\ cli'.at = cli.at /\ cli'.src = cli.src /\ cli'.list = cli.list
          /\ cli'.idx = cli.idx
      BY <1>1, <2>3 DEF Run
    <3> QED
      BY <1>1, <2>3, <3>1 DEF CliInv, RunHolds, PlaceHolds, Finding, SessionOver
  <2>4. CASE at # 0 /\ Cli!PlayOne(p, Listing[p], at)
             /\ cli' = [cli EXCEPT !.at = "playing", !.tried = @ \cup {p}]
    <3>1. at \in DOMAIN Listing[p] /\ Cli!Begin
          /\ now' = [src |-> p, list |-> Listing[p], ord |-> at, label |-> Listing[p][at]]
      BY <2>2, <2>4 DEF Cli!PlayOne
    <3> HIDE DEF at, wanted
    <3>2. /\ now' \in Episode /\ now'.list = Listing[p] /\ now'.label = Listing[p][at]
          /\ now'.label = now'.list[now'.ord] /\ now'.ord \in DOMAIN now'.list
          /\ now' # Cli!Nowhere
      BY <2>1, <3>1, EpisodeBegins
    <3>3. session' \in Session /\ session'.at = "playing"
      BY <3>1, SessionBegins
    <3>4. /\ cli' \in Run /\ cli'.at = "playing" /\ cli'.src = cli.src /\ cli'.list = cli.list
          /\ cli'.idx = cli.idx
      BY <1>1, <2>4 DEF Run
    <3>5. CliInv'
      BY <1>1, <3>2, <3>3, <3>4 DEF CliInv, RunHolds, PlaceHolds, Finding, SessionOver
    <3> QED
      BY <2>2, <3>2, <3>5
  <2> QED
    BY <1>3, <2>3, <2>4 DEF Cli!HopTo
<1>4. \A n \in Cli!Untried : CliSources[n] \in SourceSet
  BY DEF Cli!Untried, SourceSet
<1> QED
  BY <1>2, <1>3, <1>4 DEF Cli!Hop

\* The next episode of the span is at the next place of the list played from.
LEMMA NextKeeps ==
  ASSUME CliInv, Cli!NextInSpan \/ Cli!PostPlayMenu
  PROVE  CliInv'
<1>1. UNCHANGED <<now, session>> /\ cli.at = "played"
  BY DEF Cli!NextInSpan, Cli!PostPlayMenu
<1>2. /\ cli \in Run /\ cli.src \in SourceSet /\ cli.list \in Lists
      /\ cli.idx \in DOMAIN cli.list /\ session \in Session /\ session.at = "idle"
      /\ cli.list = now.list /\ cli.idx = now.ord
  BY <1>1 DEF CliInv, RunHolds, PlaceHolds, Finding, SessionOver
<1>3. /\ cli.list \in Seq(Labels) /\ Len(cli.list) \in Nat /\ DOMAIN cli.list = 1..Len(cli.list)
      /\ cli.idx \in Nat /\ cli.ask \in Nat
  BY <1>2, ListsAreOrdered DEF Run
<1>4. ASSUME Cli!Exit(0)
      PROVE  CliInv'
  <2>1. cli' \in Run /\ cli'.at = "exit"
    BY <1>2, <1>4 DEF Cli!Exit, Run
  <2> QED
    BY <1>1, <1>2, <2>1 DEF CliInv, RunHolds, PlaceHolds, Finding, SessionOver
<1>5. CASE Cli!NextInSpan
  <2> DEFINE end == Cli!map_episode_index(cli.list, cli.last, cli.lastOrd)
  <2>1. CASE end = 0 \/ cli.idx >= end
    BY <1>4, <1>5, <2>1 DEF Cli!NextInSpan
  <2>2. CASE ~(end = 0 \/ cli.idx >= end)
    <3>1. cli' = [cli EXCEPT !.at = "ready", !.idx = @ + 1]
      BY <1>5, <2>2 DEF Cli!NextInSpan
    <3>2. end \in DOMAIN cli.list
      BY <1>2, <2>2, MapFinds
    <3>3. cli.idx + 1 \in DOMAIN cli.list /\ cli.idx + 1 \in Nat
      <4> HIDE DEF end
      <4> QED
        BY <1>2, <1>3, <2>2, <3>2
    <3>4. /\ cli' \in Run /\ cli'.at = "ready" /\ cli'.src = cli.src /\ cli'.list = cli.list
          /\ cli'.idx = cli.idx + 1
      BY <1>2, <3>1, <3>3 DEF Run
    <3> QED
      BY <1>1, <1>2, <3>3, <3>4 DEF CliInv, RunHolds, PlaceHolds, Finding, SessionOver
  <2> QED
    BY <2>1, <2>2
<1>6. CASE Cli!PostPlayMenu
  <2>1. cli.last = None
    BY <1>6 DEF Cli!PostPlayMenu
  <2>2. ASSUME NEW i \in {cli.idx - 1, cli.idx, cli.idx + 1} \cap (1..Cli!Size),
               cli' = [cli EXCEPT !.at = "ready", !.idx = i, !.ask = @ + 1]
        PROVE  CliInv'
    <3>1. i \in DOMAIN cli.list /\ i \in Nat
      BY <1>3, <2>2 DEF Cli!Size
    <3>2. cli.ask + 1 \in Nat
      BY <1>3
    <3>3. /\ cli' \in Run /\ cli'.at = "ready" /\ cli'.src = cli.src /\ cli'.list = cli.list
          /\ cli'.idx = i /\ cli'.last = cli.last
      BY <1>2, <2>2, <3>1, <3>2 DEF Run
    <3> QED
      BY <1>1, <1>2, <2>1, <3>1, <3>3 DEF CliInv, RunHolds, PlaceHolds, Finding, SessionOver
  <2> QED
    BY <1>4, <1>6, <2>2 DEF Cli!PostPlayMenu
<1> QED
  BY <1>5, <1>6

\* While a play goes on the run waits for it.
LEMMA PlaysKeeps ==
  ASSUME CliInv, Cli!Plays
  PROVE  CliInv' /\ ~Cli!Starts
<1>1. UNCHANGED <<cli, now>> /\ session.at = "playing" /\ session \in Session
  BY DEF Cli!Plays, Cli!PlayEnds, Cli!Finish, Cli!Tell, CliInv, RunHolds
<1>2. CASE Cli!Tell
  <2>1. PICK s \in Secs \ {0} : session' = [session EXCEPT !.told = s]
    BY <1>2 DEF Cli!Tell
  <2>2. session' \in Session /\ session'.at = "playing"
    BY <1>1, <2>1 DEF Session
  <2> QED
    BY <1>1, <2>2 DEF CliInv, RunHolds, PlaceHolds, Cli!Starts, SessionOver
<1>3. CASE Cli!Finish
  <2>1. PICK out \in Errors \cup {"ok"} : session' = [session EXCEPT !.at = "over", !.out = out]
    BY <1>3 DEF Cli!Finish, Errors, Cli!ErrorKinds, Play!P!ErrorKinds
  <2>2. session' \in Session /\ session'.at = "over" /\ session'.out = out
    BY <1>1, <2>1 DEF Session
  <2> QED
    BY <1>1, <2>1, <2>2 DEF CliInv, RunHolds, PlaceHolds, Cli!Starts, SessionOver
<1> QED
  BY <1>2, <1>3 DEF Cli!Plays, Cli!PlayEnds

LEMMA CliStep ==
  ASSUME CliInv, [Cli!Next]_(Cli!vars)
  PROVE  CliInv'
<1>1. CASE UNCHANGED Cli!vars
  BY <1>1 DEF Cli!vars, CliInv, RunHolds, PlaceHolds, SessionOver
<1>2. CASE Cli!Next
  BY <1>2, FindingKeeps, StartKeeps, StartPlayKeeps, PlayedKeeps, HopKeeps, NextKeeps, PlaysKeeps
     DEF Cli!Next, Cli!CliNext
<1> QED
  BY <1>1, <1>2

\* An episode that starts in a span is the one asked for, or comes after the last.
LEMMA StartsInOrder ==
  ASSUME CliInv, [Cli!Next]_(Cli!vars), cli.last # None, Cli!Starts
  PROVE  IF cli.at = "hop"
           THEN now'.label # cli.list[cli.idx] =>
                   \A i \in DOMAIN now'.list : now'.list[i] # cli.list[cli.idx]
           ELSE now # Cli!Nowhere => Cli!Rank(now'.label) > Cli!Rank(now.label)
<1>1. session.at = "idle" /\ session'.at # "idle" /\ session' # session
  BY DEF Cli!Starts
<1>2. Cli!StartPlay \/ Cli!Hop
  <2>1. ASSUME Cli!Played \/ Cli!Failed
        PROVE  FALSE
    BY <1>1, <2>1 DEF Cli!Played, Cli!Failed
  <2> QED
    BY <1>1, <2>1, PlaysKeeps
       DEF Cli!vars, Cli!Next, Cli!CliNext, Cli!SearchWalk, Cli!ChooseShow, Cli!BoundSource,
           Cli!LoadEpisodes, Cli!StartSpan, Cli!StartOne, Cli!Continue, Cli!NextInSpan,
           Cli!PostPlayMenu
<1>3. CASE Cli!StartPlay
  <2>1. cli.at = "ready"
    BY <1>3 DEF Cli!StartPlay
  <2> QED
    BY <1>3, <2>1, StartPlayKeeps
<1>4. CASE Cli!Hop
  <2>1. cli.at = "hop"
    BY <1>4 DEF Cli!Hop
  <2> QED
    BY <1>1, <1>4, <2>1, HopKeeps
<1> QED
  BY <1>2, <1>3, <1>4

\* A span plays forward: each episode that is started comes after the one played
\* last, on whichever source that was, and a hop asks for the one that failed.
THEOREM SpansPlayForward == Cli!Spec => SpanInOrder
<1> DEFINE Forward ==
       cli.last # None /\ Cli!Starts =>
          IF cli.at = "hop"
            THEN LET wanted == cli.list[cli.idx]
                 IN  now'.label # wanted => wanted \notin Cli!Range(now'.list)
            ELSE now # Cli!Nowhere => Cli!Rank(now'.label) > Cli!Rank(now.label)
<1>1. CliInv /\ [Cli!Next]_(Cli!vars) => [Forward]_(Cli!vars)
  <2> SUFFICES ASSUME CliInv, [Cli!Next]_(Cli!vars), cli.last # None, Cli!Starts
               PROVE  Forward
    OBVIOUS
  <2>1. ASSUME NEW wanted, \A i \in DOMAIN now'.list : now'.list[i] # wanted
        PROVE  wanted \notin Cli!Range(now'.list)
    BY <2>1 DEF Cli!Range
  <2> QED
    BY <2>1, StartsInOrder
<1>2. CliInv /\ [Cli!Next]_(Cli!vars) => CliInv'
  BY CliStep
<1> QED
  BY <1>1, <1>2, CliStarts, PTL DEF Cli!Spec, SpanInOrder, Cli!SpanInOrder
=============================================================================
