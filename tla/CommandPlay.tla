---------------------------- MODULE CommandPlay ----------------------------
(* `shigoku <query>`, `-r`, `continue` (play_cli.cpp): find a source that has  *)
(* the show, take its episode list, play from one episode on, hop to another   *)
(* source when an episode fails at its own, and record what was watched.  A    *)
(* play is PlaySession's, which Player implements.  Left out: rendering,       *)
(* titles, how a search hit is judged (a source has the show or has not),      *)
(* AniSkip, and the episode cache, which answers as the source did.            *)
EXTENDS PlaySession, SequencesExt

CONSTANTS Sources,   \* the sources of the run, in the order they are asked
          Listing,   \* source -> the labels it lists for this show
          Canon,     \* every label, in the order of the show
          ordinal_of, \* label -> the number it reads as, 0 = none
          Typed,     \* the labels the user names, of Canon
          None,
          MaxPlays   \* bound: plays the user starts from the menu

VARIABLES
    cli,     \* the run: where it is, its source, list and index, its span's end
    resume,  \* the store's resume row of the show: label -> seconds, 0 = none
    now      \* the episode playing, or played last: its source, list, place, label

vars == <<cli, resume, now, session>>

Size == Len(cli.list)

\* map_episode_index: the exact label, else the 1-based ordinal; 0 = no such.
map_episode_index(list, label, ordinal) ==
    IF \E i \in DOMAIN list : list[i] = label
      THEN CHOOSE i \in DOMAIN list : list[i] = label
      ELSE IF ordinal \in DOMAIN list THEN ordinal ELSE 0

Nowhere == [src |-> None, list |-> <<>>, ord |-> 0, label |-> None]

Goto(at) == cli' = [cli EXCEPT !.at = at]
Exit(code) == cli' = [cli EXCEPT !.at = "exit", !.code = code]

Init ==
    /\ SessionInit
    /\ resume \in {[l \in Range(Canon) |-> IF l = k THEN 1 ELSE 0] :
                     k \in Typed \cup {None}}
    /\ now = Nowhere
    /\ \E flow \in {"play", "continue"}, keyed \in BOOLEAN, bound \in 0..1 :
         /\ flow = "continue" => keyed
         /\ flow = "play" => bound = 0
         /\ cli = [at |-> IF bound # 0 THEN "bound" ELSE "search", flow |-> flow,
                   keyed |-> keyed, ask |-> 1, empty |-> FALSE,
                   src |-> IF bound = 0 THEN None ELSE Sources[bound],
                   list |-> <<>>, idx |-> 0, last |-> None, lastOrd |-> 0,
                   tried |-> {}, why |-> None, code |-> None]

-----------------------------------------------------------------------------
\* Finding the show and its list.

\* search_walk: the next source is asked after one that fails or finds nothing.
SearchWalk ==
    /\ cli.at = "search"
    /\ \/ cli' = [cli EXCEPT !.src = Sources[cli.ask], !.at = "choose", !.ask = 1]
       \/ \E empty \in BOOLEAN :
            LET some == cli.empty \/ empty
            IN  IF cli.ask < Len(Sources)
                  THEN cli' = [cli EXCEPT !.ask = @ + 1, !.empty = some]
                  ELSE Exit(IF some THEN 0 ELSE 1)
    /\ UNCHANGED <<resume, now, session>>

\* choose_show, or hit_for_show and the single hit of a continued show.
ChooseShow ==
    /\ cli.at = "choose"
    /\ Exit(0) \/ Goto("episodes")
    /\ UNCHANGED <<resume, now, session>>

\* load_episodes of the stored binding; without an answer the show is searched.
BoundSource ==
    /\ cli.at = "bound"
    /\ \/ cli' = [cli EXCEPT !.at = "start", !.list = Listing[cli.src], !.empty = FALSE]
       \/ Goto("search")
    /\ UNCHANGED <<resume, now, session>>

LoadEpisodes ==
    /\ cli.at = "episodes"
    /\ \/ Exit(1)
       \/ Exit(0)     \* lists no episodes
       \/ cli' = [cli EXCEPT !.at = "start", !.list = Listing[cli.src], !.empty = FALSE]
    /\ UNCHANGED <<resume, now, session>>

\* range_indices: both ends by map_episode_index, in order.
Span(from, to) ==
    LET first == map_episode_index(cli.list, from, ordinal_of[from])
        last == IF to = None THEN Size ELSE map_episode_index(cli.list, to, ordinal_of[to])
    IN  IF first = 0 \/ last = 0 \/ first > last THEN <<>> ELSE <<first, last>>

StartSpan ==
    /\ cli.at = "start" /\ cli.flow = "play"
    /\ \E from \in Typed, to \in Typed \cup {None} :
         LET span == Span(from, to)
         IN  IF span = <<>> THEN Exit(0)
             ELSE cli' = [cli EXCEPT !.at = "ready", !.idx = span[1],
                                     !.last = cli.list[span[2]], !.lastOrd = span[2]]
    /\ UNCHANGED <<resume, now, session>>

\* -e, or the prompt.
StartOne ==
    /\ cli.at = "start" /\ cli.flow = "play"
    /\ \/ Exit(0)
       \/ \E l \in Typed :
            LET i == map_episode_index(cli.list, l, ordinal_of[l])
            IN  i # 0 /\ cli' = [cli EXCEPT !.at = "ready", !.idx = i]
    /\ UNCHANGED <<resume, now, session>>

\* continue_flow: the label partly watched, if listed, else the one after progress.
Continue ==
    /\ cli.at = "start" /\ cli.flow = "continue"
    /\ LET partly == {i \in 1..Size : resume[cli.list[i]] > 0}
       IN  \/ partly # {} /\ \E i \in partly : cli' = [cli EXCEPT !.at = "ready", !.idx = i]
           \/ /\ partly = {}
              /\ \E progress \in 0..Len(Canon) :
                   IF progress < Size
                     THEN cli' = [cli EXCEPT !.at = "ready", !.idx = progress + 1]
                     ELSE Exit(0)
    /\ UNCHANGED <<resume, now, session>>

-----------------------------------------------------------------------------
\* Playing.

\* play_one, up to the player: a downloaded copy plays as a file, else the
\* source resolves it.
PlayOne(source, list, idx) ==
    /\ Begin
    /\ now' = [src |-> source, list |-> list, ord |-> idx, label |-> list[idx]]

StartPlay ==
    /\ cli.at = "ready"
    /\ PlayOne(cli.src, cli.list, cli.idx)
    /\ cli' = [cli EXCEPT !.at = "playing", !.tried = {cli.src}, !.why = None]
    /\ UNCHANGED resume

\* The stream was not found or did not open: another source may still have it.
is_source_failure(why) == why \in {"resolve", "open_failed"}

\* record_finish writes only what a player told, for a show the store keys.
Recorded(label) ==
    IF cli.keyed /\ session.told > 0 THEN [resume EXCEPT ![label] = session.told] ELSE resume

KeepsIndex(e) == [cli EXCEPT !.at = "played", !.src = e.src, !.list = e.list]

\* play_with_hops: what the episode played on is the run's from here.
Rebind(e) == [cli EXCEPT !.at = "played", !.src = e.src, !.list = e.list, !.idx = e.ord]

Played ==
    /\ session.at = "over" /\ session.out = "ok"
    /\ resume' = Recorded(now.label)
    /\ cli' = Rebind(now)
    /\ Return /\ UNCHANGED now

Failed ==
    /\ session.at = "over" /\ session.out # "ok"
    /\ cli' = [cli EXCEPT !.at = "hop", !.why = session.out]
    /\ Return /\ UNCHANGED <<resume, now>>

\* The next source that was not tried, in their order.
Untried == {n \in DOMAIN Sources : Sources[n] \notin cli.tried}
First(n) == \A m \in Untried : n <= m

\* It is asked for the episode, and plays it if it has it; none left ends the run.
HopTo(p) ==
    LET at == map_episode_index(Listing[p], cli.list[cli.idx], cli.idx)
    IN  \/ \* not there, or no answer, or no such episode
           /\ cli' = [cli EXCEPT !.tried = @ \cup {p}]
           /\ UNCHANGED <<now, session>>
        \/ /\ at # 0
           /\ PlayOne(p, Listing[p], at)
           /\ cli' = [cli EXCEPT !.at = "playing", !.tried = @ \cup {p}]

Hop ==
    /\ cli.at = "hop"
    /\ \/ /\ ~is_source_failure(cli.why) \/ Untried = {}
          /\ Exit(1) /\ UNCHANGED <<now, session>>
       \/ /\ is_source_failure(cli.why)
          /\ \E n \in Untried : First(n) /\ HopTo(Sources[n])
    /\ UNCHANGED resume

\* play_from, a span: its end is a label, found again in the list played from.
NextInSpan ==
    /\ cli.at = "played" /\ cli.last # None
    /\ LET last == map_episode_index(cli.list, cli.last, cli.lastOrd)
       IN  IF last = 0 \/ cli.idx >= last THEN Exit(0)
           ELSE cli' = [cli EXCEPT !.at = "ready", !.idx = @ + 1]
    /\ UNCHANGED <<resume, now, session>>

\* play_from, one at a time: the post-play menu.
PostPlayMenu ==
    /\ cli.at = "played" /\ cli.last = None
    /\ \/ Exit(0)
       \/ /\ cli.ask < MaxPlays
          /\ \E i \in {cli.idx - 1, cli.idx, cli.idx + 1} \cap (1..Size) :
               cli' = [cli EXCEPT !.at = "ready", !.idx = i, !.ask = @ + 1]
    /\ UNCHANGED <<resume, now, session>>

CliNext == \/ SearchWalk \/ ChooseShow \/ BoundSource \/ LoadEpisodes
           \/ StartSpan \/ StartOne \/ Continue
           \/ StartPlay \/ Played \/ Failed \/ Hop \/ NextInSpan \/ PostPlayMenu

PlayEnds == Finish /\ UNCHANGED <<cli, resume, now>>
Plays == PlayEnds \/ (Tell /\ UNCHANGED <<cli, resume, now>>)

Next == CliNext \/ Plays

\* Every prompt is answered, every request answers or fails, and a play ends.
Fairness == WF_vars(CliNext) /\ WF_vars(PlayEnds)
Spec == Init /\ [][Next]_vars
FairSpec == Spec /\ Fairness

-----------------------------------------------------------------------------
Rank(label) == CHOOSE i \in DOMAIN Canon : Canon[i] = label
Starts == session.at = "idle" /\ session'.at # "idle"

\* A span plays forward.  Each episode that is started comes after the one that
\* played last, on whichever source and in whichever list that was; a hop asks
\* for the episode that failed, and takes it where the new source lists it.
SpanInOrder ==
    [][cli.last # None /\ Starts =>
         IF cli.at = "hop"
           THEN LET wanted == cli.list[cli.idx]
                IN  now'.label # wanted => wanted \notin Range(now'.list)
           ELSE now # Nowhere => Rank(now'.label) > Rank(now.label)]_vars

\* A span comes to an end: no run of hops and steps goes round, whatever lists
\* the sources it moves between have.
SpanEnds == (cli.last # None) ~> (cli.at = "exit")
=============================================================================
