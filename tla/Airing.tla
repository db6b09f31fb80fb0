------------------------------- MODULE Airing -------------------------------
(***************************************************************************)
(* How a library row learns when its next episode airs, and how the user   *)
(* is told that one has aired: the refresh that rides a sync run           *)
(* (sync.cpp refresh_airing, on the run's own thread), the metadata that   *)
(* comes back for the show on screen (tui/app.cpp                          *)
(* on_enrichment_refreshed), the check at the start and after every run    *)
(* (check_schedule_notices), the mark against telling twice and the NEW    *)
(* marker (store.cpp).  AniList answers with the date of the first episode *)
(* that has not aired; both answers may be handled long after they were    *)
(* given, and episodes are delayed.                                        *)
(***************************************************************************)
EXTENDS Naturals, FiniteSets

CONSTANTS Shows, None,
          LastEp,       \* bound: episodes of a show
          MaxTime, MaxGestures, MaxDelays  \* bounds

VARIABLES
    now,
    airs,     \* airs[s][k]: when AniList has episode k of s air
    row,      \* the library's row of a show, or None
    up,       \* does the interface run
    copies,   \* the markers of the rows History and Schedule hold; None: no such row
    run,      \* the refresh of the sync run that is going
    reply,    \* an answer about the show that was on screen, or None
    told,     \* history: how often an episode was announced
    gestures, delays

vars == <<now, airs, row, up, copies, run, reply, told, gestures, delays>>

Episodes == 1..LastEp
Lists == {"History", "Schedule"}
OrNone(S) == S \cup {None}

\* next_airing_episode and next_airing_at, which come and go together.
Airing == [ep : Episodes, at : Nat]
\* `calendar': watching or planning.  `over': status FINISHED.
Row == [calendar : BOOLEAN, next : OrNone(Airing), over : BOOLEAN,
        mark : OrNone(Episodes), pending : BOOLEAN]
\* `date' is the time the run was started at.
Run == [at : {"off", "ask", "write"}, date : Nat, asked : SUBSET Shows,
        answer : [Shows -> OrNone(Airing)], wrote : BOOLEAN]

\* `date' is the time it was given at.
Reply == [show : Shows, next : OrNone(Airing), over : BOOLEAN, date : Nat]

NoRows == [l \in Lists |-> [s \in Shows |-> None]]
NoRun == [at |-> "off", date |-> 0, asked |-> {},
          answer |-> [s \in Shows |-> None], wrote |-> FALSE]

TypeOK ==
    /\ now \in Nat
    /\ airs \in [Shows -> [Episodes -> Nat]]
    /\ row \in [Shows -> OrNone(Row)]
    /\ up \in BOOLEAN
    /\ copies \in [Lists -> [Shows -> OrNone(BOOLEAN)]]
    /\ run \in Run
    /\ reply \in OrNone(Reply)
    /\ told \in [Shows -> [Episodes -> 0..2]]

Init ==
    /\ now = 0
    /\ airs = [s \in Shows |-> [k \in Episodes |-> k]]
    /\ row = [s \in Shows |-> None]
    /\ up = TRUE
    /\ copies = NoRows
    /\ run = NoRun
    /\ reply = None
    /\ told = [s \in Shows |-> [k \in Episodes |-> 0]]
    /\ gestures = 0 /\ delays = 0

-----------------------------------------------------------------------------
(* AniList *)

ToAir(s) == {k \in Episodes : airs[s][k] > now}
NextOf(s) ==
    IF ToAir(s) = {} THEN None
    ELSE LET k == CHOOSE k \in ToAir(s) : \A j \in ToAir(s) : k <= j
         IN  [ep |-> k, at |-> airs[s][k]]

\* A request times out in seconds (http.cpp), so between an answer about the show
\* on screen and its handling no two episodes air.
TimePasses ==
    /\ now < MaxTime
    /\ reply # None => now = reply.date
    /\ now' = now + 1
    /\ UNCHANGED <<airs, row, up, copies, run, reply, told, gestures, delays>>

\* An episode is put off, and those after it.
Delayed(s) ==
    /\ delays < MaxDelays
    /\ delays' = delays + 1
    /\ \E k \in ToAir(s) :
          airs' = [airs EXCEPT ![s] = [j \in Episodes |-> @[j] + IF j >= k THEN 1 ELSE 0]]
    /\ UNCHANGED <<now, row, up, copies, run, reply, told, gestures>>

-----------------------------------------------------------------------------
(* The rows on screen *)

Loaded(r) == [s \in Shows |-> IF r[s] = None THEN None ELSE r[s].pending]

\* load_history, and load_schedule where its rows are on hand.
Reloaded(c, r, lists) == [l \in Lists |-> IF l \in lists THEN Loaded(r) ELSE c[l]]

OnHand(c) == {l \in Lists : \E s \in Shows : c[l][s] # None}

-----------------------------------------------------------------------------
(* Telling *)

Due(q) == q.next # None /\ q.next.at <= now
HighWater(q) == IF q.mark = None THEN 0 ELSE q.mark

\* detect_schedule_notices: what has aired above the mark.
Notices(r) ==
    {s \in Shows : r[s] # None /\ r[s].calendar /\ Due(r[s]) /\ r[s].next.ep > HighWater(r[s])}

\* A mistake: the mark stays where it was.
MarkStays(q) == [q EXCEPT !.mark = IF @ = None THEN q.next.ep ELSE @,
                          !.pending = @ \/ q.mark # None]

\* set_schedule_notice; the first look at a row, seed_schedule_notice, says nothing.
Noticed(q) == [q EXCEPT !.mark = q.next.ep, !.pending = @ \/ q.mark # None]

\* check_schedule_notices, as far as the rows in `done' when the process ends there.
Check(r, done) ==
    /\ row' = [s \in Shows |-> IF s \in done THEN Noticed(r[s]) ELSE r[s]]
    /\ told' = [s \in Shows |-> [k \in Episodes |->
          IF s \in done /\ r[s].mark # None /\ k = r[s].next.ep
          THEN IF told[s][k] = 0 THEN 1 ELSE 2 ELSE told[s][k]]]

-----------------------------------------------------------------------------
(* The user, in a running interface *)

Gesture == up /\ gestures < MaxGestures /\ gestures' = gestures + 1

Same(s, q, lists) ==
    /\ row' = [row EXCEPT ![s] = q]
    /\ copies' = Reloaded(copies, row', lists)
    /\ UNCHANGED <<now, airs, up, run, reply, told, delays>>

\* A search result goes to the library: AniList's, or one of MyAnimeList, which
\* has no dates.
Add(s) ==
    /\ row[s] = None
    /\ Gesture
    /\ \E next \in {None, NextOf(s)}, calendar \in BOOLEAN :
          Same(s, [calendar |-> calendar, next |-> next, over |-> ToAir(s) = {},
                   mark |-> None, pending |-> FALSE], {})

\* The delete and the status keys of History, which reload it.
Delete(s) == row[s] # None /\ copies["History"][s] # None /\ Gesture /\ Same(s, None, {"History"})
SetStatus(s) ==
    /\ row[s] # None /\ copies["History"][s] # None
    /\ Gesture
    /\ Same(s, [row[s] EXCEPT !.calendar = ~@], {"History"})

\* `H' and `C' read the library anew.
GoTo(list) ==
    /\ Gesture
    /\ copies' = Reloaded(copies, row, {list})
    /\ UNCHANGED <<now, airs, row, up, run, reply, told, delays>>

\* open_detail takes the marker off the row and off both lists.
Open(s) ==
    /\ Gesture
    /\ row' = [row EXCEPT ![s] = IF @ = None THEN None ELSE [@ EXCEPT !.pending = FALSE]]
    /\ copies' = [l \in Lists |-> [copies[l] EXCEPT ![s] = IF @ = None THEN None ELSE FALSE]]
    /\ UNCHANGED <<now, airs, up, run, reply, told, delays>>

-----------------------------------------------------------------------------
(* What AniList says of the show on screen *)

Asked(s) ==
    /\ up /\ reply = None
    /\ reply' = [show |-> s, next |-> NextOf(s), over |-> ToAir(s) = {}, date |-> now]
    /\ UNCHANGED <<now, airs, row, up, copies, run, told, gestures, delays>>

\* An answer without a date keeps the stored one.
Merged(q, e) == [q EXCEPT !.next = IF e.next = None THEN @ ELSE e.next, !.over = e.over]

OnEnrichmentRefreshed ==
    /\ up /\ reply # None
    /\ LET s == reply.show
           patched == row[s] # None
       IN  /\ row' = [row EXCEPT ![s] = IF patched THEN Merged(@, reply) ELSE @]
           /\ copies' = IF patched
                         THEN Reloaded(copies, row', {"History"} \cup (OnHand(copies) \ {"History"}))
                         ELSE copies
    /\ reply' = None
    /\ UNCHANGED <<now, airs, up, run, told, gestures, delays>>

\* No such show, or no answer.
EnrichmentFails ==
    /\ up /\ reply # None
    /\ reply' = None
    /\ UNCHANGED <<now, airs, row, up, copies, run, told, gestures, delays>>

-----------------------------------------------------------------------------
(* The refresh *)

FlushSync ==
    /\ up /\ run.at = "off"
    /\ Gesture
    /\ run' = [NoRun EXCEPT !.at = "ask", !.date = now]
    /\ UNCHANGED <<now, airs, row, up, copies, reply, told, delays>>

\* list_airing_candidates: nothing to come by the run's own date.
Candidates ==
    {s \in Shows : /\ row[s] # None /\ row[s].calendar /\ ~row[s].over
                   /\ row[s].next = None \/ row[s].next.at <= run.date}

\* fetch_airing: one answer for all of them, or none.
FetchAiring ==
    /\ run.at = "ask"
    /\ \E asked \in {{}, Candidates} :
          run' = [run EXCEPT !.at = "write", !.asked = asked,
                             !.answer = [s \in Shows |-> IF s \in asked THEN NextOf(s) ELSE None]]
    /\ UNCHANGED <<now, airs, row, up, copies, reply, told, gestures, delays>>

\* set_next_airing, a row at a time; a row deleted meanwhile is not written.
SetNextAiring(s) ==
    /\ run.at = "write" /\ s \in run.asked
    /\ row' = [row EXCEPT ![s] = IF @ = None THEN None ELSE [@ EXCEPT !.next = run.answer[s]]]
    /\ run' = [run EXCEPT !.asked = @ \ {s}, !.wrote = TRUE]
    /\ UNCHANGED <<now, airs, up, copies, reply, told, gestures, delays>>

\* on_sync_flushed: the lists follow what the run brought, or the notices.
OnSyncFlushed ==
    /\ up
    /\ run.at = "write" /\ run.asked = {}
    /\ run' = NoRun
    /\ Check(row, Notices(row))
    /\ LET seen == IF run.wrote THEN Reloaded(copies, row, Lists) ELSE copies
       IN  copies' = IF Notices(row) = {} THEN seen ELSE Reloaded(seen, row', OnHand(seen))
    /\ UNCHANGED <<now, airs, up, reply, gestures, delays>>

-----------------------------------------------------------------------------
(* The process *)

Ends ==
    /\ up
    /\ up' = FALSE
    /\ copies' = NoRows /\ run' = NoRun /\ reply' = None
    /\ UNCHANGED <<now, airs, row, told, gestures, delays>>

\* The check at the start, which the process may not survive.
Starts ==
    /\ ~up
    /\ gestures < MaxGestures /\ gestures' = gestures + 1
    /\ \E done \in SUBSET Notices(row) :
          Check(row, done) /\ (up' = (done = Notices(row)))
    /\ UNCHANGED <<now, airs, copies, run, reply, delays>>

Next ==
    \/ TimePasses \/ FlushSync \/ FetchAiring \/ OnSyncFlushed
    \/ OnEnrichmentRefreshed \/ EnrichmentFails \/ Ends \/ Starts
    \/ \E s \in Shows : \/ Delayed(s) \/ Add(s) \/ Delete(s) \/ SetStatus(s) \/ Open(s)
                        \/ Asked(s) \/ SetNextAiring(s)
    \/ \E list \in Lists : GoTo(list)

Spec == Init /\ [][Next]_vars

-----------------------------------------------------------------------------
(* Properties *)

\* An episode is announced once: not again after a restart, after an older
\* answer that names it once more, or when its row comes back.
ToldOnce == \A s \in Shows : \A k \in Episodes : told[s][k] <= 1

\* A NEW marker stands for an announcement that was made.
MarkedIsTold ==
    \A s \in Shows : row[s] # None /\ row[s].pending =>
        row[s].mark # None /\ told[s][row[s].mark] = 1

\* History draws NEW on the rows that have it (a restart, an opening from another
\* view, an answer and a run included).
MarkersAreShown ==
    \A s \in Shows : row[s] # None /\ copies["History"][s] # None =>
        copies["History"][s] = row[s].pending

NoticesAreKept == ToldOnce /\ MarkedIsTold /\ MarkersAreShown

=============================================================================
