----------------------------- MODULE MalMirror -----------------------------
(* The MyAnimeList mirror: one sync run of the interface pulls the MAL list, *)
(* rolls the sign-in when it has to, runs the AniList half and pushes back   *)
(* to MAL (mal_mirror.cpp, spawn_sync).  The mirror has a snapshot of its    *)
(* own beside AniList's, and its score is a second, nullable one.  The       *)
(* AniList half is one step here; AniListSync has it in detail.              *)
EXTENDS ListMerge, FiniteSets

CONSTANTS
    Id,             \* shows
    Watching,
    MalScore,       \* the raw score MAL keeps of a raw score (0..10, rounded)
    AniScore,       \* the raw score AniList keeps of a raw score
    MaxEdits,       \* bound: edits in the library
    MaxRemote,      \* bound: edits on either website
    MaxFaults,      \* bound: failed or lost calls and killed processes
    MaxPairs        \* bound: token pairs MAL issues, less one

ASSUME MalMirrorAssumption ==
    /\ Watching \in Status \ {Planning}
    /\ MalScore \in [Score -> Score] /\ AniScore \in [Score -> Score]
    /\ MalScore[0] = 0 /\ AniScore[0] = 0
    /\ \A s \in Score : MalScore[MalScore[s]] = MalScore[s]
    /\ \A s \in Score : AniScore[AniScore[s]] = AniScore[s]
    /\ {MaxEdits, MaxRemote, MaxFaults, MaxPairs} \subseteq Nat

VARIABLES
    show,           \* the library row of every id, None when there is none
    ani, mal,       \* the entry each site holds
    live, access,   \* the pair MAL honours, and the state of its access token
    disk, mem,      \* the pair in the auth file, and in the interface's copy
    w,              \* the sync run
    edits, remoteEdits, faults,     \* how much of each bound is spent
    known,          \* history: MAL entries the library merged or wrote
    lost,           \* history: a renewed pair was lost before it was saved
    calm            \* history: nobody edited and nothing failed in this run

vars == <<show, ani, mal, live, access, disk, mem, w, edits, remoteEdits,
          faults, known, lost, calm>>

rows    == <<show, known>>
sites   == <<ani, mal>>
tokens  == <<live, access, disk, mem, lost>>
bounds  == <<edits, remoteEdits, faults>>

-----------------------------------------------------------------------------
Pair == [status : Status, progress : Progress]

PairOf(e) == [status |-> e.status, progress |-> e.progress]

\* synced: AniList's snapshot; pair and score: the mirror's, each nullable;
\* linked: the row has a mal_id.
Row == [entry : Entry, synced : MaybeEntry, pair : Pair \cup {None},
        score : Score \cup {None}, linked : BOOLEAN]

\* The mirror's dirty row, as the push takes it (list_mal_dirty), and what the
\* plan has for a held row.
DirtyRow == [id : Id, entry : Entry, pair : Pair \cup {None}, score : Score \cup {None}]

MalEntry == {e \in Entry : MalScore[e.score] = e.score}
AniEntry == {e \in Entry : AniScore[e.score] = e.score}

PlannedRow == [guard : Entry, merged : Entry, snapshot : MalEntry]

ASSUME NoneIsNothing ==
    None \notin Score \cup Pair \cup Row \cup DirtyRow \cup PlannedRow

NewRow(linked) == [entry |-> DefaultEntry, synced |-> None, pair |-> None,
                   score |-> None, linked |-> linked]

Unscored(s) == IF s = None THEN 0 ELSE s

\* The mirror's snapshot as a merge base.
MalBase(r) ==
    IF r.pair = None THEN None
    ELSE [status |-> r.pair.status, progress |-> r.pair.progress,
          score  |-> Unscored(r.score)]

MalDirty(r) ==
    /\ r # None /\ r.linked
    /\ \/ r.pair # PairOf(r.entry)
       \/ Unscored(r.score) # MalScore[r.entry.score]

Idle == [pc |-> "idle", auth |-> 0, rolled |-> FALSE, outcome |-> "ok",
         unsaved |-> FALSE, remote |-> [i \in Id |-> None],
         plan |-> [i \in Id |-> None], imports |-> {}, backfill |-> {},
         todo |-> {}, row |-> None, seen |-> None]

Init ==
    /\ show = [i \in Id |-> None]
    /\ ani \in [Id -> {None} \cup {e \in AniEntry : e.score = 0}]
    /\ mal \in [Id -> {None} \cup MalEntry]
    /\ live = 0 /\ access = "good" /\ disk = 0 /\ mem = 0
    /\ w = Idle
    /\ edits = 0 /\ remoteEdits = 0 /\ faults = 0
    /\ known = [i \in Id |-> {}]
    /\ lost = FALSE /\ calm = FALSE

-----------------------------------------------------------------------------
\* The user: in the library, and on both sites.

Edit(i, row) ==
    /\ edits < MaxEdits
    /\ edits' = edits + 1
    /\ show' = [show EXCEPT ![i] = row]
    /\ calm' = FALSE
    /\ UNCHANGED <<sites, tokens, w, remoteEdits, faults, known>>

Local ==
    \E i \in Id :
        \/ show[i] = None /\ \E linked \in BOOLEAN : Edit(i, NewRow(linked))
        \/ /\ show[i] # None
           /\ \/ \E s \in Status : Edit(i, [show[i] EXCEPT !.entry.status = s])
              \/ \E p \in Progress : Edit(i, [show[i] EXCEPT !.entry.progress = p])
              \/ \E sc \in Score : Edit(i, [show[i] EXCEPT !.entry.score = sc])

Website ==
    /\ remoteEdits < MaxRemote
    /\ remoteEdits' = remoteEdits + 1
    /\ \E i \in Id :
        \/ \E e \in MalEntry \cup {None} :
               mal' = [mal EXCEPT ![i] = e] /\ UNCHANGED ani
        \/ \E e \in AniEntry \cup {None} :
               ani' = [ani EXCEPT ![i] = e] /\ UNCHANGED mal
    /\ calm' = FALSE
    /\ UNCHANGED <<rows, tokens, w, edits, faults>>

\* A month passes (dated), or MAL retires the access token early.
TokenAges ==
    /\ access = "good" /\ live < MaxPairs /\ ~w.rolled
    /\ access' \in {"dated", "retired"}
    /\ calm' = FALSE
    /\ UNCHANGED <<rows, sites, live, disk, mem, lost, w, bounds>>

-----------------------------------------------------------------------------
\* pull_mirror.

At(pc) == w.pc = pc

Go(r) == w' = r

Fault == faults < MaxFaults /\ faults' = faults + 1 /\ calm' = FALSE

Start ==
    /\ At("idle")
    /\ Go([Idle EXCEPT !.pc = "token", !.auth = mem])
    /\ calm' = TRUE
    /\ UNCHANGED <<rows, sites, tokens, bounds>>

Honoured == w.auth = live /\ access = "good"

\* The date is read off the run's own pair: an outdated pair may be dated too.
Expired == w.auth # live \/ access = "dated"

\* Mutant: the roll is forgotten by a pull that then fails.
PullMissed(outcome) == [w EXCEPT !.pc = "anilist", !.outcome = outcome]

\* Whatever the pull comes to, a renewed pair is handed on to be saved.
PullEnds(outcome) ==
    [w EXCEPT !.pc = IF w.rolled THEN "save" ELSE "anilist", !.outcome = outcome]

\* MAL issues the next pair once; the refresh token before it is spent.
Rolls ==
    /\ w.auth = live
    /\ live' = live + 1 /\ access' = "good"
    /\ Go([w EXCEPT !.auth = live + 1, !.rolled = TRUE, !.pc = "fetch"])
    /\ UNCHANGED <<disk, mem, lost, faults, calm>>

Refused ==
    /\ w.auth # live
    /\ Go(PullEnds("unauthorized"))
    /\ UNCHANGED <<tokens, faults, calm>>

\* The call or its answer is lost; with the answer goes the pair MAL issued.
Unreachable ==
    /\ Fault
    /\ Go(PullEnds("failed"))
    /\ \/ UNCHANGED tokens
       \/ /\ w.auth = live
          /\ live' = live + 1 /\ access' = "good" /\ lost' = TRUE
          /\ UNCHANGED <<disk, mem>>

Roll == Rolls \/ Refused \/ Unreachable

CheckToken ==
    /\ At("token")
    /\ \/ Expired /\ Roll
       \/ (Honoured \/ access = "retired") /\ Go([w EXCEPT !.pc = "fetch"])
          /\ UNCHANGED <<tokens, faults, calm>>
    /\ UNCHANGED <<rows, sites, edits, remoteEdits>>

FetchList ==
    /\ At("fetch")
    /\ Honoured
    /\ Go([w EXCEPT !.pc = "plan", !.remote = mal])
    /\ UNCHANGED <<rows, sites, tokens, bounds, calm>>

\* A 401 rolls once, a second one is a sign-in problem.
FetchRefused ==
    /\ At("fetch")
    /\ ~Honoured
    /\ IF w.rolled
       THEN Go(PullEnds("unauthorized")) /\ UNCHANGED <<tokens, faults, calm>>
       ELSE Roll
    /\ UNCHANGED <<rows, sites, edits, remoteEdits>>

FetchFails ==
    /\ At("fetch")
    /\ Fault
    /\ Go(PullEnds("failed"))
    /\ UNCHANGED <<rows, sites, tokens, edits, remoteEdits>>

PlanRow(r, remote) ==
    LET m == Reconcile(MalBase(r), r.entry, remote) IN
    IF m.merged = r.entry /\ MalBase(r) = remote
    THEN None
    ELSE [guard |-> r.entry, merged |-> m.merged, snapshot |-> remote]

\* Every status imports: the MAL list is the user's library on MAL.
ReconcilePlan ==
    /\ At("plan")
    /\ LET listed == {i \in Id : w.remote[i] # None}
           held   == {i \in listed : show[i] # None}
       IN  Go([w EXCEPT
                 !.pc = "apply",
                 !.plan = [i \in Id |-> IF i \in held
                                        THEN PlanRow(show[i], w.remote[i]) ELSE None],
                 !.imports = listed \ held,
                 !.backfill = {i \in held : ~show[i].linked}])
    /\ UNCHANGED <<rows, sites, tokens, bounds, calm>>

Snapshotted(r, e) ==
    [r EXCEPT !.pair = PairOf(e), !.score = MalScore[e.score]]

Imported(r, e) ==
    LET base == IF r = None THEN NewRow(TRUE) ELSE [r EXCEPT !.linked = TRUE]
    IN  Snapshotted([base EXCEPT !.entry = e], e)

Mintable(r) ==
    \/ r = None
    \/ r.entry.status = Planning /\ r.entry.progress = 0 /\ r.pair = None

\* The row of i after its import or its guarded UPDATE, itself if contended.
Applied(i) ==
    LET r == show[i]
        p == w.plan[i]
    IN  CASE i \in w.imports /\ Mintable(r) -> Imported(r, w.remote[i])
          [] p # None /\ r # None /\ r.entry = p.guard ->
                 Snapshotted([r EXCEPT !.entry = p.merged], p.snapshot)
          [] OTHER -> r

Apply(i) ==
    /\ At("apply")
    /\ i \in w.imports \/ w.plan[i] # None
    /\ show' = [show EXCEPT ![i] = Applied(i)]
    /\ known' = [known EXCEPT ![i] = IF Applied(i) = show[i] THEN @
                                     ELSE @ \cup {w.remote[i]}]
    /\ Go([w EXCEPT !.imports = @ \ {i}, !.plan[i] = None])
    /\ UNCHANGED <<sites, tokens, bounds, calm>>

\* Mutant: the matched rows stay without their mal_id.
UnlinkedRow(i) == show[i]

\* mal_backfill: a matched row without a mal_id is given it.
LinkedRow(i) ==
    IF show[i] # None /\ i \in w.backfill THEN [show[i] EXCEPT !.linked = TRUE]
    ELSE show[i]

PullDone ==
    /\ At("apply")
    /\ w.imports = {} /\ \A i \in Id : w.plan[i] = None
    /\ show' = [i \in Id |-> LinkedRow(i)]
    /\ Go([PullEnds("ok") EXCEPT !.backfill = {}, !.remote = Idle.remote])
    /\ UNCHANGED <<known, sites, tokens, bounds, calm>>

\* A database error ends the pull as an error, not as a summary: the worker goes
\* on with the pair it started with, and no pair is handed on.
StoreFails ==
    /\ w.pc \in {"plan", "apply"}
    /\ Fault
    /\ Go([Idle EXCEPT !.pc = "anilist", !.auth = mem, !.outcome = "failed"])
    /\ lost' = (lost \/ w.rolled)
    /\ UNCHANGED <<rows, sites, live, access, disk, mem, edits, remoteEdits>>

\* save_rolled, and the pair this run goes on with.
SaveRolled ==
    /\ At("save")
    /\ \/ /\ disk' = w.auth
          /\ Go([w EXCEPT !.pc = "anilist"])
          /\ UNCHANGED <<lost, faults, calm>>
       \/ /\ Fault
          /\ lost' = TRUE
          /\ Go([w EXCEPT !.pc = "anilist", !.unsaved = TRUE])
          /\ UNCHANGED disk
    /\ UNCHANGED <<rows, sites, live, access, mem, edits, remoteEdits>>

-----------------------------------------------------------------------------
\* run_sync, whole: pull (imports are what is being watched), then push.

AniPulled(r, a, linked) ==
    CASE a = None -> r
      [] a # None /\ r = None ->
             IF a.status = Watching
             THEN [NewRow(linked) EXCEPT !.entry = a, !.synced = a] ELSE None
      [] OTHER    -> [r EXCEPT !.entry = Merged(r.synced, r.entry, a), !.synced = a]

AniStored(e) == [e EXCEPT !.score = AniScore[@]]

AniDirty(r) == r # None /\ r.synced # r.entry

AniPushed(r) ==
    IF AniDirty(r)
    THEN [r EXCEPT !.entry = AniStored(@), !.synced = AniStored(r.entry)] ELSE r

AniListHalf ==
    /\ At("anilist")
    /\ Go([w EXCEPT !.pc = "list"])
    /\ \E linked \in BOOLEAN :
         LET pulled(i) == AniPulled(show[i], ani[i], linked) IN
         \/ /\ show' = [i \in Id |-> AniPushed(pulled(i))]
            /\ ani' = [i \in Id |-> IF AniDirty(pulled(i))
                                    THEN AniStored(pulled(i).entry) ELSE ani[i]]
            /\ UNCHANGED <<faults, calm>>
         \/ show' = [i \in Id |-> pulled(i)] /\ calm' = FALSE   \* the launch refresh
            /\ UNCHANGED <<ani, faults>>
         \/ Fault /\ UNCHANGED <<show, ani>>
    /\ UNCHANGED <<mal, known, tokens, edits, remoteEdits>>

-----------------------------------------------------------------------------
\* push_mirror.

ListDirty ==
    /\ At("list")
    /\ Go([w EXCEPT !.pc = "next",
                    !.todo = {[id |-> i, entry |-> show[i].entry, pair |-> show[i].pair,
                               score |-> show[i].score] : i \in {j \in Id : MalDirty(show[j])}}])
    /\ UNCHANGED <<rows, sites, tokens, bounds, calm>>

NextRow ==
    /\ At("next")
    /\ \E r \in w.todo : Go([w EXCEPT !.pc = "guard", !.row = r, !.todo = @ \ {r}])
    /\ UNCHANGED <<rows, sites, tokens, bounds, calm>>

PushStops == [w EXCEPT !.pc = "post", !.todo = {}, !.row = None, !.seen = None]

RowDone == [w EXCEPT !.pc = "next", !.row = None, !.seen = None]

PushDone ==
    /\ At("next")
    /\ w.todo = {}
    /\ Go(PushStops)
    /\ UNCHANGED <<rows, sites, tokens, bounds, calm>>

\* Mutant: only the pair is compared with the live entry.
PairMoved(row, seen) ==
    /\ seen # None
    /\ row.pair # None /\ PairOf(seen) # row.pair

\* Each half of the snapshot vouches for itself; a half never pushed for none.
HeldBack(row, seen) ==
    /\ seen # None
    /\ \/ row.pair # None /\ PairOf(seen) # row.pair
       \/ row.score # None /\ seen.score # row.score

\* A 401 ends the push.
Guard ==
    /\ At("guard")
    /\ LET seen == mal[w.row.id] IN
       Go(CASE ~Honoured -> PushStops
            [] Honoured /\ HeldBack(w.row, seen) -> RowDone
            [] OTHER -> [w EXCEPT !.pc = "put", !.seen = seen])
    /\ UNCHANGED <<rows, sites, tokens, bounds, calm>>

\* What is sent: an unscored row withholds the field.
PushScore(entry) ==
    IF MalScore[entry.score] = 0 THEN None ELSE MalScore[entry.score]

\* MAL keeps its own score when none is sent.
MalTakes(i, e) ==
    LET sent == PushScore(e)
        kept == IF mal[i] = None THEN 0 ELSE mal[i].score
        new  == [e EXCEPT !.score = IF sent = None THEN kept ELSE sent]
    IN  /\ mal' = [mal EXCEPT ![i] = new]
        /\ known' = [known EXCEPT ![i] = @ \cup {new}]

SaveEntry ==
    /\ At("put")
    /\ IF Honoured
       THEN MalTakes(w.row.id, w.row.entry) /\ Go([w EXCEPT !.pc = "mark"])
       ELSE Go(PushStops) /\ UNCHANGED <<mal, known>>
    /\ UNCHANGED <<show, ani, tokens, bounds, calm>>

\* MAL takes the entry, but its answer is lost or the row cannot be marked.
SaveUnmarked ==
    /\ At("put")
    /\ Honoured /\ Fault
    /\ MalTakes(w.row.id, w.row.entry)
    /\ Go(RowDone) \/ Go(PushStops)
    /\ UNCHANGED <<show, ani, tokens, edits, remoteEdits>>

\* A 429 ends the push, another error gives up on the row.
CallFails ==
    /\ w.pc \in {"guard", "put"}
    /\ Fault
    /\ Go(RowDone) \/ Go(PushStops)
    /\ UNCHANGED <<rows, sites, tokens, edits, remoteEdits>>

MarkMalSynced ==
    /\ At("mark")
    /\ LET i == w.row.id
           e == w.row.entry
       IN  show' = [show EXCEPT ![i] =
                      IF @ = None THEN None
                      ELSE [@ EXCEPT !.pair = PairOf(e), !.score = PushScore(e)]]
    /\ Go(RowDone)
    /\ UNCHANGED <<known, sites, tokens, bounds, calm>>

-----------------------------------------------------------------------------
\* The interface takes SyncFlushed: a saved new pair is read back.
SyncFlushed ==
    /\ At("post")
    /\ mem' = IF w.rolled /\ ~w.unsaved THEN disk ELSE mem
    /\ Go(Idle)
    /\ UNCHANGED <<rows, sites, live, access, disk, lost, bounds, calm>>

\* The program quits (it joins no worker) or dies, and is started again.
Restart ==
    /\ Fault
    /\ mem' = disk
    /\ lost' = (lost \/ (w.rolled /\ disk # w.auth))
    /\ Go(Idle)
    /\ UNCHANGED <<rows, sites, live, access, disk, edits, remoteEdits>>

Next ==
    \/ Local \/ Website \/ TokenAges
    \/ Start \/ CheckToken \/ FetchList \/ FetchRefused \/ FetchFails
    \/ ReconcilePlan \/ (\E i \in Id : Apply(i)) \/ PullDone \/ StoreFails
    \/ SaveRolled
    \/ AniListHalf
    \/ ListDirty \/ NextRow \/ PushDone \/ Guard \/ SaveEntry \/ SaveUnmarked
    \/ CallFails \/ MarkMalSynced
    \/ SyncFlushed \/ Restart

Spec == Init /\ [][Next]_vars

-----------------------------------------------------------------------------
\* Properties.

\* A push takes back nothing the user did on MAL's site: what it overwrites is
\* something this library has merged or written, or had no belief about (the
\* first push of a row), or appeared within the one round trip after the guard;
\* and it never erases a score (push_mirror's guard and withheld score).
NoMalEditLost ==
    [][\A i \in Id :
         LET old == mal[i]
             new == mal'[i]
         IN  At("put") /\ w'.pc # "put" /\ old # None /\ new # old =>
               /\ PairOf(new) # PairOf(old) =>
                    \/ \E k \in known[i] : PairOf(k) = PairOf(old)
                    \/ w.row.pair = None \/ old # w.seen
               /\ new.score # old.score =>
                    /\ new.score # 0
                    /\ \/ \E k \in known[i] : k.score = old.score
                       \/ w.row.score = None \/ old # w.seen]_vars

\* Library, MAL and AniList tell the same story about i, each in its own scale
\* (an entry deleted on a site stays deleted there only while nothing is dirty).
Settled(i) ==
    LET r == show[i] IN
    IF r = None THEN mal[i] = None /\ (ani[i] = None \/ ani[i].status # Watching)
    ELSE /\ ani[i] \in {None, r.entry}
         /\ \/ mal[i] = None
            \/ /\ r.linked
               /\ PairOf(mal[i]) = PairOf(r.entry)
               /\ MalScore[r.entry.score] \in {0, mal[i].score}

\* The order of the run is enough: after one undisturbed run, whatever came
\* from either site is in the library and on the other one (spawn_sync: MAL
\* pulls first, then the AniList run, then the mirror push).
OneRunSettles == At("post") /\ calm /\ w.outcome = "ok" => \A i \in Id : Settled(i)

\* The user is asked to sign in again only when a renewed pair was really lost:
\* not by a failed pull, a lost answer or a stale copy in the interface.
ExpiredOnlyIfLost == w.outcome = "unauthorized" => lost
=============================================================================
