---------------------------- MODULE AniListSync ----------------------------
(* The AniList sync funnel: the library rows of the SQLite store, the       *)
(* server's list, and the workers that pull, reconcile and push between     *)
(* them (sync.cpp, store.cpp).  A worker owns its own connection, so every  *)
(* statement or transaction of the store is one atomic step and everything  *)
(* else - the user's edits, the website, a second process - interleaves     *)
(* between two of them.                                                     *)
EXTENDS ListMerge, FiniteSets

CONSTANTS
    Id,             \* AniList media ids
    Worker,         \* sync processes: the interface's worker, `shigoku sync`
    Watching, Completed,
    Total,          \* known episode count of every show, 0 when unknown
    Stored,         \* the score the server keeps when a raw one is saved
    MaxEdits,       \* bound: edits the user makes in the library
    MaxRemote,      \* bound: edits the user makes on the website
    MaxFaults       \* bound: failed calls, lost answers and killed runs

ASSUME AniListSyncAssumption ==
    /\ {Watching, Completed} \subseteq Status
    /\ Planning \notin {Watching, Completed}
    /\ Total \in [Id -> Progress]
    /\ Stored \in [Score -> Score]
    /\ Stored[0] = 0
    /\ \A s \in Score : Stored[Stored[s]] = Stored[s]
    /\ {MaxEdits, MaxRemote, MaxFaults} \subseteq Nat

VARIABLES
    show,       \* the library row of every id, None when there is none
    server,     \* the list entry AniList holds for every id
    w,          \* the state of every worker
    edits, remoteEdits, faults,     \* how much of each bound is spent
    known,      \* history: server values this library has reconciled or written
    held,       \* history: every value the server has held
    touched     \* history: ids the user ever edited locally

vars == <<show, server, w, edits, remoteEdits, faults, known, held, touched>>

-----------------------------------------------------------------------------
\* Rows and worker states.

Row == [entry : Entry, synced : MaybeEntry]

\* The values the website shows: scores come back in the account's format.
ServerEntry == {e \in Entry : Stored[e.score] = e.score}

Stale == [guard : Entry, merged : Entry, snapshot : Entry]

\* A row of the push work list, as list_dirty_for_sync read it.
DirtyRow == [id : Id, entry : Entry, synced : MaybeEntry]

ASSUME NoRecordAssumption == None \notin Row \cup Stale \cup DirtyRow

Idle == [pc |-> "idle", mode |-> "full", remote |-> [i \in Id |-> None],
         plan |-> [i \in Id |-> None], imports |-> {}, contended |-> {},
         todo |-> {}, row |-> None, seen |-> None, backedOff |-> FALSE,
         gone |-> {}]  \* gone: history, the rows deleted since the run began

Dirty(r) == r # None /\ r.synced # r.entry

NewRow(e, s) == [entry |-> e, synced |-> s]

\* What save_entry leaves on the server: the score is quantized on the wire.
AsStored(e) == [e EXCEPT !.score = Stored[@]]

Init ==
    /\ show = [i \in Id |-> None]
    /\ server \in [Id -> {None} \cup {e \in ServerEntry : e.score = 0}]
    /\ w = [p \in Worker |-> Idle]
    /\ edits = 0 /\ remoteEdits = 0 /\ faults = 0
    /\ known = [i \in Id |-> {}]
    /\ held = [i \in Id |-> {server[i]} \ {None}]
    /\ touched = {}

-----------------------------------------------------------------------------
\* The user, in the library.  Each action is one transaction of the store.

WriteRow(i, row) ==
    /\ edits < MaxEdits
    /\ edits' = edits + 1
    /\ show' = [show EXCEPT ![i] = row]
    /\ touched' = touched \cup {i}
    /\ UNCHANGED <<server, remoteEdits, faults, known, held>>

UserEdit(i, row) == WriteRow(i, row) /\ UNCHANGED w

AddToLibrary(i) ==
    /\ show[i] = None
    /\ UserEdit(i, NewRow(DefaultEntry, None))

\* Completing a show of known length carries the progress to its end.
SetListStatus(i, s) ==
    /\ show[i] # None
    /\ LET old == show[i].entry
           p   == IF s = Completed /\ Total[i] > 0 THEN Total[i] ELSE old.progress
       IN  UserEdit(i, [show[i] EXCEPT !.entry.status = s, !.entry.progress = p])

SetUserScore(i, sc) ==
    /\ show[i] # None
    /\ UserEdit(i, [show[i] EXCEPT !.entry.score = sc])

AfterPlayStatus(i, cur, progress, airing) ==
    IF \/ cur = Completed
       \/ ~airing /\ Total[i] > 0 /\ progress >= Total[i]
    THEN Completed ELSE Watching

HighWater(cur, ep) == IF ep > cur THEN ep ELSE cur

\* A counted play of episode ep, watched to its natural end or not.  Playing
\* brings a show into the library.
RecordFinish(i, ep, natural, airing) ==
    LET row == IF show[i] = None THEN NewRow(DefaultEntry, None) ELSE show[i]
        old == row.entry
        p   == IF natural THEN HighWater(old.progress, ep) ELSE old.progress
    IN  UserEdit(i, [row EXCEPT
                       !.entry.progress = p,
                       !.entry.status = AfterPlayStatus(i, old.status, p, airing)])

\* The recomputed high-water mark of the episode rows may be lower.
RecomputeProgress(i, p) ==
    /\ show[i] # None
    /\ UserEdit(i, [show[i] EXCEPT !.entry.progress = p])

DeleteShow(i) ==
    /\ show[i] # None
    /\ WriteRow(i, None)
    /\ w' = [p \in Worker |-> IF w[p].pc = "idle" THEN w[p]
                              ELSE [w[p] EXCEPT !.gone = @ \cup {i}]]

Local ==
    \E i \in Id :
        \/ AddToLibrary(i)
        \/ \E s \in Status : SetListStatus(i, s)
        \/ \E sc \in Score : SetUserScore(i, sc)
        \/ \E ep \in 1..MaxProgress, natural, airing \in BOOLEAN :
               RecordFinish(i, ep, natural, airing)
        \/ \E p \in Progress : RecomputeProgress(i, p)
        \/ DeleteShow(i)

\* The user, on the website or from another client.
WebsiteEdit(i, e) ==
    /\ remoteEdits < MaxRemote
    /\ e # server[i]
    /\ remoteEdits' = remoteEdits + 1
    /\ server' = [server EXCEPT ![i] = e]
    /\ held' = [held EXCEPT ![i] = @ \cup ({e} \ {None})]
    /\ UNCHANGED <<show, w, edits, faults, known, touched>>

Website == \E i \in Id, e \in ServerEntry \cup {None} : WebsiteEdit(i, e)
-----------------------------------------------------------------------------
\* The worker: run_sync and flush_push.  Go(p, r) is a step of p to state r.

At(p, pc) == w[p].pc = pc

Go(p, r) == w' = [w EXCEPT ![p] = r]

StoreUnchanged == UNCHANGED <<show, edits, remoteEdits, touched>>

\* A run that may pull, pull and push, or (at quit) only push.
Start(p, mode) ==
    /\ At(p, "idle")
    /\ Go(p, [Idle EXCEPT !.mode = mode,
                          !.pc = IF mode = "push" THEN "list" ELSE "fetch"])
    /\ StoreUnchanged /\ UNCHANGED <<server, faults, known, held>>

FetchList(p) ==
    /\ At(p, "fetch")
    /\ Go(p, [w[p] EXCEPT !.pc = "plan", !.remote = server])
    /\ StoreUnchanged /\ UNCHANGED <<server, faults, known, held>>

AfterPull(p) == IF w[p].mode = "pull" THEN "idle" ELSE "list"

\* 401 and 429 end the run; any other miss leaves the push to go ahead.
FetchListFails(p) ==
    /\ At(p, "fetch")
    /\ faults < MaxFaults
    /\ faults' = faults + 1
    /\ \/ Go(p, Idle)
       \/ Go(p, IF AfterPull(p) = "idle" THEN Idle ELSE [w[p] EXCEPT !.pc = "list"])
    /\ StoreUnchanged /\ UNCHANGED <<server, known, held>>

\* A matched library row, unless neither the row nor its snapshot would move.
PlanRow(i, remote) ==
    LET r == Reconcile(show[i].synced, show[i].entry, remote) IN
    IF r.merged = show[i].entry /\ show[i].synced = r.snapshot
    THEN None
    ELSE [guard |-> show[i].entry, merged |-> r.merged, snapshot |-> r.snapshot]

ReconcilePlan(p) ==
    /\ At(p, "plan")
    /\ LET remote == w[p].remote
           listed == {i \in Id : remote[i] # None}
       IN  Go(p, [w[p] EXCEPT
                    !.pc = "apply",
                    !.plan = [i \in Id |-> IF i \in listed /\ show[i] # None
                                           THEN PlanRow(i, remote[i]) ELSE None],
                    !.imports = {i \in listed : /\ show[i] = None
                                                /\ remote[i].status = Watching}])
    /\ StoreUnchanged /\ UNCHANGED <<server, faults, known, held>>

\* One transaction: mint the row, then take the remote entry if what stands
\* there is still as a mint leaves it.  Otherwise roll back.
Mintable(r) ==
    \/ r = None
    \/ r.entry.status = Planning /\ r.entry.progress = 0 /\ r.synced = None

\* Mutant: the import forgets the snapshot.
ImportedDirty(e) == NewRow(e, None)

ImportedRow(e) == NewRow(e, e)

ApplyImport(p, i) ==
    /\ At(p, "apply")
    /\ i \in w[p].imports
    /\ LET e  == w[p].remote[i]
           me == [w[p] EXCEPT !.imports = @ \ {i}]
       IN  IF Mintable(show[i])
           THEN /\ show' = [show EXCEPT ![i] = ImportedRow(e)]
                /\ known' = [known EXCEPT ![i] = @ \cup {e}]
                /\ Go(p, me)
           ELSE /\ Go(p, [me EXCEPT !.contended = @ \cup {i}])
                /\ UNCHANGED <<show, known>>
    /\ UNCHANGED <<server, edits, remoteEdits, faults, held, touched>>

\* One compare-and-set UPDATE: a row edited since the plan is contended.
\* Mutant: only look whether the row is there.
StillThere(r, guard) == r # None

StillAsPlanned(r, guard) == r # None /\ r.entry = guard

ApplyRow(p, i) ==
    /\ At(p, "apply")
    /\ w[p].imports = {}
    /\ w[p].plan[i] # None
    /\ LET r  == w[p].plan[i]
           me == [w[p] EXCEPT !.plan[i] = None]
       IN  IF StillAsPlanned(show[i], r.guard)
           THEN /\ show' = [show EXCEPT ![i] = NewRow(r.merged, r.snapshot)]
                /\ known' = [known EXCEPT ![i] = @ \cup {r.snapshot}]
                /\ Go(p, me)
           ELSE /\ Go(p, [me EXCEPT !.contended = @ \cup {i}])
                /\ UNCHANGED <<show, known>>
    /\ UNCHANGED <<server, edits, remoteEdits, faults, held, touched>>

PullDone(p) ==
    /\ At(p, "apply")
    /\ w[p].imports = {}
    /\ \A i \in Id : w[p].plan[i] = None
    /\ Go(p, IF AfterPull(p) = "idle" THEN Idle
             ELSE [w[p] EXCEPT !.pc = "list", !.remote = Idle.remote])
    /\ StoreUnchanged /\ UNCHANGED <<server, faults, known, held>>

\* The push work list, read once; the rows the pull left contended are skipped.
WorkList(contended) ==
    {[id |-> i, entry |-> show[i].entry, synced |-> show[i].synced] :
        i \in {j \in Id : Dirty(show[j])} \ contended}

ListDirty(p) ==
    /\ At(p, "list")
    /\ Go(p, [w[p] EXCEPT !.pc = "next", !.todo = WorkList(w[p].contended)])
    /\ StoreUnchanged /\ UNCHANGED <<server, faults, known, held>>

\* The order (last watched first) is abstracted to any order.
NextRow(p, r) ==
    /\ At(p, "next")
    /\ r \in w[p].todo
    /\ Go(p, [w[p] EXCEPT !.pc = "guard", !.row = r, !.todo = @ \ {r}])
    /\ StoreUnchanged /\ UNCHANGED <<server, faults, known, held>>

PushDone(p) ==
    /\ At(p, "next")
    /\ w[p].todo = {}
    /\ Go(p, Idle)
    /\ StoreUnchanged /\ UNCHANGED <<server, faults, known, held>>

\* Mutant: a row that failed or was held back is tried again.
RowAgain(p) == [w[p] EXCEPT !.pc = "guard", !.seen = None]

RowDone(p) == [w[p] EXCEPT !.pc = "next", !.row = None, !.seen = None]

\* fetch_entry: an absent entry, or the one we last synced, may be written.
\* Mutant: a row that was never synced is written unseen.
WritableOnFirstPush(row, seen) ==
    seen = None \/ row.synced = None \/ seen = row.synced

Writable(row, seen) == seen = None \/ seen = row.synced

Guard(p) ==
    /\ At(p, "guard")
    /\ LET seen == server[w[p].row.id]
       IN  Go(p, IF Writable(w[p].row, seen)
                 THEN [w[p] EXCEPT !.pc = "save", !.seen = seen]
                 ELSE RowDone(p))
    /\ StoreUnchanged /\ UNCHANGED <<server, faults, known, held>>

\* save_entry lands on the server ...
ServerTakes(i, e) ==
    /\ server' = [server EXCEPT ![i] = e]
    /\ held' = [held EXCEPT ![i] = @ \cup {e}]
    /\ known' = [known EXCEPT ![i] = @ \cup {e}]

Save(p) ==
    /\ At(p, "save")
    /\ ServerTakes(w[p].row.id, AsStored(w[p].row.entry))
    /\ Go(p, [w[p] EXCEPT !.pc = "mark"])
    /\ StoreUnchanged /\ UNCHANGED faults

\* ... or lands there while its answer is lost: the row counts as failed.
SaveAnswerLost(p) ==
    /\ At(p, "save")
    /\ faults < MaxFaults
    /\ faults' = faults + 1
    /\ ServerTakes(w[p].row.id, AsStored(w[p].row.entry))
    /\ Go(p, RowDone(p))
    /\ StoreUnchanged

\* A first 429 backs off and retries the row from its guard, a second one
\* stops the run.
Backoff(p) == [w[p] EXCEPT !.pc = "guard", !.seen = None, !.backedOff = TRUE]

RateLimited(p) ==
    /\ w[p].pc \in {"guard", "save"}
    /\ Go(p, IF w[p].backedOff THEN Idle ELSE Backoff(p))
    /\ StoreUnchanged /\ UNCHANGED <<server, faults, known, held>>

\* A 401 stops the run; any other error gives up on this row.
CallFails(p) ==
    /\ w[p].pc \in {"guard", "save"}
    /\ faults < MaxFaults
    /\ faults' = faults + 1
    /\ \/ Go(p, Idle)
       \/ Go(p, RowDone(p))
    /\ StoreUnchanged /\ UNCHANGED <<server, known, held>>

\* mark_synced: the snapshot becomes what the server stored, and the local
\* score adopts it while it is still the one that was pushed.
\* Mutant: the raw score is recorded, not the one the server keeps.
RawSnapshot(pushed) == pushed

SnapshotOf(pushed) == AsStored(pushed)

\* Mutant: the local score stays off the account's grid.
KeptScore(score, pushed) == score

AdoptedScore(score, pushed) ==
    IF score = pushed.score THEN Stored[pushed.score] ELSE score

Marked(r, pushed) ==
    [entry  |-> [r.entry EXCEPT !.score = AdoptedScore(@, pushed)],
     synced |-> SnapshotOf(pushed)]

MarkSynced(p) ==
    /\ At(p, "mark")
    /\ LET i == w[p].row.id IN
       show' = [show EXCEPT ![i] = IF @ = None THEN None
                                   ELSE Marked(@, w[p].row.entry)]
    /\ Go(p, RowDone(p))
    /\ UNCHANGED <<server, edits, remoteEdits, faults, known, held, touched>>

\* The process is killed, or a statement of the store fails: the run is gone,
\* the store and the server stay as they are.
Killed(p) ==
    /\ ~At(p, "idle")
    /\ faults < MaxFaults
    /\ faults' = faults + 1
    /\ Go(p, Idle)
    /\ StoreUnchanged /\ UNCHANGED <<server, known, held>>

Progresses(p) ==
    \/ FetchList(p)
    \/ ReconcilePlan(p)
    \/ \E i \in Id : ApplyImport(p, i) \/ ApplyRow(p, i)
    \/ PullDone(p)
    \/ ListDirty(p)
    \/ \E r \in w[p].todo : NextRow(p, r)
    \/ PushDone(p)
    \/ Guard(p)
    \/ Save(p)
    \/ MarkSynced(p)
    \/ RateLimited(p)

Fails(p) == FetchListFails(p) \/ SaveAnswerLost(p) \/ CallFails(p) \/ Killed(p)

Mode == {"full", "pull", "push"}

Next ==
    \/ Local
    \/ Website
    \/ \E p \in Worker :
        \/ \E mode \in Mode : Start(p, mode)
        \/ Progresses(p)
        \/ Fails(p)

Spec == Init /\ [][Next]_vars

\* A started run is scheduled: its thread keeps taking steps.
Scheduled == \A p \in Worker : WF_vars(Progresses(p))

RunSpec == Spec /\ Scheduled

\* A network that answers infinitely often answers each kind of call so, and
\* somebody keeps asking for a full sync.
Answered == \A p \in Worker : SF_vars(FetchList(p)) /\ SF_vars(Guard(p)) /\ SF_vars(Save(p))

Rerun == \A p \in Worker : SF_vars(Start(p, "full"))

FairSpec == Spec /\ Scheduled /\ Answered /\ Rerun

-----------------------------------------------------------------------------
\* Properties.

\* The shape of every variable, and of every stage of a run.
WorkerState ==
    [pc : {"idle", "fetch", "plan", "apply", "list", "next", "guard", "save", "mark"},
     mode : Mode, remote : [Id -> MaybeEntry], plan : [Id -> Stale \cup {None}],
     imports : SUBSET Id, contended : SUBSET Id, todo : SUBSET DirtyRow,
     row : DirtyRow \cup {None}, seen : MaybeEntry, backedOff : BOOLEAN,
     gone : SUBSET Id]

TypeOK ==
    /\ show \in [Id -> Row \cup {None}]
    /\ server \in [Id -> MaybeEntry]
    /\ w \in [Worker -> WorkerState]
    /\ \A p \in Worker : w[p].pc \in {"guard", "save", "mark"} => w[p].row # None
    /\ edits \in 0..MaxEdits /\ remoteEdits \in 0..MaxRemote /\ faults \in 0..MaxFaults
    /\ known \in [Id -> SUBSET Entry] /\ held \in [Id -> SUBSET Entry]
    /\ touched \subseteq Id

\* A snapshot is a value the server has really held: whatever edits, failed
\* calls, lost answers, kills and second processes come between the pull or
\* push that wrote it and now, the base of the next merge is no invention
\* (store.hpp: "what the server holds"; reconcile and mark_synced).
SnapshotWasOnServer ==
    \A i \in Id : show[i] # None /\ show[i].synced # None => show[i].synced \in held[i]

ServerWrite(p, i) ==
    /\ w[p].pc = "save" /\ w'[p] # w[p]
    /\ server'[i] # server[i]

\* A push never destroys a server value that this library has not merged or
\* written before, save for an edit that lands on the server in the one round
\* trip between the row's guard and its save (sync.hpp, ROD-498).
NoRemoteEditLost ==
    [][\A p \in Worker, i \in Id :
         ServerWrite(p, i) =>
            \/ server[i] = None
            \/ server[i] \in known[i]
            \/ server[i] # w[p].seen]_vars

\* A step of the sync worker p that changes a library row.
SyncWrite(p, i) ==
    /\ w'[p] # w[p] /\ edits' = edits
    /\ show[i] # None /\ show'[i] # show[i]

\* A sync step keeps what the user changed since the snapshot: a moved status
\* stays, moved progress can only rise, a moved score can only become its own
\* stored form (merge_local_wins, merge_progress, the guarded UPDATE of
\* apply_reconcile, the adopt arm of mark_synced).  Left out, because the code
\* does not keep it there: the score of a row the pull imports (the import's
\* guard names status, progress and snapshot, not the score it sets) and a row
\* deleted and added again during the run (mark_synced goes by id).
LocalMovesKept ==
    \A p \in Worker, i \in Id :
        SyncWrite(p, i) /\ i \notin w[p].gone =>
            LET base == EffectiveBase(show[i].synced)
                old  == show[i].entry
                new  == show'[i].entry
            IN  /\ old.status # base.status => new.status = old.status
                /\ old.progress # base.progress => new.progress >= old.progress
                /\ old.score # base.score /\ i \notin w[p].imports =>
                       new.score \in {old.score, Stored[old.score]}

\* What is pushed is owed: a library the user never touched is never pushed -
\* what a pull writes, a half-done import included, is never mistaken for an
\* edit - and a row the pull left contended is not pushed by the same run, even
\* when the server has come back to what the guard would let it overwrite
\* (store.hpp, PullOutcome; sync.hpp, ROD-500).
PushesAreOwed ==
    [][\A p \in Worker, i \in Id :
         ServerWrite(p, i) => i \in touched \ w[p].contended]_vars

\* Every run ends, however often the server answers 429.
RunTerminates == \A p \in Worker : ~At(p, "idle") ~> At(p, "idle")

\* Once the edits stop, library, snapshot and server agree for good (a server
\* entry deleted on the website stays deleted), and every show being watched
\* has arrived in the library.
Agreed(i) ==
    IF show[i] = None
    THEN server[i] = None \/ server[i].status # Watching
    ELSE show[i].synced = show[i].entry /\ server[i] \in {None, show[i].entry}

Converges == <>[](\A i \in Id : Agreed(i))

=============================================================================
