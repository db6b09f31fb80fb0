------------------------- MODULE AniListSyncProofs -------------------------
(* Theorems about ListMerge for every triple of entries, and about          *)
(* AniListSync for any set of shows, statuses, scores and sync processes    *)
(* and any bounds.                                                          *)
EXTENDS AniListSync, TLAPS

-----------------------------------------------------------------------------
(* The three-way merge (ListMerge) *)

LEMMA DefaultEntryType == DefaultEntry \in Entry
BY ListMergeAssumption DEF DefaultEntry, Entry, Progress

\* The base a merge runs on is an entry, whether or not there is a snapshot.
LEMMA EffectiveBaseType ==
    ASSUME NEW base \in MaybeEntry
    PROVE  EffectiveBase(base) \in Entry
BY DefaultEntryType DEF EffectiveBase, MaybeEntry

LEMMA MergeProgressType ==
    ASSUME NEW b \in Progress, NEW l \in Progress, NEW r \in Progress
    PROVE  MergeProgress(b, l, r) \in Progress
BY DEF MergeProgress

\* A merge of entries is an entry (store.cpp, reconcile).
THEOREM MergedType ==
    ASSUME NEW base \in MaybeEntry, NEW local \in Entry, NEW remote \in Entry
    PROVE  Merged(base, local, remote) \in Entry
<1> DEFINE b == EffectiveBase(base)
<1>1. b \in Entry
  BY EffectiveBaseType
<1>2. MergeLocalWins(b.status, local.status, remote.status) \in Status
  BY <1>1 DEF MergeLocalWins, Entry
<1>3. MergeProgress(b.progress, local.progress, remote.progress) \in Progress
  BY <1>1, MergeProgressType DEF Entry
<1>4. MergeLocalWins(b.score, local.score, remote.score) \in Score
  BY <1>1 DEF MergeLocalWins, Entry
<1> QED
  BY <1>2, <1>3, <1>4 DEF Merged, Entry

\* A side that did not move since the snapshot yields to the one that did: the
\* server's change arrives on an untouched row, a local change stands against
\* an unchanged server entry (store.cpp, merge_local_wins and merge_progress).
THEOREM UnmovedSideYields ==
    ASSUME NEW base \in Entry, NEW local \in Entry, NEW remote \in Entry,
           base # None
    PROVE  /\ Merged(base, base, remote) = remote
           /\ Merged(base, local, base) = local
<1>1. EffectiveBase(base) = base
  BY DEF EffectiveBase
<1>2. Merged(base, base, remote) = remote
  BY <1>1 DEF Merged, MergeLocalWins, MergeProgress, Entry
<1>3. Merged(base, local, base) = local
  BY <1>1 DEF Merged, MergeLocalWins, MergeProgress, Entry, Progress
<1> QED
  BY <1>2, <1>3

\* A pull that sees the same server entry again changes nothing: the row it
\* wrote is its own merge over the snapshot it wrote, so a repeated or a
\* retried pull neither flaps nor drifts.
THEOREM MergeIsIdempotent ==
    ASSUME NEW base \in MaybeEntry, NEW local \in Entry, NEW remote \in Entry
    PROVE  LET r == Reconcile(base, local, remote)
           IN  Merged(r.snapshot, r.merged, remote) = r.merged
<1>1. Merged(base, local, remote) \in Entry
  BY MergedType
<1>2. remote # None
  BY NoneAssumption
<1> QED
  BY <1>1, <1>2, UnmovedSideYields DEF Reconcile

\* What the user moved survives a merge: status and score as they are,
\* progress never lower.
THEOREM MergeKeepsLocalMoves ==
    ASSUME NEW base \in MaybeEntry, NEW local \in Entry, NEW remote \in Entry
    PROVE  LET b == EffectiveBase(base)
               m == Merged(base, local, remote)
           IN  /\ local.status # b.status => m.status = local.status
               /\ local.score # b.score => m.score = local.score
               /\ local.progress # b.progress => m.progress >= local.progress
<1>1. EffectiveBase(base) \in Entry
  BY EffectiveBaseType
<1> QED
  BY <1>1 DEF Merged, MergeLocalWins, MergeProgress, Entry, Progress

-----------------------------------------------------------------------------
(* The sync (AniListSync) *)

\* The shape of one worker's state: it names the row it works on while it
\* does, and it has imports left only while it applies the list they are from.
WorkerOK(r) ==
    /\ r \in WorkerState
    /\ r.pc \in {"guard", "save", "mark"} => r.row # None
    /\ r.pc # "apply" => r.imports = {}
    /\ \A i \in r.imports : r.remote[i] # None

WorkersOK ==
    /\ w \in [Worker -> WorkerState]
    /\ \A p \in Worker : WorkerOK(w[p])

StoreTypes ==
    /\ show \in [Id -> Row \cup {None}]
    /\ server \in [Id -> MaybeEntry]
    /\ edits \in 0..MaxEdits /\ remoteEdits \in 0..MaxRemote /\ faults \in 0..MaxFaults
    /\ known \in [Id -> SUBSET Entry] /\ held \in [Id -> SUBSET Entry]
    /\ touched \subseteq Id

TypeInv == StoreTypes /\ WorkersOK

LEMMA TypeInvTypeOK == TypeInv => TypeOK
BY DEF TypeInv, TypeOK, StoreTypes, WorkersOK, WorkerOK

LEMMA IdleOK == WorkerOK(Idle)
BY DEF Idle, WorkerOK, WorkerState, Mode, MaybeEntry

LEMMA GoOK ==
    ASSUME WorkersOK, NEW p \in Worker, NEW r, WorkerOK(r), Go(p, r)
    PROVE  WorkersOK'
BY DEF WorkersOK, Go, WorkerOK

-----------------------------------------------------------------------------
\* The store: what a row becomes is a row.

LEMMA NewRowType ==
    ASSUME NEW e \in Entry, NEW s \in MaybeEntry
    PROVE  NewRow(e, s) \in Row
BY DEF NewRow, Row

LEMMA AsStoredType ==
    ASSUME NEW e \in Entry
    PROVE  AsStored(e) \in Entry
BY AniListSyncAssumption DEF AsStored, Entry

LEMMA AfterPlayStatusType ==
    ASSUME NEW i \in Id, NEW s, NEW p, NEW airing
    PROVE  AfterPlayStatus(i, s, p, airing) \in Status
BY AniListSyncAssumption DEF AfterPlayStatus

LEMMA MarkedType ==
    ASSUME NEW r \in Row, NEW e \in Entry
    PROVE  Marked(r, e) \in Row
<1>1. AdoptedScore(r.entry.score, e) \in Score
  BY AniListSyncAssumption DEF AdoptedScore, Row, Entry
<1>2. [r.entry EXCEPT !.score = AdoptedScore(@, e)] \in Entry
  BY <1>1 DEF Row, Entry
<1>3. SnapshotOf(e) \in MaybeEntry
  BY AsStoredType DEF SnapshotOf, MaybeEntry
<1> QED
  BY <1>2, <1>3 DEF Marked, Row

-----------------------------------------------------------------------------
\* The user's edits keep the types.

\* Every edit is one written row that keeps the snapshot it finds, and does
\* nothing to the workers that matters to them.
KeepsSnapshot(i, r) ==
    r # None => r.synced = IF show[i] = None THEN None ELSE show[i].synced

SameWorkers ==
    \A p \in Worker : w'[p] = w[p] \/ \E g \in SUBSET Id : w'[p] = [w[p] EXCEPT !.gone = g]

\* An action of the user edits a row or deletes one.
LEMMA EditOrDelete ==
    ASSUME TypeInv, Local
    PROVE  \/ \E i \in Id, r \in Row : UserEdit(i, r) /\ KeepsSnapshot(i, r)
           \/ \E i \in Id : DeleteShow(i)
<1> PICK i \in Id :
        \/ AddToLibrary(i)
        \/ \E s \in Status : SetListStatus(i, s)
        \/ \E sc \in Score : SetUserScore(i, sc)
        \/ \E ep \in 1..MaxProgress, natural, airing \in BOOLEAN :
               RecordFinish(i, ep, natural, airing)
        \/ \E p \in Progress : RecomputeProgress(i, p)
        \/ DeleteShow(i)
  BY DEF Local
<1>0. /\ show[i] \in Row \cup {None}
      /\ NewRow(DefaultEntry, None) \in Row /\ NewRow(DefaultEntry, None).synced = None
  BY DefaultEntryType, NewRowType DEF NewRow, TypeInv, StoreTypes, MaybeEntry
<1>1. CASE AddToLibrary(i)
  BY <1>0, <1>1 DEF AddToLibrary, KeepsSnapshot
<1>2. CASE \E s \in Status : SetListStatus(i, s)
  <2> PICK s \in Status : SetListStatus(i, s)
    BY <1>2
  <2> DEFINE old == show[i].entry
             p   == IF s = Completed /\ Total[i] > 0 THEN Total[i] ELSE old.progress
             new == [show[i] EXCEPT !.entry.status = s, !.entry.progress = p]
  <2>1. show[i] \in Row
    BY <1>0 DEF SetListStatus
  <2>2. p \in Progress
    BY <2>1, AniListSyncAssumption DEF Row, Entry
  <2>3. new \in Row /\ KeepsSnapshot(i, new)
    BY <2>1, <2>2 DEF Row, Entry, KeepsSnapshot, SetListStatus
  <2> QED
    BY <2>3 DEF SetListStatus
<1>3. CASE \E sc \in Score : SetUserScore(i, sc)
  <2> PICK sc \in Score : SetUserScore(i, sc)
    BY <1>3
  <2> DEFINE new == [show[i] EXCEPT !.entry.score = sc]
  <2>1. new \in Row /\ KeepsSnapshot(i, new)
    BY <1>0 DEF Row, Entry, KeepsSnapshot, SetUserScore
  <2> QED
    BY <2>1 DEF SetUserScore
<1>4. CASE \E ep \in 1..MaxProgress, natural, airing \in BOOLEAN :
               RecordFinish(i, ep, natural, airing)
  <2> PICK ep \in 1..MaxProgress, natural \in BOOLEAN, airing \in BOOLEAN :
               RecordFinish(i, ep, natural, airing)
    BY <1>4
  <2> DEFINE row == IF show[i] = None THEN NewRow(DefaultEntry, None) ELSE show[i]
             p   == IF natural THEN HighWater(row.entry.progress, ep) ELSE row.entry.progress
             st  == AfterPlayStatus(i, row.entry.status, p, airing)
             new == [row EXCEPT !.entry.progress = p, !.entry.status = st]
  <2>1. row \in Row /\ KeepsSnapshot(i, row)
    BY <1>0 DEF KeepsSnapshot
  <2>2. p \in Progress
    BY <2>1, ListMergeAssumption DEF HighWater, Row, Entry, Progress
  <2>3. st \in Status
    BY AfterPlayStatusType
  <2> HIDE DEF row, p, st
  <2>4. new \in Row /\ new.synced = row.synced
    BY <2>1, <2>2, <2>3 DEF Row, Entry
  <2>5. row # None
    BY <2>1, NoRecordAssumption
  <2>6. UserEdit(i, new)
    BY DEF RecordFinish, row, p, st
  <2>7. KeepsSnapshot(i, new)
    BY <2>1, <2>4, <2>5 DEF KeepsSnapshot
  <2> QED
    BY <2>4, <2>6, <2>7
<1>5. CASE \E p \in Progress : RecomputeProgress(i, p)
  <2> PICK p \in Progress : RecomputeProgress(i, p)
    BY <1>5
  <2> DEFINE new == [show[i] EXCEPT !.entry.progress = p]
  <2>1. new \in Row /\ KeepsSnapshot(i, new)
    BY <1>0 DEF Row, Entry, KeepsSnapshot, RecomputeProgress
  <2> QED
    BY <2>1 DEF RecomputeProgress
<1> QED
  BY <1>1, <1>2, <1>3, <1>4, <1>5

\* Either way one row is written, with the snapshot it had.
LEMMA LocalWrites ==
    ASSUME TypeInv, Local
    PROVE  /\ \E i \in Id, r \in Row \cup {None} : WriteRow(i, r) /\ KeepsSnapshot(i, r)
           /\ w' \in [Worker -> WorkerState]
           /\ SameWorkers
<1>1. CASE \E i \in Id, r \in Row : UserEdit(i, r) /\ KeepsSnapshot(i, r)
  BY <1>1 DEF UserEdit, SameWorkers, TypeInv, WorkersOK
<1>2. CASE \E i \in Id : DeleteShow(i)
  <2> PICK i \in Id : DeleteShow(i)
    BY <1>2
  <2> DEFINE next(p) == IF w[p].pc = "idle" THEN w[p]
                        ELSE [w[p] EXCEPT !.gone = @ \cup {i}]
  <2>1. ASSUME NEW p \in Worker
        PROVE  /\ next(p) \in WorkerState
               /\ next(p) = w[p] \/ \E g \in SUBSET Id : next(p) = [w[p] EXCEPT !.gone = g]
    <3>1. w[p] \in WorkerState
      BY DEF TypeInv, WorkersOK
    <3>2. w[p].gone \cup {i} \in SUBSET Id
      BY <3>1 DEF WorkerState
    <3> QED
      BY <3>1, <3>2 DEF WorkerState
  <2>2. w' = [p \in Worker |-> next(p)]
    BY DEF DeleteShow
  <2>3. w' \in [Worker -> WorkerState] /\ SameWorkers
    BY <2>1, <2>2 DEF SameWorkers
  <2> QED
    BY <2>3 DEF DeleteShow, KeepsSnapshot
<1> QED
  BY <1>1, <1>2, EditOrDelete

LEMMA LocalType ==
    ASSUME TypeInv, Local
    PROVE  TypeInv'
<1> PICK i \in Id, r \in Row \cup {None} : WriteRow(i, r) /\ KeepsSnapshot(i, r)
  BY LocalWrites
<1>1. StoreTypes'
  BY AniListSyncAssumption DEF WriteRow, TypeInv, StoreTypes
<1>2. w' \in [Worker -> WorkerState] /\ SameWorkers
  BY LocalWrites
<1>3. ASSUME NEW p \in Worker PROVE WorkerOK(w'[p])
  <2>1. WorkerOK(w[p])
    BY DEF TypeInv, WorkersOK
  <2>2. ASSUME NEW g \in SUBSET Id PROVE WorkerOK([w[p] EXCEPT !.gone = g])
    BY <2>1 DEF WorkerOK, WorkerState
  <2> QED
    BY <1>2, <2>1, <2>2 DEF SameWorkers
<1> QED
  BY <1>1, <1>2, <1>3 DEF TypeInv, WorkersOK, WorkerOK

LEMMA WebsiteType ==
    ASSUME TypeInv, Website
    PROVE  TypeInv'
<1> PICK i \in Id, e \in ServerEntry \cup {None} : WebsiteEdit(i, e)
  BY DEF Website
<1>1. server' \in [Id -> MaybeEntry] /\ held' \in [Id -> SUBSET Entry]
  BY DEF WebsiteEdit, ServerEntry, MaybeEntry, TypeInv, StoreTypes
<1>2. remoteEdits' \in 0..MaxRemote
  BY AniListSyncAssumption DEF WebsiteEdit, TypeInv, StoreTypes
<1> QED
  BY <1>1, <1>2 DEF WebsiteEdit, TypeInv, StoreTypes, WorkersOK

-----------------------------------------------------------------------------
\* A run's steps keep the types.  PlanRow is the only one that computes an
\* entry; the rest move entries about.

LEMMA PlanRowType ==
    ASSUME NEW i \in Id, show[i] \in Row, NEW remote \in Entry
    PROVE  PlanRow(i, remote) \in Stale \cup {None}
<1>1. Merged(show[i].synced, show[i].entry, remote) \in Entry
  BY MergedType DEF Row
<1> QED
  BY <1>1 DEF PlanRow, Reconcile, Stale, Row

LEMMA WorkListType ==
    ASSUME TypeOK, NEW contended
    PROVE  WorkList(contended) \subseteq DirtyRow
BY DEF WorkList, Dirty, DirtyRow, TypeOK, Row

LEMMA ProgressesType ==
    ASSUME TypeInv, NEW p \in Worker, Progresses(p)
    PROVE  TypeInv'
<1> DEFINE me == w[p]
<1>0. WorkerOK(me) /\ WorkerOK(Idle)
  BY IdleOK DEF TypeInv, WorkersOK
<1>a. ASSUME NEW r, WorkerOK(r), Go(p, r), StoreTypes'
      PROVE  TypeInv'
  BY <1>a, GoOK DEF TypeInv
<1>b. ASSUME StoreUnchanged, UNCHANGED <<server, faults, known, held>>
      PROVE  StoreTypes'
  BY <1>b DEF StoreUnchanged, StoreTypes, TypeInv
<1>1. CASE FetchList(p)
  <2>1. WorkerOK([me EXCEPT !.pc = "plan", !.remote = server])
    BY <1>0, <1>1 DEF FetchList, At, WorkerOK, WorkerState, TypeInv, StoreTypes
  <2> QED
    BY <1>1, <1>a, <1>b, <2>1 DEF FetchList
<1>2. CASE ReconcilePlan(p)
  <2> DEFINE listed  == {i \in Id : me.remote[i] # None}
             plan    == [i \in Id |-> IF i \in listed /\ show[i] # None
                                      THEN PlanRow(i, me.remote[i]) ELSE None]
             imports == {i \in listed : show[i] = None /\ me.remote[i].status = Watching}
  <2>1. plan \in [Id -> Stale \cup {None}]
    <3> SUFFICES ASSUME NEW i \in Id, me.remote[i] # None, show[i] # None
                 PROVE  PlanRow(i, me.remote[i]) \in Stale \cup {None}
      OBVIOUS
    <3>1. me.remote[i] \in Entry /\ show[i] \in Row
      BY <1>0 DEF WorkerOK, WorkerState, MaybeEntry, TypeInv, StoreTypes
    <3> QED
      BY <3>1, PlanRowType
  <2>2. imports \subseteq Id /\ \A i \in imports : me.remote[i] # None
    OBVIOUS
  <2> HIDE DEF plan, imports
  <2>3. WorkerOK([me EXCEPT !.pc = "apply", !.plan = plan, !.imports = imports])
    BY <1>0, <2>1, <2>2 DEF WorkerOK, WorkerState
  <2>4. Go(p, [me EXCEPT !.pc = "apply", !.plan = plan, !.imports = imports])
    BY <1>2 DEF ReconcilePlan, plan, imports
  <2> QED
    BY <1>2, <1>a, <1>b, <2>3, <2>4 DEF ReconcilePlan
<1>3. ASSUME NEW i \in Id, ApplyImport(p, i)
      PROVE  TypeInv'
  <2> DEFINE e == me.remote[i]
             r == [me EXCEPT !.imports = @ \ {i}]
  <2>1. e \in Entry
    BY <1>0, <1>3 DEF ApplyImport, WorkerOK, WorkerState, MaybeEntry
  <2>2. ImportedRow(e) \in Row
    BY <2>1, NewRowType DEF ImportedRow, MaybeEntry
  <2>3. WorkerOK(r) /\ WorkerOK([r EXCEPT !.contended = @ \cup {i}])
    BY <1>0, <1>3 DEF ApplyImport, At, WorkerOK, WorkerState
  <2>4. StoreTypes'
    BY <1>3, <2>1, <2>2 DEF ApplyImport, TypeInv, StoreTypes
  <2> QED
    BY <1>3, <1>a, <2>3, <2>4 DEF ApplyImport
<1>4. ASSUME NEW i \in Id, ApplyRow(p, i)
      PROVE  TypeInv'
  <2> DEFINE t == me.plan[i]
             r == [me EXCEPT !.plan[i] = None]
  <2>1. t \in Stale
    BY <1>0, <1>4 DEF ApplyRow, WorkerOK, WorkerState
  <2>2. NewRow(t.merged, t.snapshot) \in Row
    BY <2>1, NewRowType DEF Stale, MaybeEntry
  <2>3. WorkerOK(r) /\ WorkerOK([r EXCEPT !.contended = @ \cup {i}])
    BY <1>0, <1>4 DEF ApplyRow, At, WorkerOK, WorkerState
  <2>4. StoreTypes'
    BY <1>4, <2>1, <2>2 DEF ApplyRow, TypeInv, StoreTypes, Stale
  <2> QED
    BY <1>4, <1>a, <2>3, <2>4 DEF ApplyRow
<1>5. CASE PullDone(p)
  <2>1. WorkerOK([me EXCEPT !.pc = "list", !.remote = Idle.remote])
    BY <1>0, <1>5 DEF PullDone, At, Idle, WorkerOK, WorkerState, MaybeEntry
  <2> QED
    BY <1>0, <1>5, <1>a, <1>b, <2>1 DEF PullDone
<1>6. CASE ListDirty(p)
  <2>1. WorkList(me.contended) \subseteq DirtyRow
    BY WorkListType, TypeInvTypeOK
  <2>2. WorkerOK([me EXCEPT !.pc = "next", !.todo = WorkList(me.contended)])
    BY <1>0, <1>6, <2>1 DEF ListDirty, At, WorkerOK, WorkerState
  <2> QED
    BY <1>6, <1>a, <1>b, <2>2 DEF ListDirty
<1>7. ASSUME NEW r \in me.todo, NextRow(p, r)
      PROVE  TypeInv'
  <2>1. r \in DirtyRow
    BY <1>0, <1>7 DEF WorkerOK, WorkerState
  <2>2. r # None
    BY <2>1, NoRecordAssumption
  <2>3. WorkerOK([me EXCEPT !.pc = "guard", !.row = r, !.todo = @ \ {r}])
    BY <1>0, <1>7, <2>1, <2>2 DEF NextRow, At, WorkerOK, WorkerState
  <2> QED
    BY <1>7, <1>a, <1>b, <2>3 DEF NextRow
<1>8. CASE PushDone(p)
  BY <1>0, <1>8, <1>a, <1>b DEF PushDone
<1>d. ASSUME me.pc # "apply" PROVE WorkerOK(RowDone(p))
  BY <1>0, <1>d DEF RowDone, WorkerOK, WorkerState, MaybeEntry
<1>r. ASSUME me.pc \in {"guard", "save", "mark"}
      PROVE  me.row \in DirtyRow
  BY <1>0, <1>r DEF WorkerOK, WorkerState
<1>9. CASE Guard(p)
  <2>1. server[me.row.id] \in MaybeEntry
    BY <1>9, <1>r DEF Guard, At, DirtyRow, TypeInv, StoreTypes
  <2>2. WorkerOK([me EXCEPT !.pc = "save", !.seen = server[me.row.id]])
    BY <1>0, <1>9, <2>1 DEF Guard, At, WorkerOK, WorkerState
  <2> QED
    BY <1>9, <1>a, <1>b, <1>d, <2>2 DEF Guard, At
<1>10. CASE Save(p)
  <2>1. AsStored(me.row.entry) \in Entry
    BY <1>10, <1>r, AsStoredType DEF Save, At, DirtyRow
  <2>2. StoreTypes'
    BY <1>10, <2>1 DEF Save, ServerTakes, StoreUnchanged, TypeInv, StoreTypes, MaybeEntry
  <2>3. WorkerOK([me EXCEPT !.pc = "mark"])
    BY <1>0, <1>10 DEF Save, At, WorkerOK, WorkerState
  <2> QED
    BY <1>10, <1>a, <2>2, <2>3 DEF Save
<1>11. CASE MarkSynced(p)
  <2>1. me.row.entry \in Entry
    BY <1>11, <1>r DEF MarkSynced, At, DirtyRow
  <2>2. \A x \in Row \cup {None} :
          (IF x = None THEN None ELSE Marked(x, me.row.entry)) \in Row \cup {None}
    BY <2>1, MarkedType
  <2>3. show' \in [Id -> Row \cup {None}]
    BY <1>11, <2>2 DEF MarkSynced, TypeInv, StoreTypes
  <2>4. StoreTypes'
    BY <1>11, <2>3 DEF MarkSynced, TypeInv, StoreTypes
  <2> QED
    BY <1>11, <1>a, <1>d, <2>4 DEF MarkSynced, At
<1>12. CASE RateLimited(p)
  <2>1. WorkerOK(Backoff(p))
    BY <1>0, <1>12 DEF RateLimited, Backoff, WorkerOK, WorkerState, MaybeEntry
  <2> QED
    BY <1>0, <1>12, <1>a, <1>b, <2>1 DEF RateLimited
<1> QED
  BY <1>1, <1>2, <1>3, <1>4, <1>5, <1>6, <1>7, <1>8, <1>9, <1>10, <1>11, <1>12
     DEF Progresses

LEMMA FailsType ==
    ASSUME TypeInv, NEW p \in Worker, Fails(p)
    PROVE  TypeInv'
<1> DEFINE me == w[p]
<1>0. WorkerOK(me) /\ WorkerOK(Idle)
  BY IdleOK DEF TypeInv, WorkersOK
<1>a. ASSUME NEW r, WorkerOK(r), Go(p, r), StoreTypes'
      PROVE  TypeInv'
  BY <1>a, GoOK DEF TypeInv
<1>b. ASSUME faults < MaxFaults, faults' = faults + 1, StoreUnchanged,
             UNCHANGED <<server, known, held>>
      PROVE  StoreTypes'
  BY <1>b, AniListSyncAssumption DEF StoreUnchanged, StoreTypes, TypeInv
<1>d. ASSUME me.pc # "apply" PROVE WorkerOK(RowDone(p))
  BY <1>0, <1>d DEF RowDone, WorkerOK, WorkerState, MaybeEntry
<1>1. CASE FetchListFails(p)
  <2>1. WorkerOK([me EXCEPT !.pc = "list"])
    BY <1>0, <1>1 DEF FetchListFails, At, WorkerOK, WorkerState
  <2> QED
    BY <1>0, <1>1, <1>a, <1>b, <2>1 DEF FetchListFails
<1>2. CASE SaveAnswerLost(p)
  <2>1. me.row \in DirtyRow
    BY <1>0, <1>2 DEF SaveAnswerLost, At, WorkerOK, WorkerState
  <2>2. AsStored(me.row.entry) \in Entry
    BY <2>1, AsStoredType DEF DirtyRow
  <2>3. faults' \in 0..MaxFaults
    BY <1>2, AniListSyncAssumption DEF SaveAnswerLost, TypeInv, StoreTypes
  <2>4. /\ server' \in [Id -> MaybeEntry]
        /\ known' \in [Id -> SUBSET Entry] /\ held' \in [Id -> SUBSET Entry]
    BY <1>2, <2>2 DEF SaveAnswerLost, ServerTakes, TypeInv, StoreTypes, MaybeEntry
  <2>5. StoreTypes'
    BY <1>2, <2>3, <2>4 DEF SaveAnswerLost, StoreUnchanged, TypeInv, StoreTypes
  <2> QED
    BY <1>2, <1>a, <1>d, <2>5 DEF SaveAnswerLost, At
<1>3. CASE CallFails(p)
  BY <1>0, <1>3, <1>a, <1>b, <1>d DEF CallFails
<1>4. CASE Killed(p)
  BY <1>0, <1>4, <1>a, <1>b DEF Killed
<1> QED
  BY <1>1, <1>2, <1>3, <1>4 DEF Fails

LEMMA StartType ==
    ASSUME TypeInv, NEW p \in Worker, NEW mode \in Mode, Start(p, mode)
    PROVE  TypeInv'
<1> DEFINE pc == IF mode = "push" THEN "list" ELSE "fetch"
<1>1. WorkerOK([Idle EXCEPT !.mode = mode, !.pc = pc])
  BY DEF Idle, WorkerOK, WorkerState, MaybeEntry
<1>2. StoreTypes'
  BY DEF Start, StoreUnchanged, TypeInv, StoreTypes
<1> QED
  BY <1>1, <1>2, GoOK DEF Start, TypeInv

LEMMA InitType == Init => TypeInv
<1> SUFFICES ASSUME Init PROVE TypeInv
  OBVIOUS
<1>1. server \in [Id -> MaybeEntry]
  BY DEF Init, ServerEntry, MaybeEntry
<1>2. held \in [Id -> SUBSET Entry]
  BY <1>1 DEF Init, MaybeEntry
<1>3. StoreTypes
  BY <1>1, <1>2, AniListSyncAssumption DEF Init, StoreTypes
<1>4. WorkersOK
  BY IdleOK DEF Init, WorkersOK, WorkerOK
<1> QED
  BY <1>3, <1>4 DEF TypeInv

LEMMA NextType == TypeInv /\ [Next]_vars => TypeInv'
<1> SUFFICES ASSUME TypeInv, [Next]_vars PROVE TypeInv'
  OBVIOUS
<1>1. CASE UNCHANGED vars
  BY <1>1 DEF vars, TypeInv, StoreTypes, WorkersOK
<1>2. CASE Next
  BY <1>2, LocalType, WebsiteType, StartType, ProgressesType, FailsType DEF Next
<1> QED
  BY <1>1, <1>2

LEMMA TypeInvariant == Spec => []TypeInv
BY InitType, NextType, PTL DEF Spec

\* Type correctness: library rows, server entries and every stage of a run
\* keep their shape; a worker in the middle of a row always has a row.
THEOREM TypeCorrect == Spec => []TypeOK
BY TypeInvariant, TypeInvTypeOK, PTL

-----------------------------------------------------------------------------
\* Where every snapshot comes from.  k and h stand for known and held: what a
\* worker carries from one call to the next was on the server, and what it may
\* overwrite is known.
Carries(r, k, h) ==
    /\ \A i \in Id : r.remote[i] # None => r.remote[i] \in h[i]
    /\ \A i \in Id : r.plan[i] # None => r.plan[i].snapshot \in h[i]
    /\ \A d \in r.todo : d.synced # None => d.synced \in k[d.id]
    /\ r.pc \in {"guard", "save", "mark"} /\ r.row.synced # None =>
            r.row.synced \in k[r.row.id]
    /\ r.pc = "save" => Writable(r.row, r.seen)
    /\ r.pc = "mark" => AsStored(r.row.entry) \in k[r.row.id]

RowsKnown ==
    \A i \in Id : /\ known[i] \subseteq held[i]
                  /\ server[i] # None => server[i] \in held[i]
                  /\ show[i] # None /\ show[i].synced # None => show[i].synced \in known[i]

Provenance ==
    /\ TypeInv
    /\ RowsKnown
    /\ \A p \in Worker : Carries(w[p], known, held)

\* The histories only grow, so what one worker carries stays good whatever the
\* others do.
Grows == \A i \in Id : known[i] \subseteq known'[i] /\ held[i] \subseteq held'[i]

LEMMA CarriesOn ==
    ASSUME NEW r \in WorkerState, Carries(r, known, held), Grows,
           r.pc \in {"guard", "save", "mark"} => r.row # None
    PROVE  Carries(r, known', held')
<1>1. \A d \in r.todo : d.id \in Id
  BY DEF WorkerState, DirtyRow
<1>2. r.pc \in {"guard", "save", "mark"} => r.row.id \in Id
  BY DEF WorkerState, DirtyRow
<1> QED
  BY <1>1, <1>2 DEF Carries, Grows

LEMMA CarriesIdle == Carries(Idle, known, held)'
BY DEF Carries, Idle

LEMMA GoCarries ==
    ASSUME Provenance, TypeInv', NEW p \in Worker, NEW r, Go(p, r),
           Carries(r, known', held'), Grows, RowsKnown'
    PROVE  Provenance'
<1>1. \A q \in Worker : w'[q] = IF q = p THEN r ELSE w[q]
  BY DEF Go, Provenance, TypeInv, WorkersOK
<1>2. ASSUME NEW q \in Worker, q # p
      PROVE  Carries(w[q], known', held')
  BY <1>2, CarriesOn DEF Provenance, TypeInv, WorkersOK, WorkerOK
<1> QED
  BY <1>1, <1>2 DEF Provenance

LEMMA UserProvenance ==
    ASSUME Provenance, TypeInv', Local \/ Website
    PROVE  Provenance'
<1>1. CASE Website
  <2> PICK i \in Id, e \in ServerEntry \cup {None} : WebsiteEdit(i, e)
    BY <1>1 DEF Website
  <2>1. Grows /\ RowsKnown'
    BY DEF WebsiteEdit, Grows, RowsKnown, Provenance, TypeInv, StoreTypes
  <2>2. ASSUME NEW q \in Worker PROVE Carries(w[q], known', held')
    BY <2>1, CarriesOn DEF Provenance, TypeInv, WorkersOK, WorkerOK
  <2> QED
    BY <2>1, <2>2 DEF WebsiteEdit, Provenance
<1>2. CASE Local
  <2> PICK i \in Id, r \in Row \cup {None} : WriteRow(i, r) /\ KeepsSnapshot(i, r)
    BY <1>2, LocalWrites DEF Provenance
  <2>1. RowsKnown' /\ UNCHANGED <<known, held>>
    BY DEF WriteRow, KeepsSnapshot, Provenance, RowsKnown, TypeInv, StoreTypes
  <2>2. ASSUME NEW q \in Worker PROVE Carries(w'[q], known, held)
    <3>1. Carries(w[q], known, held) /\ w[q] \in WorkerState
      BY DEF Provenance, TypeInv, WorkersOK
    <3>2. ASSUME NEW g PROVE Carries([w[q] EXCEPT !.gone = g], known, held)
      BY <3>1 DEF Carries, WorkerState
    <3> QED
      BY <1>2, <3>1, <3>2, LocalWrites DEF SameWorkers, Provenance
  <2> QED
    BY <2>1, <2>2 DEF Provenance
<1> QED
  BY <1>1, <1>2

LEMMA StartProvenance ==
    ASSUME Provenance, TypeInv', NEW p \in Worker, NEW mode \in Mode, Start(p, mode)
    PROVE  Provenance'
<1> DEFINE pc == IF mode = "push" THEN "list" ELSE "fetch"
           r  == [Idle EXCEPT !.mode = mode, !.pc = pc]
<1>1. Grows /\ RowsKnown'
  BY DEF Start, StoreUnchanged, Grows, RowsKnown, Provenance
<1>2. Carries(r, known', held')
  BY DEF Carries, Idle
<1> QED
  BY <1>1, <1>2, GoCarries DEF Start

\* A step that only moves p on, on what it carries already.
LEMMA QuietGo ==
    ASSUME Provenance, TypeInv', NEW p \in Worker, NEW r, Go(p, r),
           Carries(r, known, held), StoreUnchanged, UNCHANGED <<server, known, held>>
    PROVE  Provenance'
<1>1. Grows /\ RowsKnown'
  BY DEF StoreUnchanged, Grows, RowsKnown, Provenance
<1> QED
  BY <1>1, GoCarries

LEMMA ProgressesProvenance ==
    ASSUME Provenance, TypeInv', NEW p \in Worker, Progresses(p)
    PROVE  Provenance'
<1> DEFINE me == w[p]
<1>0. /\ WorkerOK(me) /\ Carries(me, known, held) /\ RowsKnown /\ StoreTypes
      /\ Carries(Idle, known, held)
  BY DEF Provenance, TypeInv, WorkersOK, Carries, Idle
<1>c. WorkerOK(me) /\ me \in WorkerState /\ Carries(me, known, held)
  BY <1>0 DEF WorkerOK
<1>1. CASE FetchList(p)
  <2>1. Carries([me EXCEPT !.pc = "plan", !.remote = server], known, held)
    BY <1>c, <1>0 DEF Carries, WorkerState, RowsKnown
  <2> QED
    BY <1>1, <2>1, QuietGo DEF FetchList
<1>2. CASE ReconcilePlan(p)
  <2> DEFINE listed  == {i \in Id : me.remote[i] # None}
             plan    == [i \in Id |-> IF i \in listed /\ show[i] # None
                                      THEN PlanRow(i, me.remote[i]) ELSE None]
             imports == {i \in listed : show[i] = None /\ me.remote[i].status = Watching}
  <2>1. \A i \in Id : plan[i] # None => plan[i].snapshot \in held[i]
    BY <1>c DEF Carries, PlanRow, Reconcile
  <2>2. Go(p, [me EXCEPT !.pc = "apply", !.plan = plan, !.imports = imports])
    BY <1>2 DEF ReconcilePlan
  <2> HIDE DEF plan, imports
  <2>3. Carries([me EXCEPT !.pc = "apply", !.plan = plan, !.imports = imports], known, held)
    BY <1>c, <2>1 DEF Carries, WorkerState
  <2> QED
    BY <1>2, <2>2, <2>3, QuietGo DEF ReconcilePlan
<1>3. ASSUME NEW i \in Id, ApplyImport(p, i)
      PROVE  Provenance'
  <2> DEFINE e == me.remote[i]
             r == [me EXCEPT !.imports = @ \ {i}]
             c == [r EXCEPT !.contended = @ \cup {i}]
  <2>1. e \in held[i]
    BY <1>c, <1>3 DEF ApplyImport, WorkerOK, Carries
  <2>2. Grows /\ RowsKnown'
    BY <1>0, <1>3, <2>1 DEF ApplyImport, ImportedRow, NewRow, Grows, RowsKnown, StoreTypes
  <2>3. Carries(me, known', held')
    BY <1>c, <2>2, CarriesOn DEF WorkerOK
  <2>4. Carries(r, known', held') /\ Carries(c, known', held')
    BY <1>c, <1>3, <2>3 DEF Carries, WorkerState, ApplyImport, At
  <2> QED
    BY <1>3, <2>2, <2>4, GoCarries DEF ApplyImport
<1>4. ASSUME NEW i \in Id, ApplyRow(p, i)
      PROVE  Provenance'
  <2> DEFINE t == me.plan[i]
             r == [me EXCEPT !.plan[i] = None]
             c == [r EXCEPT !.contended = @ \cup {i}]
  <2>1. t.snapshot \in held[i]
    BY <1>c, <1>4 DEF ApplyRow, Carries
  <2>2. Grows /\ RowsKnown'
    BY <1>0, <1>4, <2>1 DEF ApplyRow, NewRow, Grows, RowsKnown, StoreTypes
  <2>3. Carries(me, known', held')
    BY <1>c, <2>2, CarriesOn DEF WorkerOK
  <2>4. Carries(r, known', held') /\ Carries(c, known', held')
    BY <1>c, <1>4, <2>3 DEF Carries, WorkerState, ApplyRow, At
  <2> QED
    BY <1>4, <2>2, <2>4, GoCarries DEF ApplyRow
<1>5. CASE PullDone(p)
  <2>1. Carries([me EXCEPT !.pc = "list", !.remote = Idle.remote], known, held)
    BY <1>c DEF Carries, WorkerState, Idle
  <2> QED
    BY <1>0, <1>5, <2>1, QuietGo DEF PullDone
<1>6. CASE ListDirty(p)
  <2>1. \A d \in WorkList(me.contended) : d.synced # None => d.synced \in known[d.id]
    BY <1>0 DEF WorkList, Dirty, RowsKnown
  <2>2. Carries([me EXCEPT !.pc = "next", !.todo = WorkList(me.contended)], known, held)
    BY <1>c, <2>1 DEF Carries, WorkerState
  <2> QED
    BY <1>6, <2>2, QuietGo DEF ListDirty
<1>7. ASSUME NEW d \in me.todo, NextRow(p, d)
      PROVE  Provenance'
  <2>1. Carries([me EXCEPT !.pc = "guard", !.row = d, !.todo = @ \ {d}], known, held)
    BY <1>c DEF Carries, WorkerState
  <2> QED
    BY <1>7, <2>1, QuietGo DEF NextRow
<1>8. CASE PushDone(p)
  BY <1>0, <1>8, QuietGo DEF PushDone
<1>9. CASE Guard(p)
  <2> DEFINE seen == server[me.row.id]
  <2>1. Carries(RowDone(p), known, held)
    BY <1>c DEF Carries, WorkerState, RowDone
  <2>2. ASSUME Writable(me.row, seen)
        PROVE  Carries([me EXCEPT !.pc = "save", !.seen = seen], known, held)
    BY <1>c, <1>9, <2>2 DEF Carries, WorkerState, Guard, At
  <2> QED
    BY <1>9, <2>1, <2>2, QuietGo DEF Guard
<1>10. CASE Save(p)
  <2> DEFINE i == me.row.id
             e == AsStored(me.row.entry)
             r == [me EXCEPT !.pc = "mark"]
  <2>1. i \in Id
    BY <1>c, <1>10 DEF Save, At, WorkerOK, WorkerState, DirtyRow
  <2>2. Grows /\ RowsKnown' /\ e \in known'[i]
    BY <1>0, <1>10, <2>1
       DEF Save, ServerTakes, StoreUnchanged, Grows, RowsKnown, StoreTypes
  <2>3. Carries(me, known', held')
    BY <1>c, <2>2, CarriesOn DEF WorkerOK
  <2>4. Carries(r, known', held')
    BY <1>c, <1>10, <2>2, <2>3 DEF Carries, WorkerState, Save, At
  <2> QED
    BY <1>10, <2>2, <2>4, GoCarries DEF Save
<1>11. CASE MarkSynced(p)
  <2> DEFINE i == me.row.id
             e == me.row.entry
  <2>1. i \in Id /\ AsStored(e) \in known[i]
    BY <1>c, <1>11 DEF MarkSynced, At, WorkerOK, WorkerState, DirtyRow, Carries
  <2>2. Marked(show[i], e).synced = AsStored(e)
    BY DEF Marked, SnapshotOf
  <2>3. \A j \in Id : show'[j] = IF j = i /\ show[i] # None THEN Marked(show[i], e) ELSE show[j]
    BY <1>0, <1>11, <2>1 DEF MarkSynced, StoreTypes
  <2>4. Grows /\ RowsKnown'
    BY <1>0, <1>11, <2>1, <2>2, <2>3 DEF MarkSynced, Grows, RowsKnown
  <2>5. Carries(RowDone(p), known', held')
    BY <1>c, <1>11 DEF MarkSynced, Carries, WorkerState, RowDone
  <2> QED
    BY <1>11, <2>4, <2>5, GoCarries DEF MarkSynced
<1>12. CASE RateLimited(p)
  <2>1. Carries(Backoff(p), known, held)
    BY <1>c, <1>12 DEF RateLimited, Carries, WorkerState, Backoff
  <2> QED
    BY <1>0, <1>12, <2>1, QuietGo DEF RateLimited
<1> QED
  BY <1>1, <1>2, <1>3, <1>4, <1>5, <1>6, <1>7, <1>8, <1>9, <1>10, <1>11, <1>12
     DEF Progresses

LEMMA FailsProvenance ==
    ASSUME Provenance, TypeInv', NEW p \in Worker, Fails(p)
    PROVE  Provenance'
<1> DEFINE me == w[p]
<1>0. /\ WorkerOK(me) /\ me \in WorkerState /\ Carries(me, known, held)
      /\ RowsKnown /\ StoreTypes /\ Carries(Idle, known, held)
  BY DEF Provenance, TypeInv, WorkersOK, WorkerOK, Carries, Idle
<1>d. Carries(RowDone(p), known, held)
  BY <1>0 DEF Carries, WorkerState, RowDone
<1>1. CASE FetchListFails(p)
  <2>1. Carries([me EXCEPT !.pc = "list"], known, held)
    BY <1>0 DEF Carries, WorkerState
  <2> QED
    BY <1>0, <1>1, <2>1, QuietGo DEF FetchListFails
<1>2. CASE SaveAnswerLost(p)
  <2>1. me.row.id \in Id
    BY <1>0, <1>2 DEF SaveAnswerLost, At, WorkerOK, WorkerState, DirtyRow
  <2>2. Grows /\ RowsKnown'
    BY <1>0, <1>2, <2>1
       DEF SaveAnswerLost, ServerTakes, StoreUnchanged, Grows, RowsKnown, StoreTypes
  <2>3. Carries(me, known', held')
    BY <1>0, <2>2, CarriesOn DEF WorkerOK
  <2>4. Carries(RowDone(p), known', held')
    BY <1>0, <2>3 DEF Carries, WorkerState, RowDone
  <2> QED
    BY <1>2, <2>2, <2>4, GoCarries DEF SaveAnswerLost
<1>3. CASE CallFails(p)
  BY <1>0, <1>3, <1>d, QuietGo DEF CallFails
<1>4. CASE Killed(p)
  BY <1>0, <1>4, QuietGo DEF Killed
<1> QED
  BY <1>1, <1>2, <1>3, <1>4 DEF Fails

LEMMA InitProvenance == Init => Provenance
<1> SUFFICES ASSUME Init PROVE Provenance
  OBVIOUS
<1>1. TypeInv
  BY InitType
<1>2. RowsKnown
  BY <1>1 DEF Init, RowsKnown, TypeInv, StoreTypes
<1>3. \A p \in Worker : Carries(w[p], known, held)
  BY DEF Init, Carries, Idle
<1> QED
  BY <1>1, <1>2, <1>3 DEF Provenance

LEMMA NextProvenance == Provenance /\ [Next]_vars => Provenance'
<1> SUFFICES ASSUME Provenance, [Next]_vars PROVE Provenance'
  OBVIOUS
<1>1. TypeInv'
  BY NextType DEF Provenance
<1>2. CASE UNCHANGED vars
  BY <1>1, <1>2 DEF vars, Provenance, RowsKnown
<1>3. CASE Next
  BY <1>1, <1>3, UserProvenance, StartProvenance, ProgressesProvenance, FailsProvenance
     DEF Next
<1> QED
  BY <1>2, <1>3

LEMMA ProvenanceInvariant == Spec => []Provenance
BY InitProvenance, NextProvenance, PTL DEF Spec

\* Every snapshot was on the server: no fault, kill, race or second process can
\* leave a merge base the server never held.
THEOREM SnapshotsComeFromTheServer == Spec => []SnapshotWasOnServer
<1>1. Provenance => SnapshotWasOnServer
  BY DEF Provenance, RowsKnown, SnapshotWasOnServer
<1> QED
  BY <1>1, ProvenanceInvariant, PTL

\* A step that writes the server is that of a worker saving its row.
LEMMA SaverWrites ==
    ASSUME TypeInv, Next, NEW p \in Worker, NEW i \in Id, ServerWrite(p, i)
    PROVE  w[p].row.id = i
<1>1. ~Local
  BY ZenonT(60) DEF ServerWrite, Local, AddToLibrary, SetListStatus, SetUserScore,
         RecordFinish, RecomputeProgress, DeleteShow, UserEdit, WriteRow
<1>2. ~Website
  BY DEF ServerWrite, Website, WebsiteEdit
<1>3. PICK q \in Worker :
         (\E mode \in Mode : Start(q, mode)) \/ Progresses(q) \/ Fails(q)
  BY <1>1, <1>2 DEF Next
<1>4. PICK r : Go(q, r)
  BY <1>3 DEF Start, Progresses, Fails, FetchList, ReconcilePlan, ApplyImport, ApplyRow,
              PullDone, ListDirty, NextRow, PushDone, Guard, Save, MarkSynced,
              RateLimited, FetchListFails, SaveAnswerLost, CallFails, Killed
<1>5. q = p
  BY <1>4 DEF Go, ServerWrite, TypeInv, WorkersOK
<1>6. Save(q) \/ SaveAnswerLost(q)
  BY <1>3 DEF ServerWrite, Start, Progresses, Fails, FetchList, ReconcilePlan,
              ApplyImport, ApplyRow, PullDone, ListDirty, NextRow, PushDone, Guard,
              MarkSynced, RateLimited, FetchListFails, CallFails, Killed
<1> QED
  BY <1>5, <1>6 DEF Save, SaveAnswerLost, ServerTakes, ServerWrite,
                    TypeInv, StoreTypes

\* A push overwrites nothing the library has not seen, but for an edit that
\* slips in between the guard and the save.
THEOREM PushIsGuarded == Spec => NoRemoteEditLost
<1> DEFINE Guarded ==
        \A p \in Worker, i \in Id :
            ServerWrite(p, i) =>
               \/ server[i] = None
               \/ server[i] \in known[i]
               \/ server[i] # w[p].seen
<1>1. Provenance /\ [Next]_vars => [Guarded]_vars
  <2> SUFFICES ASSUME Provenance, Next, NEW p \in Worker, NEW i \in Id, ServerWrite(p, i),
                      server[i] # None, server[i] = w[p].seen
               PROVE  server[i] \in known[i]
    BY DEF vars
  <2>1. /\ WorkerOK(w[p]) /\ Carries(w[p], known, held) /\ w[p].pc = "save"
    BY DEF Provenance, TypeInv, WorkersOK, ServerWrite
  <2>2. w[p].row.id = i
    BY <2>1, SaverWrites DEF Provenance
  <2>3. server[i] = w[p].row.synced
    BY <2>1, <2>2 DEF Carries, Writable
  <2> QED
    BY <2>1, <2>2, <2>3 DEF Carries
<1>2. Spec => [][Guarded]_vars
  BY <1>1, ProvenanceInvariant, PTL DEF Spec
<1> QED
  BY <1>2 DEF NoRemoteEditLost
-----------------------------------------------------------------------------
\* What is pushed is owed.

\* What a run carries for a row the user never touched leaves that row as its
\* snapshot has it; what it has to push the user touched, and its own pull did
\* not leave contended.
Owes(r, t) ==
    /\ \A i \in Id \ t : r.plan[i] # None => r.plan[i].merged = r.plan[i].snapshot
    /\ r.pc \in {"idle", "fetch", "plan", "apply", "list"} => r.todo = {}
    /\ \A d \in r.todo : d.id \in t \ r.contended
    /\ r.pc \in {"guard", "save", "mark"} => r.row.id \in t \ r.contended

UntouchedIsClean ==
    \A i \in Id \ touched : show[i] # None => show[i].synced = show[i].entry

Owed ==
    /\ TypeInv
    /\ UntouchedIsClean
    /\ \A p \in Worker : Owes(w[p], touched)

\* The rows the user touched only grow, so what a run owes it goes on owing.
LEMMA OwesOn ==
    ASSUME NEW r \in WorkerState, NEW t \in SUBSET Id, NEW u \in SUBSET Id, t \subseteq u,
           Owes(r, t)
    PROVE  Owes(r, u)
BY DEF Owes

LEMMA GoOwes ==
    ASSUME Owed, TypeInv', NEW p \in Worker, NEW r, Go(p, r),
           Owes(r, touched), UntouchedIsClean', UNCHANGED touched
    PROVE  Owed'
<1>1. \A q \in Worker : w'[q] = IF q = p THEN r ELSE w[q]
  BY DEF Go, Owed, TypeInv, WorkersOK
<1> QED
  BY <1>1 DEF Owed

LEMMA QuietOwes ==
    ASSUME Owed, TypeInv', NEW p \in Worker, NEW r, Go(p, r),
           Owes(r, touched), StoreUnchanged
    PROVE  Owed'
<1>1. UntouchedIsClean' /\ UNCHANGED touched
  BY DEF StoreUnchanged, UntouchedIsClean, Owed
<1> QED
  BY <1>1, GoOwes

LEMMA UserOwes ==
    ASSUME Owed, TypeInv', Local \/ Website
    PROVE  Owed'
<1>1. CASE Website
  BY <1>1 DEF Website, WebsiteEdit, Owed, UntouchedIsClean
<1>2. CASE Local
  <2> PICK i \in Id, r \in Row \cup {None} : WriteRow(i, r) /\ KeepsSnapshot(i, r)
    BY <1>2, LocalWrites DEF Owed
  <2>1. touched' = touched \cup {i} /\ touched \in SUBSET Id
    BY DEF WriteRow, Owed, TypeInv, StoreTypes
  <2>2. UntouchedIsClean'
    BY <2>1 DEF WriteRow, UntouchedIsClean, Owed, TypeInv, StoreTypes
  <2>3. ASSUME NEW q \in Worker PROVE Owes(w'[q], touched')
    <3>1. Owes(w[q], touched') /\ w[q] \in WorkerState
      BY <2>1, OwesOn DEF Owed, TypeInv, WorkersOK
    <3>2. ASSUME NEW g PROVE Owes([w[q] EXCEPT !.gone = g], touched')
      BY <3>1 DEF Owes, WorkerState
    <3> QED
      BY <1>2, <3>1, <3>2, LocalWrites DEF SameWorkers, Owed
  <2> QED
    BY <2>2, <2>3 DEF Owed
<1> QED
  BY <1>1, <1>2

LEMMA StartOwes ==
    ASSUME Owed, TypeInv', NEW p \in Worker, NEW mode \in Mode, Start(p, mode)
    PROVE  Owed'
<1> DEFINE pc == IF mode = "push" THEN "list" ELSE "fetch"
           r  == [Idle EXCEPT !.mode = mode, !.pc = pc]
<1>1. Owes(r, touched)
  BY DEF Owes, Idle
<1> QED
  BY <1>1, QuietOwes DEF Start

LEMMA ProgressesOwes ==
    ASSUME Owed, TypeInv', NEW p \in Worker, Progresses(p)
    PROVE  Owed'
<1> DEFINE me == w[p]
<1>0. /\ me \in WorkerState /\ Owes(me, touched) /\ Owes(Idle, touched)
      /\ UntouchedIsClean /\ StoreTypes /\ WorkerOK(me)
  BY DEF Owed, TypeInv, WorkersOK, Owes, Idle
<1>1. CASE FetchList(p)
  <2>1. Owes([me EXCEPT !.pc = "plan", !.remote = server], touched)
    BY <1>0, <1>1 DEF Owes, WorkerState, FetchList, At
  <2> QED
    BY <1>1, <2>1, QuietOwes DEF FetchList
<1>2. CASE ReconcilePlan(p)
  <2> DEFINE listed  == {i \in Id : me.remote[i] # None}
             plan    == [i \in Id |-> IF i \in listed /\ show[i] # None
                                      THEN PlanRow(i, me.remote[i]) ELSE None]
             imports == {i \in listed : show[i] = None /\ me.remote[i].status = Watching}
  <2>1. ASSUME NEW i \in Id \ touched, plan[i] # None
        PROVE  plan[i].merged = plan[i].snapshot
    <3> DEFINE remote == me.remote[i]
    <3>1. /\ show[i] \in Row /\ remote \in Entry
          /\ show[i].synced = show[i].entry /\ plan[i] = PlanRow(i, remote)
      BY <1>0, <2>1 DEF WorkerState, MaybeEntry, StoreTypes, UntouchedIsClean
    <3>2. show[i].entry \in Entry /\ show[i].entry # None
      BY <3>1, NoneAssumption DEF Row
    <3>3. Merged(show[i].synced, show[i].entry, remote) = remote
      BY <3>1, <3>2, UnmovedSideYields
    <3> HIDE DEF plan, remote
    <3> QED
      BY <2>1, <3>1, <3>3 DEF PlanRow, Reconcile
  <2>2. Go(p, [me EXCEPT !.pc = "apply", !.plan = plan, !.imports = imports])
    BY <1>2 DEF ReconcilePlan
  <2> HIDE DEF plan, imports
  <2>3. Owes([me EXCEPT !.pc = "apply", !.plan = plan, !.imports = imports], touched)
    BY <1>0, <1>2, <2>1 DEF Owes, WorkerState, ReconcilePlan, At
  <2> QED
    BY <1>2, <2>2, <2>3, QuietOwes DEF ReconcilePlan
<1>3. ASSUME NEW i \in Id, ApplyImport(p, i)
      PROVE  Owed'
  <2> DEFINE r == [me EXCEPT !.imports = @ \ {i}]
             c == [r EXCEPT !.contended = @ \cup {i}]
  <2>1. UntouchedIsClean'
    BY <1>0, <1>3 DEF ApplyImport, ImportedRow, NewRow, UntouchedIsClean, StoreTypes
  <2>2. Owes(r, touched) /\ Owes(c, touched)
    BY <1>0, <1>3 DEF Owes, WorkerState, ApplyImport, At
  <2> QED
    BY <1>3, <2>1, <2>2, GoOwes DEF ApplyImport
<1>4. ASSUME NEW i \in Id, ApplyRow(p, i)
      PROVE  Owed'
  <2> DEFINE t == me.plan[i]
             r == [me EXCEPT !.plan[i] = None]
             c == [r EXCEPT !.contended = @ \cup {i}]
  <2>1. i \notin touched => t.merged = t.snapshot
    BY <1>0, <1>4 DEF ApplyRow, Owes
  <2>2. UntouchedIsClean'
    BY <1>0, <1>4, <2>1 DEF ApplyRow, NewRow, UntouchedIsClean, StoreTypes
  <2>3. Owes(r, touched) /\ Owes(c, touched)
    BY <1>0, <1>4 DEF Owes, WorkerState, ApplyRow, At
  <2> QED
    BY <1>4, <2>2, <2>3, GoOwes DEF ApplyRow
<1>5. CASE PullDone(p)
  <2>1. Owes([me EXCEPT !.pc = "list", !.remote = Idle.remote], touched)
    BY <1>0, <1>5 DEF Owes, WorkerState, PullDone, At
  <2> QED
    BY <1>0, <1>5, <2>1, QuietOwes DEF PullDone
<1>6. CASE ListDirty(p)
  <2>1. \A d \in WorkList(me.contended) : d.id \in touched \ me.contended
    BY <1>0 DEF WorkList, Dirty, UntouchedIsClean
  <2>2. Owes([me EXCEPT !.pc = "next", !.todo = WorkList(me.contended)], touched)
    BY <1>0, <2>1 DEF Owes, WorkerState
  <2> QED
    BY <1>6, <2>2, QuietOwes DEF ListDirty
<1>7. ASSUME NEW d \in me.todo, NextRow(p, d)
      PROVE  Owed'
  <2>1. Owes([me EXCEPT !.pc = "guard", !.row = d, !.todo = @ \ {d}], touched)
    BY <1>0 DEF Owes, WorkerState
  <2> QED
    BY <1>7, <2>1, QuietOwes DEF NextRow
<1>8. CASE PushDone(p)
  BY <1>0, <1>8, QuietOwes DEF PushDone
<1>d. ASSUME me.pc \in {"guard", "save", "mark"} PROVE Owes(RowDone(p), touched)
  BY <1>0, <1>d DEF Owes, WorkerState, RowDone
<1>9. CASE Guard(p)
  <2> DEFINE seen == server[me.row.id]
  <2>1. Owes([me EXCEPT !.pc = "save", !.seen = seen], touched)
    BY <1>0, <1>9 DEF Owes, WorkerState, Guard, At
  <2> QED
    BY <1>9, <1>d, <2>1, QuietOwes DEF Guard, At
<1>10. CASE Save(p)
  <2>1. Owes([me EXCEPT !.pc = "mark"], touched)
    BY <1>0, <1>10 DEF Owes, WorkerState, Save, At
  <2> QED
    BY <1>10, <2>1, QuietOwes DEF Save
<1>11. CASE MarkSynced(p)
  <2>1. me.row.id \in touched
    BY <1>0, <1>11 DEF MarkSynced, At, Owes
  <2>2. UntouchedIsClean'
    BY <1>0, <1>11, <2>1 DEF MarkSynced, UntouchedIsClean, StoreTypes
  <2> QED
    BY <1>11, <1>d, <2>2, GoOwes DEF MarkSynced, At
<1>12. CASE RateLimited(p)
  <2>1. Owes(Backoff(p), touched)
    BY <1>0, <1>12 DEF Owes, WorkerState, RateLimited, Backoff
  <2> QED
    BY <1>0, <1>12, <2>1, QuietOwes DEF RateLimited
<1> QED
  BY <1>1, <1>2, <1>3, <1>4, <1>5, <1>6, <1>7, <1>8, <1>9, <1>10, <1>11, <1>12
     DEF Progresses

LEMMA FailsOwes ==
    ASSUME Owed, TypeInv', NEW p \in Worker, Fails(p)
    PROVE  Owed'
<1> DEFINE me == w[p]
<1>0. me \in WorkerState /\ Owes(me, touched) /\ Owes(Idle, touched)
  BY DEF Owed, TypeInv, WorkersOK, Owes, Idle
<1>d. ASSUME me.pc \in {"guard", "save", "mark"} PROVE Owes(RowDone(p), touched)
  BY <1>0, <1>d DEF Owes, WorkerState, RowDone
<1>1. CASE FetchListFails(p)
  <2>1. Owes([me EXCEPT !.pc = "list"], touched)
    BY <1>0, <1>1 DEF Owes, WorkerState, FetchListFails, At
  <2> QED
    BY <1>0, <1>1, <2>1, QuietOwes DEF FetchListFails
<1>2. CASE SaveAnswerLost(p)
  BY <1>2, <1>d, QuietOwes DEF SaveAnswerLost, At
<1>3. CASE CallFails(p)
  BY <1>0, <1>3, <1>d, QuietOwes DEF CallFails
<1>4. CASE Killed(p)
  BY <1>0, <1>4, QuietOwes DEF Killed
<1> QED
  BY <1>1, <1>2, <1>3, <1>4 DEF Fails

LEMMA OwedInvariant == Spec => []Owed
<1>1. Init => Owed
  BY InitType DEF Init, Owed, UntouchedIsClean, Owes, Idle
<1>2. Owed /\ [Next]_vars => Owed'
  <2> SUFFICES ASSUME Owed, [Next]_vars PROVE Owed'
    OBVIOUS
  <2>1. TypeInv'
    BY NextType DEF Owed
  <2>2. CASE UNCHANGED vars
    BY <2>1, <2>2 DEF vars, Owed, UntouchedIsClean
  <2>3. CASE Next
    BY <2>1, <2>3, UserOwes, StartOwes, ProgressesOwes, FailsOwes DEF Next
  <2> QED
    BY <2>2, <2>3
<1> QED
  BY <1>1, <1>2, PTL DEF Spec

\* Only rows the user touched are pushed, and none that the pull of the same run
\* left contended, whatever edits, faults and other processes come between.
THEOREM OnlyEditsArePushed == Spec => PushesAreOwed
<1> DEFINE Owing ==
        \A p \in Worker, i \in Id :
            ServerWrite(p, i) => i \in touched \ w[p].contended
<1>1. Owed /\ [Next]_vars => [Owing]_vars
  <2> SUFFICES ASSUME Owed, Next, NEW p \in Worker, NEW i \in Id, ServerWrite(p, i)
               PROVE  i \in touched \ w[p].contended
    BY DEF vars
  <2>1. w[p].row.id = i /\ w[p].pc = "save"
    BY SaverWrites DEF Owed, ServerWrite
  <2> QED
    BY <2>1 DEF Owed, Owes
<1>2. Spec => [][Owing]_vars
  BY <1>1, OwedInvariant, PTL DEF Spec
<1> QED
  BY <1>2 DEF PushesAreOwed

-----------------------------------------------------------------------------
\* What the user moved survives a run, when no other process runs beside it.

\* The plan a run applies is the merge of the row it still finds: with the row's
\* snapshot, from the entry that is its guard.  A row deleted since is not.
Merges(plan, row) ==
    \E remote \in Entry : plan.merged = Merged(row.synced, plan.guard, remote)

Plans(r, s) ==
    /\ r.pc # "apply" => \A i \in Id : r.plan[i] = None
    /\ \A i \in r.imports : r.plan[i] = None
    /\ \A i \in Id \ r.gone :
          r.plan[i] # None => s[i] # None /\ Merges(r.plan[i], s[i])

Planned ==
    /\ TypeInv
    /\ \A p \in Worker : Plans(w[p], show)

\* One process, and the rows a step of it leaves alone.
LEMMA GoPlans ==
    ASSUME Planned, TypeInv', NEW p \in Worker, \A q \in Worker : q = p,
           NEW r, Go(p, r), Plans(r, show')
    PROVE  Planned'
<1>1. \A q \in Worker : w'[q] = r
  BY DEF Go, Planned, TypeInv, WorkersOK
<1> QED
  BY <1>1 DEF Planned

\* An edit leaves the snapshot of a row it keeps; a row that goes is noted by
\* the run that is on.
LEMMA LocalNotes ==
    ASSUME TypeInv, Local, NEW p \in Worker
    PROVE  /\ w'[p].pc = w[p].pc /\ w'[p].plan = w[p].plan /\ w'[p].imports = w[p].imports
           /\ w[p].gone \subseteq w'[p].gone
           /\ \A i \in Id : show[i] # None /\ show'[i] = None /\ w[p].pc # "idle"
                              => i \in w'[p].gone
           /\ \A i \in Id : show[i] # None /\ show'[i] # None
                              => show'[i].synced = show[i].synced
<1>0. w[p] \in WorkerState /\ show \in [Id -> Row \cup {None}] /\ w \in [Worker -> WorkerState]
  BY DEF TypeInv, WorkersOK, StoreTypes
<1>1. CASE \E i \in Id, r \in Row : UserEdit(i, r) /\ KeepsSnapshot(i, r)
  <2> PICK i \in Id, r \in Row : UserEdit(i, r) /\ KeepsSnapshot(i, r)
    BY <1>1
  <2>1. r # None
    BY NoRecordAssumption
  <2> QED
    BY <1>0, <2>1 DEF UserEdit, WriteRow, KeepsSnapshot
<1>2. CASE \E i \in Id : DeleteShow(i)
  <2> PICK i \in Id : DeleteShow(i)
    BY <1>2
  <2>1. show' = [show EXCEPT ![i] = None]
    BY DEF DeleteShow, WriteRow
  <2>2. w'[p] = IF w[p].pc = "idle" THEN w[p] ELSE [w[p] EXCEPT !.gone = @ \cup {i}]
    BY DEF DeleteShow
  <2>3. /\ w'[p].pc = w[p].pc /\ w'[p].plan = w[p].plan /\ w'[p].imports = w[p].imports
        /\ w'[p].gone = IF w[p].pc = "idle" THEN w[p].gone ELSE w[p].gone \cup {i}
    BY <1>0, <2>2 DEF WorkerState
  <2> QED
    BY <1>0, <2>1, <2>3
<1> QED
  BY <1>1, <1>2, EditOrDelete

LEMMA LocalPlans ==
    ASSUME Planned, TypeInv', Local
    PROVE  Planned'
<1> SUFFICES ASSUME NEW p \in Worker PROVE Plans(w'[p], show')
  BY DEF Planned
<1>1. Plans(w[p], show) /\ TypeInv
  BY DEF Planned
<1>2. ASSUME NEW i \in Id \ w'[p].gone, w[p].plan[i] # None
      PROVE  show'[i] # None /\ Merges(w[p].plan[i], show'[i])
  <2>1. w[p].pc = "apply" /\ i \notin w[p].gone
    BY <1>1, <1>2, LocalNotes DEF Plans
  <2>2. show[i] # None /\ Merges(w[p].plan[i], show[i])
    BY <1>1, <1>2, <2>1 DEF Plans
  <2>3. show'[i] # None /\ show'[i].synced = show[i].synced
    BY <1>1, <2>1, <2>2, LocalNotes
  <2> QED
    BY <2>2, <2>3 DEF Merges
<1> QED
  BY <1>1, <1>2, LocalNotes DEF Plans

LEMMA ProgressesPlans ==
    ASSUME Planned, TypeInv', NEW p \in Worker, \A q \in Worker : q = p, Progresses(p)
    PROVE  Planned'
<1> DEFINE me == w[p]
<1>0. /\ me \in WorkerState /\ Plans(me, show) /\ Plans(Idle, show)
      /\ StoreTypes /\ WorkerOK(me)
  BY DEF Planned, TypeInv, WorkersOK, Plans, Idle
<1>1. CASE FetchList(p)
  <2>1. Plans([me EXCEPT !.pc = "plan", !.remote = server], show')
    BY <1>0, <1>1 DEF Plans, WorkerState, FetchList, At, StoreUnchanged
  <2> QED
    BY <1>1, <2>1, GoPlans DEF FetchList
<1>2. CASE ReconcilePlan(p)
  <2> DEFINE listed  == {i \in Id : me.remote[i] # None}
             plan    == [i \in Id |-> IF i \in listed /\ show[i] # None
                                      THEN PlanRow(i, me.remote[i]) ELSE None]
             imports == {i \in listed : show[i] = None /\ me.remote[i].status = Watching}
  <2>1. ASSUME NEW i \in Id, plan[i] # None
        PROVE  show[i] # None /\ Merges(plan[i], show[i])
    <3>1. show[i] # None /\ me.remote[i] \in Entry /\ plan[i] = PlanRow(i, me.remote[i])
      BY <1>0, <2>1 DEF WorkerState, MaybeEntry
    <3>2. /\ plan[i].guard = show[i].entry
          /\ plan[i].merged = Merged(show[i].synced, show[i].entry, me.remote[i])
      BY <2>1, <3>1 DEF PlanRow, Reconcile
    <3> HIDE DEF plan
    <3> QED
      BY <3>1, <3>2 DEF Merges
  <2>2. \A i \in imports : plan[i] = None
    OBVIOUS
  <2>3. Go(p, [me EXCEPT !.pc = "apply", !.plan = plan, !.imports = imports])
    BY <1>2 DEF ReconcilePlan
  <2> HIDE DEF plan, imports
  <2>4. Plans([me EXCEPT !.pc = "apply", !.plan = plan, !.imports = imports], show')
    BY <1>0, <1>2, <2>1, <2>2 DEF Plans, WorkerState, ReconcilePlan, StoreUnchanged
  <2> QED
    BY <2>3, <2>4, GoPlans
<1>3. ASSUME NEW i \in Id, ApplyImport(p, i)
      PROVE  Planned'
  <2> DEFINE r == [me EXCEPT !.imports = @ \ {i}]
             c == [r EXCEPT !.contended = @ \cup {i}]
  <2>1. me.plan[i] = None /\ \A j \in Id \ {i} : show'[j] = show[j]
    BY <1>0, <1>3 DEF ApplyImport, Plans, StoreTypes
  <2>2. Plans(r, show') /\ Plans(c, show')
    BY <1>0, <1>3, <2>1 DEF Plans, WorkerState, ApplyImport, At
  <2> QED
    BY <1>3, <2>2, GoPlans DEF ApplyImport
<1>4. ASSUME NEW i \in Id, ApplyRow(p, i)
      PROVE  Planned'
  <2> DEFINE r == [me EXCEPT !.plan[i] = None]
             c == [r EXCEPT !.contended = @ \cup {i}]
  <2>1. \A j \in Id \ {i} : show'[j] = show[j]
    BY <1>0, <1>4 DEF ApplyRow, StoreTypes
  <2>2. Plans(r, show') /\ Plans(c, show')
    BY <1>0, <1>4, <2>1 DEF Plans, WorkerState, ApplyRow, At
  <2> QED
    BY <1>4, <2>2, GoPlans DEF ApplyRow
<1>5. CASE PullDone(p)
  <2>1. Plans([me EXCEPT !.pc = "list", !.remote = Idle.remote], show')
    BY <1>0, <1>5 DEF Plans, WorkerState, WorkerOK, PullDone, StoreUnchanged
  <2>2. Plans(Idle, show')
    BY <1>0, <1>5 DEF PullDone, StoreUnchanged
  <2> QED
    BY <1>5, <2>1, <2>2, GoPlans DEF PullDone
<1>n. ASSUME me.pc # "apply", NEW r, r.pc # "apply", r.plan = me.plan,
             r.imports = me.imports, r.gone = me.gone
      PROVE  \A s : Plans(r, s)
  BY <1>0, <1>n DEF Plans, WorkerOK
<1>m. \A s : Plans(Idle, s)
  BY DEF Plans, Idle
<1>6. CASE ListDirty(p)
  <2>1. Plans([me EXCEPT !.pc = "next", !.todo = WorkList(me.contended)], show')
    BY <1>0, <1>n, <1>6 DEF ListDirty, At, WorkerState
  <2> QED
    BY <1>6, <2>1, GoPlans DEF ListDirty
<1>7. ASSUME NEW d \in me.todo, NextRow(p, d)
      PROVE  Planned'
  <2>1. Plans([me EXCEPT !.pc = "guard", !.row = d, !.todo = @ \ {d}], show')
    BY <1>0, <1>n, <1>7 DEF NextRow, At, WorkerState
  <2> QED
    BY <1>7, <2>1, GoPlans DEF NextRow
<1>8. CASE PushDone(p)
  BY <1>8, <1>m, GoPlans DEF PushDone
<1>d. ASSUME me.pc # "apply" PROVE \A s : Plans(RowDone(p), s)
  BY <1>0, <1>d, <1>n DEF RowDone, WorkerState
<1>9. CASE Guard(p)
  <2> DEFINE seen == server[me.row.id]
  <2>1. Plans([me EXCEPT !.pc = "save", !.seen = seen], show')
    BY <1>0, <1>n, <1>9 DEF Guard, At, WorkerState
  <2> QED
    BY <1>9, <1>d, <2>1, GoPlans DEF Guard, At
<1>10. CASE Save(p)
  <2>1. Plans([me EXCEPT !.pc = "mark"], show')
    BY <1>0, <1>n, <1>10 DEF Save, At, WorkerState
  <2> QED
    BY <1>10, <2>1, GoPlans DEF Save
<1>11. CASE MarkSynced(p)
  BY <1>11, <1>d, GoPlans DEF MarkSynced, At
<1>12. CASE RateLimited(p)
  <2>1. Plans(Backoff(p), show')
    BY <1>0, <1>n, <1>12 DEF RateLimited, Backoff, WorkerState
  <2> QED
    BY <1>m, <1>12, <2>1, GoPlans DEF RateLimited
<1> QED
  BY <1>1, <1>2, <1>3, <1>4, <1>5, <1>6, <1>7, <1>8, <1>9, <1>10, <1>11, <1>12
     DEF Progresses

LEMMA FailsPlans ==
    ASSUME Planned, TypeInv', NEW p \in Worker, \A q \in Worker : q = p, Fails(p)
    PROVE  Planned'
<1> DEFINE me == w[p]
<1>0. me \in WorkerState /\ Plans(me, show) /\ WorkerOK(me)
  BY DEF Planned, TypeInv, WorkersOK
<1>m. \A s : Plans(Idle, s)
  BY DEF Plans, Idle
<1>d. ASSUME me.pc # "apply" PROVE \A s : Plans(RowDone(p), s)
  BY <1>0, <1>d DEF Plans, WorkerOK, RowDone, WorkerState
<1>1. CASE FetchListFails(p)
  <2>1. Plans([me EXCEPT !.pc = "list"], show')
    BY <1>0, <1>1 DEF Plans, WorkerOK, WorkerState, FetchListFails, At
  <2> QED
    BY <1>1, <1>m, <2>1, GoPlans DEF FetchListFails
<1>2. CASE SaveAnswerLost(p)
  BY <1>2, <1>d, GoPlans DEF SaveAnswerLost, At
<1>3. CASE CallFails(p)
  BY <1>3, <1>d, <1>m, GoPlans DEF CallFails
<1>4. CASE Killed(p)
  BY <1>4, <1>m, GoPlans DEF Killed
<1> QED
  BY <1>1, <1>2, <1>3, <1>4 DEF Fails

LEMMA PlannedInvariant ==
    ASSUME \A p, q \in Worker : p = q
    PROVE  Spec => []Planned
<1>1. Init => Planned
  BY InitType DEF Init, Planned, Plans, Idle
<1>2. Planned /\ [Next]_vars => Planned'
  <2> SUFFICES ASSUME Planned, [Next]_vars PROVE Planned'
    OBVIOUS
  <2>1. TypeInv'
    BY NextType DEF Planned
  <2>2. CASE UNCHANGED vars
    BY <2>1, <2>2 DEF vars, Planned
  <2>3. CASE Website
    BY <2>1, <2>3 DEF Website, WebsiteEdit, Planned
  <2>4. ASSUME NEW p \in Worker, NEW mode \in Mode, Start(p, mode)
        PROVE  Planned'
    <3> DEFINE r == [Idle EXCEPT !.mode = mode,
                                 !.pc = IF mode = "push" THEN "list" ELSE "fetch"]
    <3>1. Plans(r, show')
      BY DEF Plans, Idle
    <3> QED
      BY <2>1, <2>4, <3>1, GoPlans DEF Start
  <2>5. ASSUME NEW p \in Worker, Progresses(p) \/ Fails(p)
        PROVE  Planned'
    BY <2>1, <2>5, ProgressesPlans, FailsPlans
  <2> QED
    BY <2>1, <2>2, <2>3, <2>4, <2>5, LocalPlans DEF Next
<1> QED
  BY <1>1, <1>2, PTL DEF Spec

\* A library with one sync process: no step of it takes back what the user
\* changed since the snapshot, for any shows, statuses, scores and bounds.
THEOREM LocalMovesAreKept ==
    ASSUME \A p, q \in Worker : p = q
    PROVE  Spec => [][LocalMovesKept]_vars
<1>1. Planned /\ [Next]_vars => [LocalMovesKept]_vars
  <2> SUFFICES ASSUME Planned, Next, NEW p \in Worker, NEW i \in Id,
                      SyncWrite(p, i), i \notin w[p].gone
               PROVE  LET base == EffectiveBase(show[i].synced)
                          old  == show[i].entry
                          new  == show'[i].entry
                      IN  /\ old.status # base.status => new.status = old.status
                          /\ old.progress # base.progress => new.progress >= old.progress
                          /\ old.score # base.score /\ i \notin w[p].imports =>
                                 new.score \in {old.score, Stored[old.score]}
    BY DEF vars, LocalMovesKept
  <2>0. /\ TypeInv /\ w[p] \in WorkerState /\ Plans(w[p], show)
        /\ show \in [Id -> Row \cup {None}] /\ show[i] \in Row
    BY DEF Planned, TypeInv, WorkersOK, StoreTypes, SyncWrite
  <2>1. ~Local
    BY <2>0, LocalWrites, AniListSyncAssumption DEF WriteRow, SyncWrite, TypeInv, StoreTypes
  <2>2. Progresses(p) \/ Fails(p)
    BY <2>1 DEF Next, Website, WebsiteEdit, SyncWrite, Start, StoreUnchanged
  <2>3. \/ \E j \in Id : ApplyImport(p, j) \/ ApplyRow(p, j)
        \/ MarkSynced(p)
    BY <2>2 DEF SyncWrite, StoreUnchanged, Progresses, Fails, FetchList, ReconcilePlan,
                PullDone, ListDirty, NextRow, PushDone, Guard, Save, RateLimited,
                FetchListFails, SaveAnswerLost, CallFails, Killed
  <2>4. ASSUME NEW j \in Id, ApplyImport(p, j)
        PROVE  /\ j = i /\ i \in w[p].imports
               /\ show[i].entry.status = EffectiveBase(show[i].synced).status
               /\ show[i].entry.progress = EffectiveBase(show[i].synced).progress
    BY <2>0, <2>4 DEF ApplyImport, SyncWrite, Mintable, EffectiveBase, DefaultEntry
  <2>5. ASSUME NEW j \in Id, ApplyRow(p, j)
        PROVE  \E remote \in Entry :
                 show'[i].entry = Merged(show[i].synced, show[i].entry, remote)
    <3>1. j = i /\ w[p].plan[i] # None /\ show[i].entry = w[p].plan[i].guard
      BY <2>0, <2>5 DEF ApplyRow, SyncWrite, StillAsPlanned
    <3>2. show'[i].entry = w[p].plan[i].merged
      BY <2>0, <2>5, <3>1 DEF ApplyRow, SyncWrite, NewRow
    <3> QED
      BY <2>0, <3>1, <3>2 DEF Plans, Merges
  <2>6. ASSUME MarkSynced(p)
        PROVE  /\ show'[i].entry.status = show[i].entry.status
               /\ show'[i].entry.progress = show[i].entry.progress
               /\ show'[i].entry.score \in {show[i].entry.score, Stored[show[i].entry.score]}
    <3>1. show'[i] = Marked(show[i], w[p].row.entry)
      BY <2>0, <2>6 DEF MarkSynced, SyncWrite
    <3>2. show'[i].entry = [show[i].entry EXCEPT
             !.score = AdoptedScore(show[i].entry.score, w[p].row.entry)]
      BY <3>1 DEF Marked
    <3> QED
      BY <2>0, <3>2 DEF AdoptedScore, Row, Entry
  <2>7. show[i].synced \in MaybeEntry /\ show[i].entry \in Entry
    BY <2>0 DEF Row
  <2>8. show[i].entry.progress >= show[i].entry.progress
    BY <2>7 DEF Entry, Progress
  <2> QED
    BY <2>3, <2>4, <2>5, <2>6, <2>7, <2>8, MergeKeepsLocalMoves
<1>2. Spec => []Planned
  BY PlannedInvariant
<1> QED
  BY <1>1, <1>2, PTL DEF Spec
=============================================================================
