-------------------------- MODULE MalMirrorProofs --------------------------
(* Theorems about MalMirror for any library, any statuses and scores, any    *)
(* rounding of scores by the two sites and any bounds.                       *)
EXTENDS MalMirror, TLAPS

Stage == {"idle", "token", "fetch", "plan", "apply", "save", "anilist", "list",
          "next", "guard", "put", "mark", "post"}

Outcome == {"ok", "failed", "unauthorized"}

Run == [pc : Stage, auth : Nat, rolled : BOOLEAN, outcome : Outcome,
        unsaved : BOOLEAN, remote : [Id -> MalEntry \cup {None}],
        plan : [Id -> PlannedRow \cup {None}], imports : SUBSET Id,
        backfill : SUBSET Id, todo : SUBSET DirtyRow,
        row : DirtyRow \cup {None}, seen : MalEntry \cup {None}]

StoreTypes ==
    /\ show \in [Id -> Row \cup {None}]
    /\ ani \in [Id -> AniEntry \cup {None}]
    /\ mal \in [Id -> MalEntry \cup {None}]
    /\ known \in [Id -> SUBSET MalEntry]

\* What is planned and imported came with the list that was fetched, and nothing
\* is planned outside the step that applies it.
PlanIsOfTheList ==
    /\ \A i \in Id : w.plan[i] # None => w.plan[i].snapshot = w.remote[i]
    /\ \A i \in w.imports : w.remote[i] # None /\ w.plan[i] = None
    /\ w.pc # "apply" => w.imports = {} /\ \A i \in Id : w.plan[i] = None
    /\ w.pc \in {"guard", "put", "mark"} => w.row # None
    /\ w.pc = "mark" => w.row.id \in Id

TypeOK ==
    /\ StoreTypes
    /\ live \in Nat /\ disk \in Nat /\ mem \in Nat
    /\ access \in {"good", "dated", "retired"}
    /\ w \in Run
    /\ lost \in BOOLEAN /\ calm \in BOOLEAN

-----------------------------------------------------------------------------
\* What the operators return.

\* The merge of two entries (ListMerge).
LEMMA DefaultEntryType == DefaultEntry \in Entry
BY ListMergeAssumption DEF DefaultEntry, Entry, Progress

\* The base a merge runs on is an entry, whether or not there is a snapshot.
LEMMA EffectiveBaseType ==
    ASSUME NEW base \in MaybeEntry
    PROVE  EffectiveBase(base) \in Entry
BY DefaultEntryType DEF EffectiveBase, MaybeEntry

LEMMA MergeProgressType ==
    ASSUME NEW b \in Progress, NEW l \in Progress, NEW r \in Progress
    PROVE  MergeProgress(b, l, r) \in Progress
BY DEF MergeProgress

\* A merge of entries is an entry.
LEMMA MergedType ==
    ASSUME NEW base \in MaybeEntry, NEW local \in Entry, NEW remote \in Entry
    PROVE  Merged(base, local, remote) \in Entry
<1> DEFINE b == EffectiveBase(base)
<1>1. b \in Entry
  BY EffectiveBaseType
<1>2. MergeLocalWins(b.status, local.status, remote.status) \in Status
  BY <1>1 DEF MergeLocalWins, Entry
<1>3. MergeProgress(b.progress, local.progress, remote.progress) \in Progress
  BY <1>1, MergeProgressType DEF Entry
<1>4. MergeLocalWins(b.score, local.score, remote.score) \in Score
  BY <1>1 DEF MergeLocalWins, Entry
<1> QED
  BY <1>2, <1>3, <1>4 DEF Merged, Entry

LEMMA MalEntries == MalEntry \subseteq Entry /\ None \notin MalEntry
BY NoneAssumption DEF MalEntry

LEMMA AniEntries == AniEntry \subseteq Entry /\ None \notin AniEntry
BY NoneAssumption DEF AniEntry

LEMMA PairOfEntry ==
    ASSUME NEW e \in Entry
    PROVE  PairOf(e) \in Pair /\ PairOf(e) # None
BY NoneIsNothing DEF PairOf, Pair, Entry

\* A score rounded by MAL is one MAL keeps.
LEMMA RoundedScore ==
    ASSUME NEW s \in Score
    PROVE  /\ MalScore[s] \in Score /\ MalScore[MalScore[s]] = MalScore[s]
           /\ AniScore[s] \in Score /\ AniScore[AniScore[s]] = AniScore[s]
BY MalMirrorAssumption

LEMMA NewRowType ==
    ASSUME NEW linked \in BOOLEAN
    PROVE  NewRow(linked) \in Row /\ NewRow(linked) # None
BY DefaultEntryType, NoneIsNothing DEF NewRow, Row, MaybeEntry

LEMMA RowIsNotNone == \A r \in Row : r # None
BY NoneIsNothing

LEMMA SnapshottedType ==
    ASSUME NEW r \in Row, NEW e \in MalEntry
    PROVE  /\ Snapshotted(r, e) \in Row
           /\ Snapshotted(r, e).entry = r.entry
           /\ Snapshotted(r, e).synced = r.synced
           /\ Snapshotted(r, e).linked = r.linked
           /\ Snapshotted(r, e).pair = PairOf(e)
           /\ Snapshotted(r, e).score = e.score
<1>1. e \in Entry /\ MalScore[e.score] = e.score /\ e.score \in Score
  BY DEF MalEntry, Entry
<1>2. PairOf(e) \in Pair
  BY <1>1, PairOfEntry
<1>3. Snapshotted(r, e) = [r EXCEPT !.pair = PairOf(e), !.score = e.score]
  BY <1>1 DEF Snapshotted
<1> QED
  BY <1>1, <1>2, <1>3 DEF Row

LEMMA MalBaseType ==
    ASSUME NEW r \in Row
    PROVE  MalBase(r) \in MaybeEntry
<1>1. 0 \in Score
  BY ListMergeAssumption
<1> QED
  BY <1>1 DEF MalBase, Row, Pair, Entry, MaybeEntry, Unscored

LEMMA PlanRowType ==
    ASSUME NEW r \in Row, NEW remote \in MalEntry
    PROVE  /\ PlanRow(r, remote) \in PlannedRow \cup {None}
           /\ PlanRow(r, remote) # None =>
                 /\ PlanRow(r, remote).guard = r.entry
                 /\ PlanRow(r, remote).snapshot = remote
           /\ PlanRow(r, remote) = None => MalBase(r) = remote
<1> DEFINE m == Merged(MalBase(r), r.entry, remote)
           p == [guard |-> r.entry, merged |-> m, snapshot |-> remote]
<1>1. m \in Entry
  BY MergedType, MalBaseType, MalEntries DEF Row
<1>2. p \in PlannedRow
  BY <1>1 DEF PlannedRow, Row
<1>3. PlanRow(r, remote) = IF m = r.entry /\ MalBase(r) = remote THEN None ELSE p
  BY DEF PlanRow, Reconcile
<1> QED
  BY <1>2, <1>3, NoneIsNothing DEF PlannedRow

LEMMA PullEndsType ==
    ASSUME w \in Run, NEW o \in Outcome
    PROVE  LET e == PullEnds(o) IN
           /\ e \in Run
           /\ e.pc = (IF w.rolled THEN "save" ELSE "anilist") /\ e.outcome = o
           /\ e.auth = w.auth /\ e.rolled = w.rolled /\ e.unsaved = w.unsaved
           /\ e.remote = w.remote /\ e.plan = w.plan /\ e.imports = w.imports
           /\ e.todo = w.todo /\ e.row = w.row /\ e.seen = w.seen
BY DEF PullEnds, Run, Stage

LEMMA IdleType == Idle \in Run
BY DEF Idle, Run, Stage, Outcome

IInv == TypeOK /\ PlanIsOfTheList

LEMMA InitInv == Init => IInv
<1> SUFFICES ASSUME Init PROVE IInv
  OBVIOUS
<1>1. StoreTypes
  BY DEF Init, StoreTypes
<1>2. w \in Run
  BY IdleType DEF Init
<1>3. PlanIsOfTheList
  BY DEF Init, PlanIsOfTheList, Idle
<1> QED
  BY <1>1, <1>2, <1>3 DEF Init, IInv, TypeOK

\* An edit of a row in the library.
LEMMA LocalInv == IInv /\ Local => IInv'
<1> SUFFICES ASSUME IInv, Local PROVE IInv'
  OBVIOUS
<1>1. PICK i \in Id, row \in Row : Edit(i, row)
  <2>1. PICK i \in Id :
          \/ show[i] = None /\ \E linked \in BOOLEAN : Edit(i, NewRow(linked))
          \/ /\ show[i] # None
             /\ \/ \E s \in Status : Edit(i, [show[i] EXCEPT !.entry.status = s])
                \/ \E p \in Progress : Edit(i, [show[i] EXCEPT !.entry.progress = p])
                \/ \E sc \in Score : Edit(i, [show[i] EXCEPT !.entry.score = sc])
    BY DEF Local
  <2>2. show[i] # None => show[i] \in Row
    BY DEF IInv, TypeOK, StoreTypes
  <2>3. show[i] # None =>
          /\ \A s \in Status : [show[i] EXCEPT !.entry.status = s] \in Row
          /\ \A p \in Progress : [show[i] EXCEPT !.entry.progress = p] \in Row
          /\ \A sc \in Score : [show[i] EXCEPT !.entry.score = sc] \in Row
    BY <2>2 DEF Row, Entry
  <2> QED
    BY <2>1, <2>3, NewRowType
<1>2. show' \in [Id -> Row \cup {None}]
  BY <1>1 DEF Edit, IInv, TypeOK, StoreTypes
<1> QED
  BY <1>1, <1>2 DEF Edit, IInv, TypeOK, StoreTypes, PlanIsOfTheList, sites, tokens

\* Outside the plan, the steps leave what is planned as it is.
LEMMA PlanKept ==
    ASSUME PlanIsOfTheList, w.pc # "apply",
           w'.pc \notin {"apply", "guard", "put", "mark"},
           w'.plan = w.plan, w'.remote = w.remote, w'.imports = w.imports
    PROVE  PlanIsOfTheList'
BY DEF PlanIsOfTheList


LEMMA WebsiteInv == IInv /\ Website => IInv'
<1> SUFFICES ASSUME IInv, Website PROVE IInv'
  OBVIOUS
<1>1. mal' \in [Id -> MalEntry \cup {None}] /\ ani' \in [Id -> AniEntry \cup {None}]
  BY DEF Website, IInv, TypeOK, StoreTypes
<1> QED
  BY <1>1 DEF Website, IInv, TypeOK, StoreTypes, PlanIsOfTheList, rows, tokens

LEMMA TokenAgesInv == IInv /\ TokenAges => IInv'
BY DEF TokenAges, IInv, TypeOK, StoreTypes, PlanIsOfTheList, rows, sites

LEMMA StartInv == IInv /\ Start => IInv'
<1> SUFFICES ASSUME IInv, Start PROVE IInv'
  OBVIOUS
<1> DEFINE f == [Idle EXCEPT !.pc = "token", !.auth = mem]
<1>1. /\ f \in Run /\ f.pc = "token" /\ f.imports = {}
      /\ \A i \in Id : f.plan[i] = None
  BY DEF IInv, TypeOK, Stage, Run, Idle, Outcome
<1>2. w' = f
  BY DEF Start, Go
<1>3. PlanIsOfTheList'
  BY <1>1, <1>2 DEF PlanIsOfTheList
<1> QED
  BY <1>1, <1>2, <1>3 DEF Start, IInv, TypeOK, StoreTypes, rows, sites, tokens

\* A roll leaves the plan alone, whatever it comes to.
LEMMA RollInv ==
    ASSUME IInv, w.pc \in {"token", "fetch"}, Roll
    PROVE  /\ w' \in Run
           /\ PlanIsOfTheList'
           /\ live' \in Nat /\ access' \in {"good", "dated", "retired"}
           /\ lost' \in BOOLEAN /\ calm' \in BOOLEAN
           /\ disk' = disk /\ mem' = mem
<1>0. live + 1 \in Nat
  BY DEF IInv, TypeOK
<1>1. CASE Rolls
  <2>1. w' \in Run /\ w'.pc = "fetch"
    <3>1. [w EXCEPT !.auth = live + 1] \in Run
      BY <1>0 DEF IInv, TypeOK, Run
    <3>2. [w EXCEPT !.auth = live + 1, !.rolled = TRUE, !.pc = "fetch"]
            = [[w EXCEPT !.auth = live + 1] EXCEPT !.rolled = TRUE, !.pc = "fetch"]
      OBVIOUS
    <3>3. w' = [[w EXCEPT !.auth = live + 1] EXCEPT !.rolled = TRUE, !.pc = "fetch"]
      BY <1>1, <3>2 DEF Rolls, Go
    <3> QED
      BY <3>1, <3>3 DEF Run, Stage
  <2>2. w'.plan = w.plan /\ w'.remote = w.remote /\ w'.imports = w.imports
    BY <1>1 DEF Rolls, Go, IInv, TypeOK, Run
  <2>3. PlanIsOfTheList'
    BY <2>1, <2>2, PlanKept DEF IInv
  <2> QED
    BY <1>0, <1>1, <2>1, <2>3 DEF Rolls, IInv, TypeOK
<1>2. ASSUME NEW o \in Outcome, Go(PullEnds(o))
      PROVE  w' \in Run /\ PlanIsOfTheList'
  BY <1>2, PullEndsType, PlanKept DEF Go, IInv, TypeOK
<1>3. CASE Refused
  BY <1>2, <1>3 DEF Refused, Outcome, IInv, TypeOK, tokens
<1>4. CASE Unreachable
  <2>1. w' \in Run /\ PlanIsOfTheList'
    BY <1>2, <1>4 DEF Unreachable, Outcome
  <2> QED
    BY <1>0, <1>4, <2>1 DEF Unreachable, Fault, IInv, TypeOK, tokens
<1> QED
  BY <1>1, <1>3, <1>4 DEF Roll

LEMMA CheckTokenInv == IInv /\ CheckToken => IInv'
<1> SUFFICES ASSUME IInv, CheckToken PROVE IInv'
  OBVIOUS
<1>1. CASE Roll
  BY <1>1, RollInv DEF CheckToken, At, IInv, TypeOK, StoreTypes, rows, sites
<1>2. CASE Go([w EXCEPT !.pc = "fetch"]) /\ UNCHANGED <<tokens, faults, calm>>
  BY <1>2 DEF CheckToken, At, Go, IInv, TypeOK, StoreTypes, PlanIsOfTheList, Run,
     Stage, rows, sites, tokens
<1> QED
  BY <1>1, <1>2 DEF CheckToken

LEMMA FetchListInv == IInv /\ FetchList => IInv'
BY ZenonT(60) DEF FetchList, At, Go, IInv, TypeOK, StoreTypes, PlanIsOfTheList, Run, Stage,
   rows, sites, tokens, bounds

LEMMA FetchRefusedInv == IInv /\ FetchRefused => IInv'
<1> SUFFICES ASSUME IInv, FetchRefused PROVE IInv'
  OBVIOUS
<1>1. CASE Roll
  BY <1>1, RollInv DEF FetchRefused, At, IInv, TypeOK, StoreTypes, rows, sites
<1>2. CASE Go(PullEnds("unauthorized")) /\ UNCHANGED <<tokens, faults, calm>>
  <2>1. w' \in Run /\ PlanIsOfTheList'
    BY <1>2, PullEndsType, PlanKept DEF FetchRefused, At, Go, IInv, TypeOK, Outcome
  <2> QED
    BY <1>2, <2>1 DEF FetchRefused, IInv, TypeOK, StoreTypes, rows, sites, tokens
<1> QED
  BY <1>1, <1>2 DEF FetchRefused

LEMMA FetchFailsInv == IInv /\ FetchFails => IInv'
<1> SUFFICES ASSUME IInv, FetchFails PROVE IInv'
  OBVIOUS
<1>1. w' \in Run /\ PlanIsOfTheList'
  BY PullEndsType, PlanKept DEF FetchFails, At, Go, IInv, TypeOK, Outcome
<1> QED
  BY <1>1 DEF FetchFails, Fault, IInv, TypeOK, StoreTypes, rows, sites, tokens

LEMMA ReconcilePlanInv == IInv /\ ReconcilePlan => IInv'
<1> SUFFICES ASSUME IInv, ReconcilePlan PROVE IInv'
  OBVIOUS
<1> DEFINE listed == {i \in Id : w.remote[i] # None}
           held   == {i \in listed : show[i] # None}
           plan   == [i \in Id |-> IF i \in held
                                   THEN PlanRow(show[i], w.remote[i]) ELSE None]
<1>1. \A i \in held : /\ plan[i] \in PlannedRow \cup {None}
                      /\ plan[i] # None => plan[i].snapshot = w.remote[i]
  BY PlanRowType DEF IInv, TypeOK, StoreTypes, Run
<1>2. \A i \in Id : /\ plan[i] \in PlannedRow \cup {None}
                    /\ plan[i] # None => i \in held /\ plan[i].snapshot = w.remote[i]
  BY <1>1
<1>3. w' = [w EXCEPT !.pc = "apply", !.plan = plan, !.imports = listed \ held,
                     !.backfill = {i \in held : ~show[i].linked}]
  BY DEF ReconcilePlan, Go
<1> HIDE DEF plan
<1>4. plan \in [Id -> PlannedRow \cup {None}]
  BY <1>2 DEF plan
<1>5. w' \in Run
  BY <1>3, <1>4 DEF IInv, TypeOK, Run, Stage
<1>6. PlanIsOfTheList'
  BY <1>2, <1>3 DEF PlanIsOfTheList, IInv, TypeOK, Run
<1> QED
  BY <1>5, <1>6 DEF ReconcilePlan, IInv, TypeOK, StoreTypes, rows, sites, tokens

\* One planned row or import is applied: the row takes the merge or the MAL
\* entry, with MAL's own entry as the snapshot.
LEMMA AppliedType ==
    ASSUME IInv, w.pc = "apply", NEW i \in Id, i \in w.imports \/ w.plan[i] # None
    PROVE  /\ w.remote[i] \in MalEntry
           /\ Applied(i) \in Row \cup {None}
           /\ \/ Applied(i) = show[i]
              \/ /\ Applied(i) # None
                 /\ Applied(i).pair = PairOf(w.remote[i])
                 /\ Applied(i).score = w.remote[i].score
<1>1. show[i] # None => show[i] \in Row
  BY DEF IInv, TypeOK, StoreTypes
<1>2. w.remote[i] \in MalEntry \cup {None} /\ w.plan[i] \in PlannedRow \cup {None}
  BY DEF IInv, TypeOK, Run
<1>3. w.remote[i] \in MalEntry
  <2>1. CASE i \in w.imports
    BY <1>2, <2>1 DEF IInv, PlanIsOfTheList
  <2>2. CASE w.plan[i] # None
    BY <1>2, <2>2, NoneIsNothing DEF IInv, PlanIsOfTheList, PlannedRow
  <2> QED
    BY <2>1, <2>2
<1>4. CASE i \in w.imports /\ Mintable(show[i])
  <2> DEFINE base == IF show[i] = None THEN NewRow(TRUE)
                     ELSE [show[i] EXCEPT !.linked = TRUE]
             new  == [base EXCEPT !.entry = w.remote[i]]
  <2>1. base \in Row
    BY <1>1, NewRowType DEF Row
  <2>2. Applied(i) = Snapshotted(new, w.remote[i])
    <3>1. Applied(i) = Imported(show[i], w.remote[i])
      BY <1>4 DEF Applied, IInv, PlanIsOfTheList
    <3> QED
      BY <3>1 DEF Imported
  <2> HIDE DEF base
  <2>3. new \in Row
    BY <1>3, <2>1, MalEntries DEF Row
  <2> HIDE DEF new
  <2> QED
    BY <1>3, <2>2, <2>3, SnapshottedType, RowIsNotNone
<1>5. CASE ~(i \in w.imports /\ Mintable(show[i])) /\ w.plan[i] # None
           /\ show[i] # None /\ show[i].entry = w.plan[i].guard
  <2> DEFINE p   == w.plan[i]
             new == [show[i] EXCEPT !.entry = p.merged]
  <2>1. p.merged \in Entry /\ p.snapshot = w.remote[i]
    BY <1>2, <1>5 DEF PlannedRow, IInv, PlanIsOfTheList
  <2>2. Applied(i) = Snapshotted(new, w.remote[i])
    BY <1>5, <2>1 DEF Applied
  <2>3. new \in Row
    BY <1>1, <1>5, <2>1 DEF Row
  <2> HIDE DEF new
  <2> QED
    BY <1>3, <2>2, <2>3, SnapshottedType, RowIsNotNone
<1>6. CASE /\ ~(i \in w.imports /\ Mintable(show[i]))
           /\ ~(w.plan[i] # None /\ show[i] # None /\ show[i].entry = w.plan[i].guard)
  <2>1. Applied(i) = show[i]
    BY <1>6 DEF Applied
  <2> QED
    BY <1>1, <1>3, <2>1
<1> QED
  BY <1>4, <1>5, <1>6

LEMMA ApplyInv == \A i \in Id : IInv /\ Apply(i) => IInv'
<1> SUFFICES ASSUME NEW i \in Id, IInv, Apply(i) PROVE IInv'
  OBVIOUS
<1>1. w.remote[i] \in MalEntry /\ Applied(i) \in Row \cup {None}
  BY AppliedType DEF Apply, At
<1>2. w' = [w EXCEPT !.imports = @ \ {i}, !.plan[i] = None] /\ w.pc = "apply"
  BY DEF Apply, Go, At
<1>3. w' \in Run
  BY <1>2 DEF IInv, TypeOK, Run
<1>4. PlanIsOfTheList'
  BY <1>2 DEF IInv, TypeOK, Run, PlanIsOfTheList
<1>5. StoreTypes'
  <2>1. show' \in [Id -> Row \cup {None}]
    BY <1>1 DEF Apply, IInv, TypeOK, StoreTypes
  <2>2. known' \in [Id -> SUBSET MalEntry]
    BY <1>1 DEF Apply, IInv, TypeOK, StoreTypes
  <2> QED
    BY <2>1, <2>2 DEF Apply, IInv, TypeOK, StoreTypes, sites
<1> QED
  BY <1>3, <1>4, <1>5 DEF Apply, IInv, TypeOK, tokens

LEMMA PullDoneInv == IInv /\ PullDone => IInv'
<1> SUFFICES ASSUME IInv, PullDone PROVE IInv'
  OBVIOUS
<1> DEFINE e == PullEnds("ok")
<1>1. e \in Run /\ e.imports = {} /\ e.pc \in {"save", "anilist"}
      /\ \A i \in Id : e.plan[i] = None
  BY PullEndsType DEF PullDone, IInv, TypeOK, Outcome
<1>2. w' = [e EXCEPT !.backfill = {}, !.remote = Idle.remote]
  BY DEF PullDone, Go
<1> HIDE DEF e
<1>3. Idle.remote = [i \in Id |-> None]
  BY DEF Idle
<1>4. w' \in Run /\ PlanIsOfTheList'
  BY <1>1, <1>2, <1>3 DEF Run, PlanIsOfTheList
<1>5. show' \in [Id -> Row \cup {None}]
  <2>1. \A i \in Id : LinkedRow(i) \in Row \cup {None}
    BY DEF LinkedRow, IInv, TypeOK, StoreTypes, Row
  <2> QED
    BY <2>1 DEF PullDone
<1> QED
  BY <1>4, <1>5 DEF PullDone, IInv, TypeOK, StoreTypes, sites, tokens

LEMMA StoreFailsInv == IInv /\ StoreFails => IInv'
<1> SUFFICES ASSUME IInv, StoreFails PROVE IInv'
  OBVIOUS
<1> DEFINE f == [Idle EXCEPT !.pc = "anilist", !.auth = mem, !.outcome = "failed"]
<1>1. /\ f \in Run /\ f.pc = "anilist" /\ f.imports = {}
      /\ \A i \in Id : f.plan[i] = None
  BY IdleType DEF IInv, TypeOK, Stage, Run, Idle, Outcome
<1>2. w' = f
  BY DEF StoreFails, Go
<1>3. PlanIsOfTheList'
  BY <1>1, <1>2 DEF PlanIsOfTheList
<1> QED
  BY <1>1, <1>2, <1>3 DEF StoreFails, Fault, IInv, TypeOK, StoreTypes, Run, rows, sites

LEMMA SaveRolledInv == IInv /\ SaveRolled => IInv'
<1> SUFFICES ASSUME IInv, SaveRolled PROVE IInv'
  OBVIOUS
<1>1. w' \in Run /\ PlanIsOfTheList'
  BY ZenonT(60), PlanKept DEF SaveRolled, Go, At, IInv, TypeOK, Run, Stage
<1>2. w.auth \in Nat
  BY DEF IInv, TypeOK, Run
<1> QED
  BY <1>1, <1>2 DEF SaveRolled, Fault, IInv, TypeOK, StoreTypes, rows, sites

LEMMA AniPulledType ==
    ASSUME NEW r \in Row \cup {None}, NEW a \in AniEntry \cup {None},
           NEW linked \in BOOLEAN
    PROVE  /\ AniPulled(r, a, linked) \in Row \cup {None}
           /\ AniPulled(r, a, linked) # None =>
                IF r = None
                THEN /\ AniPulled(r, a, linked).pair = None
                     /\ AniPulled(r, a, linked).score = None
                ELSE /\ AniPulled(r, a, linked).pair = r.pair
                     /\ AniPulled(r, a, linked).score = r.score
                     /\ AniPulled(r, a, linked).linked = r.linked
           /\ r # None => AniPulled(r, a, linked) # None
<1>1. CASE a = None
  BY <1>1 DEF AniPulled
<1>2. CASE a # None /\ r = None
  <2> DEFINE new == [NewRow(linked) EXCEPT !.entry = a, !.synced = a]
  <2>1. a \in Entry
    BY <1>2, AniEntries
  <2>2. new \in Row /\ new.pair = None /\ new.score = None
    BY <2>1, NewRowType DEF NewRow, Row, MaybeEntry
  <2>3. AniPulled(r, a, linked) \in {None, new}
    BY <1>2 DEF AniPulled
  <2> QED
    BY <1>2, <2>2, <2>3
<1>3. CASE a # None /\ r # None
  <2> DEFINE m   == Merged(r.synced, r.entry, a)
             new == [r EXCEPT !.entry = m, !.synced = a]
  <2>1. a \in Entry /\ r \in Row
    BY <1>3, AniEntries
  <2>2. m \in Entry
    BY <2>1, MergedType DEF Row
  <2> HIDE DEF m
  <2>3. new \in Row /\ new.pair = r.pair /\ new.score = r.score
        /\ new.linked = r.linked
    BY <2>1, <2>2 DEF Row, MaybeEntry
  <2>4. AniPulled(r, a, linked) = new
    BY <1>3 DEF AniPulled, m
  <2> QED
    BY <1>3, <2>3, <2>4, RowIsNotNone
<1> QED
  BY <1>1, <1>2, <1>3

LEMMA AniStoredType ==
    ASSUME NEW e \in Entry
    PROVE  AniStored(e) \in AniEntry /\ AniStored(e) = [e EXCEPT !.score = AniScore[@]]
BY RoundedScore DEF AniStored, AniEntry, Entry

LEMMA AniPushedType ==
    ASSUME NEW r \in Row \cup {None}
    PROVE  /\ AniPushed(r) \in Row \cup {None}
           /\ AniPushed(r) = None <=> r = None
           /\ r # None => /\ AniPushed(r).pair = r.pair
                          /\ AniPushed(r).score = r.score
                          /\ AniPushed(r).linked = r.linked
<1>1. CASE AniDirty(r)
  <2> DEFINE e == AniStored(r.entry)
  <2>1. r \in Row
    BY <1>1 DEF AniDirty
  <2>2. e \in Entry
    BY <2>1, AniStoredType, AniEntries DEF Row
  <2>3. AniPushed(r) = [r EXCEPT !.entry = e, !.synced = e]
    BY <1>1, <2>1 DEF AniPushed, Row
  <2> HIDE DEF e
  <2>4. [r EXCEPT !.entry = e, !.synced = e] \in Row
    BY <2>1, <2>2 DEF Row, MaybeEntry
  <2> QED
    BY <2>1, <2>3, <2>4, RowIsNotNone DEF Row
<1>2. CASE ~AniDirty(r)
  BY <1>2 DEF AniPushed
<1> QED
  BY <1>1, <1>2

\* The AniList half leaves the mirror's snapshot of every row alone.
LEMMA AniListHalfShows ==
    ASSUME StoreTypes, AniListHalf
    PROVE  /\ show' \in [Id -> Row \cup {None}]
           /\ ani' \in [Id -> AniEntry \cup {None}]
           /\ \A i \in Id : show'[i] # None =>
                \/ show'[i].pair = None /\ show'[i].score = None
                \/ /\ show[i] # None
                   /\ show'[i].pair = show[i].pair /\ show'[i].score = show[i].score
<1>1. PICK linked \in BOOLEAN :
        LET pulled(i) == AniPulled(show[i], ani[i], linked) IN
         \/ /\ show' = [i \in Id |-> AniPushed(pulled(i))]
            /\ ani' = [i \in Id |-> IF AniDirty(pulled(i))
                                    THEN AniStored(pulled(i).entry) ELSE ani[i]]
         \/ show' = [i \in Id |-> pulled(i)] /\ UNCHANGED ani
         \/ UNCHANGED <<show, ani>>
  BY DEF AniListHalf
<1> DEFINE pulled(i) == AniPulled(show[i], ani[i], linked)
<1>2. \A i \in Id : show[i] \in Row \cup {None} /\ ani[i] \in AniEntry \cup {None}
  BY DEF StoreTypes
<1>3. \A i \in Id :
        /\ pulled(i) \in Row \cup {None}
        /\ pulled(i) # None =>
              \/ pulled(i).pair = None /\ pulled(i).score = None
              \/ /\ show[i] # None
                 /\ pulled(i).pair = show[i].pair /\ pulled(i).score = show[i].score
  BY <1>2, AniPulledType
<1> HIDE DEF pulled
<1>4. CASE /\ show' = [i \in Id |-> AniPushed(pulled(i))]
           /\ ani' = [i \in Id |-> IF AniDirty(pulled(i))
                                   THEN AniStored(pulled(i).entry) ELSE ani[i]]
  <2>1. \A i \in Id : AniDirty(pulled(i)) => AniStored(pulled(i).entry) \in AniEntry
    BY <1>3, AniStoredType DEF AniDirty, Row
  <2>2. ani' \in [Id -> AniEntry \cup {None}]
    BY <1>2, <1>4, <2>1
  <2>3. \A i \in Id : /\ AniPushed(pulled(i)) \in Row \cup {None}
                      /\ AniPushed(pulled(i)) # None =>
                           /\ pulled(i) # None
                           /\ AniPushed(pulled(i)).pair = pulled(i).pair
                           /\ AniPushed(pulled(i)).score = pulled(i).score
    BY <1>3, AniPushedType
  <2> QED
    BY <1>3, <1>4, <2>2, <2>3
<1>5. CASE show' = [i \in Id |-> pulled(i)] /\ UNCHANGED ani
  BY <1>3, <1>5 DEF StoreTypes
<1>6. CASE UNCHANGED <<show, ani>>
  BY <1>6 DEF StoreTypes
<1> QED
  BY <1>1, <1>4, <1>5, <1>6 DEF pulled

LEMMA AniListHalfInv == IInv /\ AniListHalf => IInv'
<1> SUFFICES ASSUME IInv, AniListHalf PROVE IInv'
  OBVIOUS
<1>1. w' \in Run /\ PlanIsOfTheList'
  BY PlanKept DEF AniListHalf, Go, At, IInv, TypeOK, Run, Stage
<1>2. StoreTypes'
  BY AniListHalfShows DEF AniListHalf, IInv, TypeOK, StoreTypes
<1>3. calm' \in BOOLEAN
  BY DEF AniListHalf, Fault, IInv, TypeOK
<1> QED
  BY <1>1, <1>2, <1>3 DEF AniListHalf, IInv, TypeOK, tokens

-----------------------------------------------------------------------------
\* The push.

\* The push leaves nothing planned, and has a row in hand where it works on one.
LEMMA PushKeepsPlan ==
    ASSUME PlanIsOfTheList, w.pc # "apply", w'.pc # "apply",
           w'.plan = w.plan, w'.remote = w.remote, w'.imports = w.imports,
           w'.pc \in {"guard", "put", "mark"} => w'.row \in DirtyRow
    PROVE  PlanIsOfTheList'
BY NoneIsNothing DEF PlanIsOfTheList, DirtyRow

LEMMA RowInHand ==
    ASSUME IInv, w.pc \in {"guard", "put", "mark"}
    PROVE  w.row \in DirtyRow /\ w.row.id \in Id
BY DEF IInv, TypeOK, PlanIsOfTheList, Run, DirtyRow

\* The two ways a row ends.
LEMMA PushSteps ==
    ASSUME w \in Run
    PROVE  \A e \in {PushStops, RowDone} :
           /\ e \in Run
           /\ e.pc \in {"post", "next"} /\ e.row = None
           /\ e.todo \subseteq w.todo
           /\ e.plan = w.plan /\ e.remote = w.remote /\ e.imports = w.imports
           /\ e.auth = w.auth /\ e.rolled = w.rolled /\ e.unsaved = w.unsaved
           /\ e.outcome = w.outcome
<1>1. /\ PushStops \in Run /\ RowDone \in Run
  BY DEF PushStops, RowDone, Run, Stage
<1>2. /\ PushStops.pc = "post" /\ PushStops.row = None /\ PushStops.todo = {}
      /\ PushStops.plan = w.plan /\ PushStops.remote = w.remote
      /\ PushStops.imports = w.imports
      /\ PushStops.auth = w.auth /\ PushStops.rolled = w.rolled
      /\ PushStops.unsaved = w.unsaved /\ PushStops.outcome = w.outcome
  BY DEF PushStops, Run
<1>3. /\ RowDone.pc = "next" /\ RowDone.row = None /\ RowDone.todo = w.todo
      /\ RowDone.plan = w.plan /\ RowDone.remote = w.remote
      /\ RowDone.imports = w.imports
      /\ RowDone.auth = w.auth /\ RowDone.rolled = w.rolled
      /\ RowDone.unsaved = w.unsaved /\ RowDone.outcome = w.outcome
  BY DEF RowDone, Run
<1> QED
  BY <1>1, <1>2, <1>3

LEMMA PushStepsInv ==
    ASSUME IInv, w.pc # "apply", w' \in {PushStops, RowDone}
    PROVE  w' \in Run /\ PlanIsOfTheList'
BY PushSteps, PushKeepsPlan DEF IInv, TypeOK

LEMMA ListDirtyInv == IInv /\ ListDirty => IInv'
<1> SUFFICES ASSUME IInv, ListDirty PROVE IInv'
  OBVIOUS
<1> DEFINE todo == {[id |-> i, entry |-> show[i].entry, pair |-> show[i].pair,
                     score |-> show[i].score] : i \in {j \in Id : MalDirty(show[j])}}
<1>1. todo \subseteq DirtyRow
  BY DEF MalDirty, IInv, TypeOK, StoreTypes, Row, DirtyRow
<1>2. w' = [w EXCEPT !.pc = "next", !.todo = todo] /\ w.pc = "list"
  BY DEF ListDirty, Go, At
<1> HIDE DEF todo
<1>3. w' \in Run /\ PlanIsOfTheList'
  BY <1>1, <1>2, PlanKept DEF IInv, TypeOK, Run, Stage
<1> QED
  BY <1>3 DEF ListDirty, IInv, TypeOK, StoreTypes, rows, sites, tokens, bounds

LEMMA NextRowInv == IInv /\ NextRow => IInv'
<1> SUFFICES ASSUME IInv, NextRow PROVE IInv'
  OBVIOUS
<1>1. PICK r \in w.todo : w' = [w EXCEPT !.pc = "guard", !.row = r, !.todo = @ \ {r}]
  BY DEF NextRow, Go
<1>2. r \in DirtyRow
  BY DEF IInv, TypeOK, Run
<1>3. w' \in Run
  BY <1>1, <1>2 DEF IInv, TypeOK, Run, Stage
<1>4. PlanIsOfTheList'
  BY <1>1, <1>2, PushKeepsPlan DEF NextRow, At, IInv, TypeOK, Run
<1> QED
  BY <1>3, <1>4 DEF NextRow, IInv, TypeOK, StoreTypes, rows, sites, tokens, bounds

LEMMA PushDoneInv == IInv /\ PushDone => IInv'
<1> SUFFICES ASSUME IInv, PushDone PROVE IInv'
  OBVIOUS
<1>1. w' \in Run /\ PlanIsOfTheList'
  BY PushStepsInv DEF PushDone, Go, At
<1> QED
  BY <1>1 DEF PushDone, IInv, TypeOK, StoreTypes, rows, sites, tokens, bounds

LEMMA GuardInv == IInv /\ Guard => IInv'
<1> SUFFICES ASSUME IInv, Guard PROVE IInv'
  OBVIOUS
<1> DEFINE seen == mal[w.row.id]
           put  == [w EXCEPT !.pc = "put", !.seen = seen]
<1>1. w.pc = "guard" /\ w' \in {PushStops, RowDone, put}
  BY DEF Guard, Go, At
<1>2. seen \in MalEntry \cup {None} /\ w.row \in DirtyRow
  BY <1>1, RowInHand DEF IInv, TypeOK, StoreTypes
<1> HIDE DEF seen
<1>3. put \in Run /\ put.plan = w.plan /\ put.imports = w.imports
      /\ put.remote = w.remote /\ put.pc = "put" /\ put.row = w.row
  BY <1>2 DEF IInv, TypeOK, Run, Stage
<1> HIDE DEF put
<1>4. w' \in Run /\ PlanIsOfTheList'
  <2>1. CASE w' = put
    BY <1>1, <1>2, <1>3, <2>1, PushKeepsPlan DEF IInv
  <2> QED
    BY <1>1, <2>1, PushStepsInv
<1> QED
  BY <1>4 DEF Guard, IInv, TypeOK, StoreTypes, rows, sites, tokens, bounds

\* MAL takes the entry: with the score that is sent, or with its own.
LEMMA MalTakesType ==
    ASSUME StoreTypes, NEW i \in Id, NEW e \in Entry, MalTakes(i, e)
    PROVE  /\ mal' \in [Id -> MalEntry \cup {None}]
           /\ known' \in [Id -> SUBSET MalEntry]
           /\ mal'[i] \in MalEntry /\ mal'[i] \in known'[i]
           /\ PairOf(mal'[i]) = PairOf(e)
           /\ mal'[i].score = IF PushScore(e) # None THEN PushScore(e)
                              ELSE IF mal[i] = None THEN 0 ELSE mal[i].score
           /\ \A j \in Id : j # i => mal'[j] = mal[j] /\ known'[j] = known[j]
           /\ known'[i] = known[i] \cup {mal'[i]}
<1> DEFINE sent == PushScore(e)
           kept == IF mal[i] = None THEN 0 ELSE mal[i].score
           new  == [e EXCEPT !.score = IF sent = None THEN kept ELSE sent]
<1>1. mal[i] \in MalEntry \cup {None} /\ known[i] \subseteq MalEntry
  BY DEF StoreTypes
<1>2. kept \in Score /\ MalScore[kept] = kept
  BY <1>1, MalMirrorAssumption, ListMergeAssumption DEF MalEntry, Entry
<1>3. sent # None => sent \in Score /\ MalScore[sent] = sent
  BY RoundedScore DEF PushScore, Entry
<1>4. /\ mal' = [mal EXCEPT ![i] = new]
      /\ known' = [known EXCEPT ![i] = @ \cup {new}]
  BY DEF MalTakes
<1> HIDE DEF kept, sent
<1>5. new \in MalEntry /\ PairOf(new) = PairOf(e)
      /\ new.score = IF sent = None THEN kept ELSE sent
  BY <1>2, <1>3 DEF MalEntry, Entry, PairOf
<1> HIDE DEF new
<1> QED
  BY <1>4, <1>5 DEF StoreTypes, kept, sent

LEMMA SaveEntryInv == IInv /\ SaveEntry => IInv'
<1> SUFFICES ASSUME IInv, SaveEntry PROVE IInv'
  OBVIOUS
<1>1. w.pc = "put" /\ w.row \in DirtyRow /\ w.row.id \in Id /\ w.row.entry \in Entry
  BY RowInHand DEF SaveEntry, At, DirtyRow
<1>2. CASE Honoured
  <2>1. w' = [w EXCEPT !.pc = "mark"]
    BY <1>2 DEF SaveEntry, Go
  <2>2. w' \in Run /\ PlanIsOfTheList'
    BY <1>1, <2>1, PushKeepsPlan DEF IInv, TypeOK, Run, Stage
  <2>3. StoreTypes'
    BY <1>1, <1>2, MalTakesType DEF SaveEntry, IInv, TypeOK, StoreTypes
  <2> QED
    BY <2>2, <2>3 DEF SaveEntry, IInv, TypeOK, tokens, bounds
<1>3. CASE ~Honoured
  <2>1. w' \in Run /\ PlanIsOfTheList'
    BY <1>1, <1>3, PushStepsInv DEF SaveEntry, Go
  <2> QED
    BY <1>3, <2>1 DEF SaveEntry, IInv, TypeOK, StoreTypes, tokens, bounds
<1> QED
  BY <1>2, <1>3

LEMMA SaveUnmarkedInv == IInv /\ SaveUnmarked => IInv'
<1> SUFFICES ASSUME IInv, SaveUnmarked PROVE IInv'
  OBVIOUS
<1>1. w.pc = "put" /\ w.row.id \in Id /\ w.row.entry \in Entry
  BY RowInHand DEF SaveUnmarked, At, DirtyRow
<1>2. w' \in Run /\ PlanIsOfTheList'
  BY <1>1, PushStepsInv DEF SaveUnmarked, Go
<1>3. StoreTypes'
  BY <1>1, MalTakesType DEF SaveUnmarked, IInv, TypeOK, StoreTypes
<1> QED
  BY <1>2, <1>3 DEF SaveUnmarked, Fault, IInv, TypeOK, tokens

LEMMA CallFailsInv == IInv /\ CallFails => IInv'
<1> SUFFICES ASSUME IInv, CallFails PROVE IInv'
  OBVIOUS
<1>1. w' \in Run /\ PlanIsOfTheList'
  BY PushStepsInv DEF CallFails, Go
<1> QED
  BY <1>1 DEF CallFails, Fault, IInv, TypeOK, StoreTypes, rows, sites, tokens

\* The pushed row is marked with what was sent.
LEMMA MarkedRow ==
    ASSUME NEW r \in Row, NEW e \in Entry
    PROVE  [r EXCEPT !.pair = PairOf(e), !.score = PushScore(e)] \in Row
<1>1. PairOf(e) \in Pair /\ PushScore(e) \in Score \cup {None}
  BY PairOfEntry, RoundedScore DEF PushScore, Entry
<1> QED
  BY <1>1 DEF Row

LEMMA MarkMalSyncedInv == IInv /\ MarkMalSynced => IInv'
<1> SUFFICES ASSUME IInv, MarkMalSynced PROVE IInv'
  OBVIOUS
<1>1. w.pc = "mark" /\ w.row.id \in Id /\ w.row.entry \in Entry
  BY RowInHand DEF MarkMalSynced, At, DirtyRow
<1>2. w' \in Run /\ PlanIsOfTheList'
  BY <1>1, PushStepsInv DEF MarkMalSynced, Go
<1>3. show' \in [Id -> Row \cup {None}]
  BY <1>1, MarkedRow DEF MarkMalSynced, IInv, TypeOK, StoreTypes
<1> QED
  BY <1>2, <1>3 DEF MarkMalSynced, IInv, TypeOK, StoreTypes, sites, tokens, bounds

\* A run that ends, or is cut, leaves nothing planned.
LEMMA IdlePlansNothing ==
    ASSUME w' = Idle
    PROVE  w' \in Run /\ PlanIsOfTheList'
<1>1. Idle.imports = {} /\ Idle.pc = "idle" /\ \A i \in Id : Idle.plan[i] = None
  BY DEF Idle
<1> QED
  BY <1>1, IdleType DEF PlanIsOfTheList

LEMMA SyncFlushedInv == IInv /\ SyncFlushed => IInv'
BY IdlePlansNothing DEF SyncFlushed, Go, IInv, TypeOK, StoreTypes, rows, sites, bounds

LEMMA RestartInv == IInv /\ Restart => IInv'
BY IdlePlansNothing DEF Restart, Fault, Go, IInv, TypeOK, StoreTypes, Run, rows, sites

LEMMA NextInv == IInv /\ [Next]_vars => IInv'
<1>1. IInv /\ UNCHANGED vars => IInv'
  BY DEF vars, IInv, TypeOK, StoreTypes, PlanIsOfTheList
<1> QED
  BY <1>1, LocalInv, WebsiteInv, TokenAgesInv, StartInv, CheckTokenInv,
     FetchListInv, FetchRefusedInv, FetchFailsInv, ReconcilePlanInv, ApplyInv,
     PullDoneInv, StoreFailsInv, SaveRolledInv, AniListHalfInv, ListDirtyInv,
     NextRowInv, PushDoneInv, GuardInv, SaveEntryInv, SaveUnmarkedInv,
     CallFailsInv, MarkMalSyncedInv, SyncFlushedInv, RestartInv DEF Next

\* Every reachable state is well typed, and what a pull applies is what the
\* list it fetched says (mal_mirror.cpp, pull_mirror and push_mirror).
THEOREM MirrorIsTyped == Spec => []IInv
BY InitInv, NextInv, PTL DEF Spec

-----------------------------------------------------------------------------
\* The three copies of the token pair are the live one while none is lost: a run
\* that renewed holds it, and once the renewal is saved the auth file does too.
TokensHeld ==
    /\ w.pc \in {"idle", "token"} => ~w.rolled
    /\ w.rolled => w.auth = live /\ access = "good"
    /\ ~lost => ~w.unsaved
    /\ ~lost =>
         IF w.rolled
         THEN w.pc \notin {"fetch", "plan", "apply", "save"} => disk = live
         ELSE disk = live /\ mem = live /\ (w.pc # "idle" => w.auth = live)
    /\ ExpiredOnlyIfLost

\* The steps that concern neither the sign-in nor the outcome of the pull.
Quiet ==
    \/ FetchList \/ ReconcilePlan \/ \E i \in Id : Apply(i)
    \/ AniListHalf \/ ListDirty \/ NextRow \/ PushDone \/ Guard
    \/ SaveEntry \/ SaveUnmarked \/ CallFails \/ MarkMalSynced

Early == {"fetch", "plan", "apply"}
Late  == {"anilist", "list", "next", "guard", "put", "mark", "post"}

LEMMA QuietSteps ==
    ASSUME IInv, Quiet
    PROVE  /\ UNCHANGED tokens
           /\ w'.auth = w.auth /\ w'.rolled = w.rolled /\ w'.unsaved = w.unsaved
           /\ w'.outcome = w.outcome
           /\ \/ w.pc \in Early /\ w'.pc \in Early
              \/ w.pc \in Late /\ w'.pc \in Late
<1> USE DEF Go, At, Early, Late
<1>0. w \in Run
  BY DEF IInv, TypeOK
<1>1. CASE FetchList
  BY <1>0, <1>1 DEF FetchList, Run
<1>2. CASE ReconcilePlan
  <2>1. PICK p, imports, backfill :
          w' = [w EXCEPT !.pc = "apply", !.plan = p, !.imports = imports,
                         !.backfill = backfill]
    BY <1>2 DEF ReconcilePlan
  <2> QED
    BY <1>0, <1>2, <2>1 DEF ReconcilePlan, Run
<1>3. CASE \E i \in Id : Apply(i)
  BY <1>0, <1>3 DEF Apply, Run
<1>4. CASE AniListHalf
  BY <1>0, <1>4 DEF AniListHalf, Run
<1>5. CASE ListDirty
  <2>1. PICK todo : w' = [w EXCEPT !.pc = "next", !.todo = todo]
    BY <1>5 DEF ListDirty
  <2> QED
    BY <1>0, <1>5, <2>1 DEF ListDirty, Run
<1>6. CASE NextRow
  BY <1>0, <1>6 DEF NextRow, Run
<1>7. CASE PushDone \/ SaveUnmarked \/ CallFails \/ MarkMalSynced
  <2>1. w' \in {PushStops, RowDone} /\ UNCHANGED tokens
        /\ w.pc \in {"next", "guard", "put", "mark"}
    BY <1>7 DEF PushDone, SaveUnmarked, CallFails, MarkMalSynced
  <2> QED
    BY <1>0, <2>1, PushSteps
<1>8. CASE Guard
  <2>1. /\ w' \in {PushStops, RowDone} \/ w' = [w EXCEPT !.pc = "put", !.seen = mal[w.row.id]]
        /\ UNCHANGED tokens /\ w.pc = "guard"
    BY <1>8 DEF Guard
  <2>2. CASE w' = [w EXCEPT !.pc = "put", !.seen = mal[w.row.id]]
    BY <1>0, <2>1, <2>2 DEF Run
  <2> QED
    BY <1>0, <2>1, <2>2, PushSteps
<1>9. CASE SaveEntry
  <2>1. /\ w' = PushStops \/ w' = [w EXCEPT !.pc = "mark"]
        /\ UNCHANGED tokens /\ w.pc = "put"
    BY <1>9 DEF SaveEntry
  <2>2. CASE w' = [w EXCEPT !.pc = "mark"]
    BY <1>0, <2>1, <2>2 DEF Run
  <2> QED
    BY <1>0, <2>1, <2>2, PushSteps
<1> QED
  BY <1>1, <1>2, <1>3, <1>4, <1>5, <1>6, <1>7, <1>8, <1>9 DEF Quiet

LEMMA TokensInit == Init => TokensHeld
BY DEF Init, TokensHeld, Idle, ExpiredOnlyIfLost

\* A roll renews the pair, is refused with a pair that is not the live one, or
\* loses its answer.
LEMMA TokensRoll ==
    ASSUME IInv, TokensHeld, w.pc \in {"token", "fetch"}, ~w.rolled, Roll
    PROVE  TokensHeld'
<1>0. w \in Run /\ live \in Nat /\ live + 1 \in Nat
  BY DEF IInv, TypeOK
<1>1. CASE Rolls
  BY <1>0, <1>1 DEF Rolls, Go, TokensHeld, ExpiredOnlyIfLost, Run
<1>2. CASE Refused
  BY <1>0, <1>2, PullEndsType DEF Refused, Go, TokensHeld, ExpiredOnlyIfLost,
     Outcome, tokens
<1>3. CASE Unreachable
  BY <1>0, <1>3, PullEndsType DEF Unreachable, Go, TokensHeld, ExpiredOnlyIfLost,
     Outcome, tokens
<1> QED
  BY <1>1, <1>2, <1>3 DEF Roll

LEMMA TokensNext == IInv /\ TokensHeld /\ [Next]_vars => TokensHeld'
<1> SUFFICES ASSUME IInv, TokensHeld, [Next]_vars PROVE TokensHeld'
  OBVIOUS
<1>0. w \in Run
  BY DEF IInv, TypeOK
<1>1. CASE Quiet
  BY <1>1, QuietSteps DEF TokensHeld, ExpiredOnlyIfLost, tokens, Early, Late
<1>2. CASE Local
  BY <1>2 DEF Local, Edit, TokensHeld, ExpiredOnlyIfLost, tokens
<1>3. CASE Website
  BY <1>3 DEF Website, TokensHeld, ExpiredOnlyIfLost, tokens
<1>4. CASE TokenAges
  BY <1>4 DEF TokenAges, TokensHeld, ExpiredOnlyIfLost
<1>5. CASE Start
  <2>1. /\ w'.pc = "token" /\ w'.auth = mem /\ ~w'.rolled /\ ~w'.unsaved
        /\ w'.outcome = "ok" /\ UNCHANGED tokens /\ w.pc = "idle"
    BY <1>5 DEF Start, Go, At, Idle
  <2> QED
    BY <2>1 DEF TokensHeld, ExpiredOnlyIfLost, tokens
<1>6. CASE CheckToken
  <2>1. w.pc = "token" /\ ~w.rolled
    BY <1>6 DEF CheckToken, At, TokensHeld
  <2>2. CASE Go([w EXCEPT !.pc = "fetch"]) /\ UNCHANGED tokens
    BY <1>0, <2>1, <2>2 DEF Go, TokensHeld, ExpiredOnlyIfLost, tokens, Run
  <2> QED
    BY <1>6, <2>1, <2>2, TokensRoll DEF CheckToken
<1>7. CASE FetchRefused
  <2>1. w.pc = "fetch" /\ ~w.rolled
    BY <1>7 DEF FetchRefused, At, TokensHeld, Honoured
  <2> QED
    BY <1>7, <2>1, TokensRoll DEF FetchRefused
<1>8. CASE FetchFails
  BY <1>0, <1>8, PullEndsType DEF FetchFails, Go, At, Fault, TokensHeld,
     ExpiredOnlyIfLost, Outcome, tokens
<1>9. CASE PullDone
  <2>1. /\ w'.pc = (IF w.rolled THEN "save" ELSE "anilist") /\ w'.outcome = "ok"
        /\ w'.auth = w.auth /\ w'.rolled = w.rolled /\ w'.unsaved = w.unsaved
    <3>1. PullEnds("ok") \in Run
      BY <1>0, PullEndsType DEF Outcome
    <3>2. w' = [PullEnds("ok") EXCEPT !.backfill = {}, !.remote = Idle.remote]
      BY <1>9 DEF PullDone, Go
    <3> QED
      BY <1>0, <3>1, <3>2, PullEndsType DEF Run, Outcome
  <2> QED
    BY <1>9, <2>1 DEF PullDone, At, TokensHeld, ExpiredOnlyIfLost, tokens
<1>10. CASE StoreFails
  <2>1. /\ w'.pc = "anilist" /\ w'.auth = mem /\ ~w'.rolled /\ ~w'.unsaved
        /\ w'.outcome = "failed"
    BY <1>10 DEF StoreFails, Go, Idle
  <2> QED
    BY <1>10, <2>1 DEF StoreFails, At, TokensHeld, ExpiredOnlyIfLost
<1>11. CASE SaveRolled
  <2>1. CASE disk' = w.auth /\ Go([w EXCEPT !.pc = "anilist"]) /\ UNCHANGED lost
    <3>1. /\ w'.pc = "anilist" /\ w'.auth = w.auth /\ w'.rolled = w.rolled
          /\ w'.unsaved = w.unsaved /\ w'.outcome = w.outcome
      BY <1>0, <2>1 DEF Go, Run
    <3>2. ~lost => w.auth = live /\ ~w.unsaved
      BY <1>11 DEF SaveRolled, At, TokensHeld
    <3> QED
      BY <1>11, <2>1, <3>1, <3>2 DEF SaveRolled, At, TokensHeld, ExpiredOnlyIfLost
  <2>2. CASE lost' = TRUE /\ Go([w EXCEPT !.pc = "anilist", !.unsaved = TRUE])
    <3>1. w'.pc = "anilist" /\ w'.auth = w.auth /\ w'.rolled = w.rolled
      BY <1>0, <2>2 DEF Go, Run
    <3> QED
      BY <1>11, <2>2, <3>1 DEF SaveRolled, At, TokensHeld, ExpiredOnlyIfLost
  <2> QED
    BY <1>11, <2>1, <2>2 DEF SaveRolled
<1>12. CASE SyncFlushed
  BY <1>12 DEF SyncFlushed, Go, At, Idle, TokensHeld, ExpiredOnlyIfLost
<1>13. CASE Restart
  BY <1>13 DEF Restart, Fault, Go, Idle, TokensHeld, ExpiredOnlyIfLost
<1>14. CASE UNCHANGED vars
  BY <1>14 DEF vars, TokensHeld, ExpiredOnlyIfLost
<1> QED
  BY <1>1, <1>2, <1>3, <1>4, <1>5, <1>6, <1>7, <1>8, <1>9, <1>10, <1>11, <1>12,
     <1>13, <1>14 DEF Next, Quiet

\* The user is asked to sign in again only when a renewed pair was really lost,
\* however pulls, faults, restarts and renewals fall (mal_mirror.cpp,
\* pull_mirror and save_rolled).
THEOREM SignInAskedOnlyIfLost == Spec => []ExpiredOnlyIfLost
<1>1. Spec => [](IInv /\ TokensHeld)
  BY InitInv, NextInv, TokensInit, TokensNext, PTL DEF Spec
<1>2. TokensHeld => ExpiredOnlyIfLost
  BY DEF TokensHeld
<1> QED
  BY <1>1, <1>2, PTL

-----------------------------------------------------------------------------
\* The mirror's snapshot, each half for itself, is something this library has
\* merged or written.
Believed(known_i, pair, score) ==
    /\ pair # None => \E k \in known_i : PairOf(k) = pair
    /\ score # None => \E k \in known_i : k.score = score

RowsKnown ==
    \A i \in Id : show[i] # None => Believed(known[i], show[i].pair, show[i].score)

\* So are the rows of a push, and what is about to be marked; a row that is put
\* has passed its guard.
RunKnown ==
    /\ \A r \in w.todo : Believed(known[r.id], r.pair, r.score)
    /\ w.row # None => Believed(known[w.row.id], w.row.pair, w.row.score)
    /\ w.pc = "put" => ~HeldBack(w.row, w.seen)
    /\ w.pc = "mark" => Believed(known[w.row.id], PairOf(w.row.entry),
                                 PushScore(w.row.entry))

LEMMA BelievedGrows ==
    ASSUME NEW k, NEW l, k \subseteq l, NEW p, NEW s, Believed(k, p, s)
    PROVE  Believed(l, p, s)
BY DEF Believed

LEMMA NothingBelieved == ASSUME NEW k PROVE Believed(k, None, None)
BY DEF Believed

LEMMA KnownInit == Init => RowsKnown /\ RunKnown
BY DEF Init, Idle, RowsKnown, RunKnown

\* What the library has once merged or written it has for ever.
LEMMA KnownGrows ==
    ASSUME IInv, [Next]_vars
    PROVE  \A i \in Id : known[i] \subseteq known'[i]
<1>1. CASE \E i \in Id : Apply(i)
  BY <1>1 DEF Apply, IInv, TypeOK, StoreTypes
<1>2. CASE SaveEntry \/ SaveUnmarked
  <2>1. UNCHANGED known \/ MalTakes(w.row.id, w.row.entry)
    BY <1>2 DEF SaveEntry, SaveUnmarked
  <2>2. w.row.id \in Id /\ w.row.entry \in Entry
    BY <1>2, RowInHand DEF SaveEntry, SaveUnmarked, At, DirtyRow
  <2> QED
    BY <2>1, <2>2, MalTakesType DEF IInv, TypeOK
<1>3. CASE UNCHANGED known
  BY <1>3
<1>4. Local \/ Website \/ TokenAges \/ Start \/ CheckToken \/ FetchList
      \/ FetchRefused \/ FetchFails \/ ReconcilePlan => UNCHANGED known
  BY DEF Local, Edit, Website, TokenAges, Start, CheckToken, FetchList,
     FetchRefused, FetchFails, ReconcilePlan, rows
<1>5. PullDone \/ StoreFails \/ SaveRolled \/ AniListHalf \/ ListDirty \/ NextRow
      \/ PushDone \/ Guard \/ CallFails \/ MarkMalSynced \/ SyncFlushed
      \/ Restart \/ UNCHANGED vars => UNCHANGED known
  BY DEF PullDone, StoreFails, SaveRolled, AniListHalf, ListDirty, NextRow,
     PushDone, Guard, CallFails, MarkMalSynced, SyncFlushed, Restart, vars, rows
<1> QED
  BY <1>1, <1>2, <1>3, <1>4, <1>5 DEF Next

\* A pull vouches with the entry it saw, a mark with the entry it wrote; no
\* other step touches the snapshot of a row.
LEMMA RowsKnownNext ==
    ASSUME IInv, RowsKnown, RunKnown, [Next]_vars
    PROVE  RowsKnown'
<1>0. \A i \in Id : show[i] \in Row \cup {None} /\ known[i] \subseteq known'[i]
  BY KnownGrows DEF IInv, TypeOK, StoreTypes
\* The snapshot of a row is kept, or there is none.
<1>1. ASSUME \A i \in Id : show'[i] # None =>
               \/ show'[i].pair = None /\ show'[i].score = None
               \/ /\ show[i] # None
                  /\ show'[i].pair = show[i].pair /\ show'[i].score = show[i].score
      PROVE  RowsKnown'
  BY <1>0, <1>1, BelievedGrows, NothingBelieved DEF RowsKnown
<1>2. CASE UNCHANGED show
  BY <1>1, <1>2
<1>3. CASE Local
  <2>0. PICK i \in Id : \E row :
           /\ Edit(i, row)
           /\ \/ row \in {NewRow(linked) : linked \in BOOLEAN}
              \/ /\ show[i] # None
                 /\ row.pair = show[i].pair /\ row.score = show[i].score
    <3>1. PICK i \in Id :
            \/ \E linked \in BOOLEAN : Edit(i, NewRow(linked))
            \/ /\ show[i] # None
               /\ \/ \E s \in Status : Edit(i, [show[i] EXCEPT !.entry.status = s])
                  \/ \E p \in Progress : Edit(i, [show[i] EXCEPT !.entry.progress = p])
                  \/ \E sc \in Score : Edit(i, [show[i] EXCEPT !.entry.score = sc])
      BY <1>3 DEF Local
    <3>2. show[i] # None =>
            /\ \A s \in Status : LET row == [show[i] EXCEPT !.entry.status = s]
                                 IN  row.pair = show[i].pair /\ row.score = show[i].score
            /\ \A p \in Progress : LET row == [show[i] EXCEPT !.entry.progress = p]
                                   IN  row.pair = show[i].pair /\ row.score = show[i].score
            /\ \A sc \in Score : LET row == [show[i] EXCEPT !.entry.score = sc]
                                 IN  row.pair = show[i].pair /\ row.score = show[i].score
      BY <1>0 DEF Row
    <3> QED
      BY <3>1, <3>2
  <2>1. PICK row :
           /\ Edit(i, row)
           /\ \/ row \in {NewRow(linked) : linked \in BOOLEAN}
              \/ /\ show[i] # None
                 /\ row.pair = show[i].pair /\ row.score = show[i].score
    BY <2>0
  <2>2. \A linked \in BOOLEAN : NewRow(linked).pair = None /\ NewRow(linked).score = None
    BY DEF NewRow
  <2>3. show' = [show EXCEPT ![i] = row]
    BY <2>1 DEF Edit
  <2>4. \A j \in Id : j # i => show'[j] = show[j]
    BY <2>3 DEF IInv, TypeOK, StoreTypes
  <2>5. show'[i] = row
    BY <2>3 DEF IInv, TypeOK, StoreTypes
  <2> QED
    BY <1>1, <2>1, <2>2, <2>4, <2>5
<1>4. CASE \E i \in Id : Apply(i)
  <2>1. PICK i \in Id : Apply(i)
    BY <1>4
  <2>2. /\ w.remote[i] \in MalEntry
        /\ \/ Applied(i) = show[i]
           \/ /\ Applied(i).pair = PairOf(w.remote[i])
              /\ Applied(i).score = w.remote[i].score
    BY <2>1, AppliedType DEF Apply, At
  <2>3. /\ show' = [show EXCEPT ![i] = Applied(i)]
        /\ known' = [known EXCEPT ![i] = IF Applied(i) = show[i] THEN @
                                         ELSE @ \cup {w.remote[i]}]
    BY <2>1 DEF Apply
  <2>4. \A j \in Id : j # i => show'[j] = show[j] /\ known'[j] = known[j]
    BY <2>3 DEF IInv, TypeOK, StoreTypes
  <2>5. show'[i] = Applied(i) /\ (Applied(i) # show[i] => w.remote[i] \in known'[i])
    BY <2>3 DEF IInv, TypeOK, StoreTypes
  <2>6. show'[i] # None => Believed(known'[i], show'[i].pair, show'[i].score)
    BY <1>0, <2>2, <2>5, BelievedGrows DEF RowsKnown, Believed
  <2> QED
    BY <2>4, <2>6 DEF RowsKnown
<1>5. CASE PullDone
  <2>1. \A i \in Id : LinkedRow(i) # None =>
          /\ show[i] # None
          /\ LinkedRow(i).pair = show[i].pair /\ LinkedRow(i).score = show[i].score
    BY <1>0 DEF LinkedRow, Row
  <2> QED
    BY <1>1, <1>5, <2>1 DEF PullDone
<1>6. CASE AniListHalf
  BY <1>1, <1>6, AniListHalfShows DEF IInv, TypeOK
<1>7. CASE MarkMalSynced
  <2> DEFINE i == w.row.id
             e == w.row.entry
  <2>1. i \in Id
    BY <1>7, RowInHand DEF MarkMalSynced, At
  <2>2. Believed(known[i], PairOf(e), PushScore(e))
    BY <1>7 DEF RunKnown, MarkMalSynced, At
  <2>3. show' = [show EXCEPT ![i] =
                   IF @ = None THEN None
                   ELSE [@ EXCEPT !.pair = PairOf(e), !.score = PushScore(e)]]
    BY <1>7 DEF MarkMalSynced
  <2> HIDE DEF e
  <2>4. \A j \in Id : j # i => show'[j] = show[j]
    BY <2>3 DEF IInv, TypeOK, StoreTypes
  <2>5. show'[i] # None => /\ show'[i].pair = PairOf(e)
                           /\ show'[i].score = PushScore(e)
    BY <1>0, <2>1, <2>3 DEF IInv, TypeOK, StoreTypes, Row
  <2> HIDE DEF i
  <2> QED
    BY <1>0, <2>2, <2>4, <2>5, BelievedGrows DEF RowsKnown
<1>8. Website \/ TokenAges \/ Start \/ CheckToken \/ FetchList \/ FetchRefused
      \/ FetchFails \/ ReconcilePlan \/ StoreFails \/ SaveRolled => UNCHANGED show
  BY DEF Website, TokenAges, Start, CheckToken, FetchList, FetchRefused, FetchFails,
     ReconcilePlan, StoreFails, SaveRolled, rows
<1>9. ListDirty \/ NextRow \/ PushDone \/ Guard \/ SaveEntry \/ SaveUnmarked
      \/ CallFails \/ SyncFlushed \/ Restart \/ UNCHANGED vars => UNCHANGED show
  BY DEF ListDirty, NextRow, PushDone, Guard, SaveEntry, SaveUnmarked, CallFails,
     SyncFlushed, Restart, vars, rows
<1> QED
  BY <1>2, <1>3, <1>4, <1>5, <1>6, <1>7, <1>8, <1>9 DEF Next

\* A step that neither lists, takes, sends nor marks a row leaves the push alone.
LEMMA RunKept ==
    ASSUME IInv, RunKnown, \A i \in Id : known[i] \subseteq known'[i],
           w'.todo \subseteq w.todo, w'.row \in {w.row, None},
           w'.pc \notin {"put", "mark"}
    PROVE  RunKnown'
<1>1. \A r \in w.todo : r.id \in Id
  BY DEF IInv, TypeOK, Run, DirtyRow
<1>2. w.row # None => w.row.id \in Id
  BY DEF IInv, TypeOK, Run, DirtyRow
<1> QED
  BY <1>1, <1>2, BelievedGrows DEF RunKnown

LEMMA RunKnownNext ==
    ASSUME IInv, RowsKnown, RunKnown, [Next]_vars
    PROVE  RunKnown'
<1> USE DEF Go, At
<1>0. w \in Run /\ \A i \in Id : known[i] \subseteq known'[i]
  BY KnownGrows DEF IInv, TypeOK
\* The run is where it was, or over.
<1>1. CASE w' = w /\ UNCHANGED known
  BY <1>1 DEF RunKnown
<1>2. CASE w' \in {PushStops, RowDone}
  BY <1>0, <1>2, PushSteps, RunKept
<1>3. CASE w' = Idle
  BY <1>0, <1>3, RunKept DEF Idle
<1>4. CASE \E o \in Outcome : w' = PullEnds(o)
  BY <1>0, <1>4, PullEndsType, RunKept
\* The pull.
<1>5. CASE Start \/ StoreFails
  <2>1. w'.todo = {} /\ w'.row = None /\ w'.pc \in {"token", "anilist"}
    BY <1>5 DEF Start, StoreFails, Idle
  <2> QED
    BY <1>0, <2>1, RunKept
<1>6. ASSUME Roll PROVE RunKnown'
  <2>1. CASE Rolls
    <3>1. w'.todo = w.todo /\ w'.row = w.row /\ w'.pc = "fetch"
      BY <1>0, <2>1 DEF Rolls, Run
    <3> QED
      BY <1>0, <3>1, RunKept
  <2> QED
    BY <1>4, <1>6, <2>1 DEF Roll, Refused, Unreachable, Outcome
<1>7. CASE CheckToken
  <2>1. CASE w' = [w EXCEPT !.pc = "fetch"]
    <3>1. w'.todo = w.todo /\ w'.row = w.row /\ w'.pc = "fetch"
      BY <1>0, <2>1 DEF Run
    <3> QED
      BY <1>0, <3>1, RunKept
  <2> QED
    BY <1>6, <1>7, <2>1 DEF CheckToken
<1>8. CASE FetchList
  <2>1. w'.todo = w.todo /\ w'.row = w.row /\ w'.pc = "plan"
    BY <1>0, <1>8 DEF FetchList, Run
  <2> QED
    BY <1>0, <2>1, RunKept
<1>9. CASE FetchRefused \/ FetchFails
  BY <1>4, <1>6, <1>9 DEF FetchRefused, FetchFails, Outcome
<1>10. CASE ReconcilePlan
  <2>1. PICK p, imports, backfill :
          w' = [w EXCEPT !.pc = "apply", !.plan = p, !.imports = imports,
                         !.backfill = backfill]
    BY <1>10 DEF ReconcilePlan
  <2>2. w'.todo = w.todo /\ w'.row = w.row /\ w'.pc = "apply"
    BY <1>0, <2>1 DEF Run
  <2> QED
    BY <1>0, <2>2, RunKept
<1>11. CASE \E i \in Id : Apply(i)
  <2>1. w'.todo = w.todo /\ w'.row = w.row /\ w'.pc = "apply"
    BY <1>0, <1>11 DEF Apply, Run
  <2> QED
    BY <1>0, <2>1, RunKept
<1>12. CASE PullDone
  <2>1. w' = [PullEnds("ok") EXCEPT !.backfill = {}, !.remote = Idle.remote]
    BY <1>12 DEF PullDone
  <2>2. w'.todo = w.todo /\ w'.row = w.row /\ w'.pc \in {"save", "anilist"}
    BY <1>0, <2>1, PullEndsType DEF Run, Outcome
  <2> QED
    BY <1>0, <2>2, RunKept
<1>13. CASE SaveRolled \/ AniListHalf
  <2>1. w'.todo = w.todo /\ w'.row = w.row /\ w'.pc \in {"anilist", "list"}
    BY <1>0, <1>13 DEF SaveRolled, AniListHalf, Run
  <2> QED
    BY <1>0, <2>1, RunKept
\* The push.
<1>14. CASE ListDirty
  <2> DEFINE todo == {[id |-> i, entry |-> show[i].entry, pair |-> show[i].pair,
                       score |-> show[i].score] : i \in {j \in Id : MalDirty(show[j])}}
  <2>1. \A r \in todo : Believed(known[r.id], r.pair, r.score)
    BY DEF RowsKnown, MalDirty
  <2>2. w' = [w EXCEPT !.pc = "next", !.todo = todo] /\ UNCHANGED known
    BY <1>14 DEF ListDirty, rows
  <2> HIDE DEF todo
  <2>3. w'.todo = todo /\ w'.row = w.row /\ w'.pc = "next"
    BY <1>0, <2>2 DEF Run
  <2> QED
    BY <2>1, <2>2, <2>3 DEF RunKnown
<1>15. CASE NextRow
  <2>1. PICK r \in w.todo : w' = [w EXCEPT !.pc = "guard", !.row = r, !.todo = @ \ {r}]
    BY <1>15 DEF NextRow
  <2>2. w'.todo \subseteq w.todo /\ w'.row = r /\ w'.pc = "guard" /\ UNCHANGED known
    BY <1>0, <1>15, <2>1 DEF Run, NextRow, rows
  <2> QED
    BY <2>2 DEF RunKnown
<1>16. CASE Guard
  <2> DEFINE seen == mal[w.row.id]
  <2>1. CASE ~HeldBack(w.row, seen) /\ w' = [w EXCEPT !.pc = "put", !.seen = seen]
    <3>1. w'.todo = w.todo /\ w'.row = w.row /\ w'.seen = seen /\ w'.pc = "put"
      BY <1>0, <2>1 DEF Run
    <3> QED
      BY <1>16, <2>1, <3>1 DEF RunKnown, HeldBack, Guard, rows
  <2> QED
    BY <1>2, <1>16, <2>1 DEF Guard
<1>17. CASE SaveEntry
  <2>1. CASE Honoured
    <3> DEFINE i == w.row.id
               e == w.row.entry
    <3>1. i \in Id /\ e \in Entry /\ MalTakes(i, e)
      BY <1>17, <2>1, RowInHand DEF SaveEntry, DirtyRow
    <3>2. w' = [w EXCEPT !.pc = "mark"]
      BY <1>17, <2>1 DEF SaveEntry
    <3>3. w'.todo = w.todo /\ w'.row = w.row /\ w'.pc = "mark"
      BY <1>0, <3>2 DEF Run
    <3>4. Believed(known'[i], PairOf(e), PushScore(e))
      BY <3>1, MalTakesType DEF IInv, TypeOK, Believed
    <3>5. \A r \in w.todo : r.id \in Id
      BY DEF IInv, TypeOK, Run, DirtyRow
    <3>6. w.row # None
      BY <1>17, RowInHand, NoneIsNothing DEF SaveEntry
    <3> QED
      BY <1>0, <3>1, <3>3, <3>4, <3>5, <3>6, BelievedGrows DEF RunKnown
  <2> QED
    BY <1>2, <1>17, <2>1 DEF SaveEntry
<1>18. PushDone \/ SaveUnmarked \/ CallFails \/ MarkMalSynced
         => w' \in {PushStops, RowDone}
  BY DEF PushDone, SaveUnmarked, CallFails, MarkMalSynced
<1>19. SyncFlushed \/ Restart => w' = Idle
  BY DEF SyncFlushed, Restart
<1>20. Local \/ Website \/ TokenAges \/ UNCHANGED vars => w' = w /\ UNCHANGED known
  BY DEF Local, Edit, Website, TokenAges, vars, rows
<1> QED
  BY <1>1, <1>2, <1>3, <1>5, <1>7, <1>8, <1>9, <1>10, <1>11, <1>12, <1>13, <1>14,
     <1>15, <1>16, <1>17, <1>18, <1>19, <1>20 DEF Next

\* Only a push, or the user on MAL's own site, changes what MAL holds.
LEMMA PushedOver ==
    ASSUME IInv, RunKnown, [Next]_vars, w.pc = "put", w'.pc # "put",
           NEW i \in Id, mal'[i] # mal[i]
    PROVE  i = w.row.id /\ MalTakes(i, w.row.entry) /\ w.row.entry \in Entry
<1>1. w' # w
  OBVIOUS
<1>2. ~(Local \/ Website \/ TokenAges \/ UNCHANGED vars)
  BY <1>1 DEF Local, Edit, Website, TokenAges, vars
<1>3. ~(Start \/ CheckToken \/ FetchList \/ FetchRefused \/ FetchFails
        \/ ReconcilePlan \/ (\E j \in Id : Apply(j)) \/ PullDone \/ StoreFails
        \/ SaveRolled \/ AniListHalf \/ ListDirty \/ NextRow \/ PushDone \/ Guard
        \/ MarkMalSynced \/ SyncFlushed)
  BY DEF At, Start, CheckToken, FetchList, FetchRefused, FetchFails, ReconcilePlan,
     Apply, PullDone, StoreFails, SaveRolled, AniListHalf, ListDirty, NextRow,
     PushDone, Guard, MarkMalSynced, SyncFlushed
<1>4. CallFails \/ Restart => UNCHANGED mal
  BY DEF CallFails, Restart, sites
<1>5. SaveEntry \/ SaveUnmarked
  BY <1>2, <1>3, <1>4 DEF Next
<1>6. MalTakes(w.row.id, w.row.entry)
  BY <1>5 DEF SaveEntry, SaveUnmarked
<1>7. w.row.id \in Id /\ w.row.entry \in Entry
  BY RowInHand DEF DirtyRow
<1> QED
  BY <1>6, <1>7, MalTakesType DEF IInv, TypeOK

\* A push takes back nothing the user did on MAL's site (push_mirror): what it
\* overwrites, pair or score, this library has merged or written, or had no
\* belief about, or appeared after the guard had looked; and no score is erased.
THEOREM NothingOfMalIsLost == Spec => NoMalEditLost
<1> DEFINE KInv == IInv /\ RowsKnown /\ RunKnown
           Kept(i) ==
             At("put") /\ w'.pc # "put" /\ mal[i] # None /\ mal'[i] # mal[i] =>
               /\ PairOf(mal'[i]) # PairOf(mal[i]) =>
                    \/ \E k \in known[i] : PairOf(k) = PairOf(mal[i])
                    \/ w.row.pair = None \/ mal[i] # w.seen
               /\ mal'[i].score # mal[i].score =>
                    /\ mal'[i].score # 0
                    /\ \/ \E k \in known[i] : k.score = mal[i].score
                       \/ w.row.score = None \/ mal[i] # w.seen
<1>1. Init => KInv
  BY InitInv, KnownInit
<1>2. KInv /\ [Next]_vars => KInv'
  BY NextInv, RowsKnownNext, RunKnownNext
<1>3. ASSUME KInv, [Next]_vars, NEW i \in Id PROVE Kept(i)
  <2> SUFFICES ASSUME w.pc = "put", w'.pc # "put", mal[i] # None, mal'[i] # mal[i]
               PROVE  Kept(i)
    BY DEF At
  <2>1. i = w.row.id /\ MalTakes(i, w.row.entry) /\ w.row.entry \in Entry
    BY <1>3, PushedOver
  <2>2. /\ mal'[i].score = IF PushScore(w.row.entry) # None
                           THEN PushScore(w.row.entry) ELSE mal[i].score
        /\ mal'[i] \in MalEntry
    BY <1>3, <2>1, MalTakesType DEF IInv, TypeOK
  <2>3. PushScore(w.row.entry) # None => PushScore(w.row.entry) # 0
    BY DEF PushScore
  <2>4. w.row # None
    BY <1>3, RowInHand, NoneIsNothing
  <2>5. Believed(known[i], w.row.pair, w.row.score) /\ ~HeldBack(w.row, w.seen)
    BY <1>3, <2>1, <2>4 DEF RunKnown
  <2>6. mal[i] = w.seen =>
          /\ w.row.pair # None => PairOf(mal[i]) = w.row.pair
          /\ w.row.score # None => mal[i].score = w.row.score
    BY <2>5 DEF HeldBack
  <2> QED
    BY <2>2, <2>3, <2>5, <2>6 DEF Believed
<1>4. KInv /\ [Next]_vars => [\A i \in Id : Kept(i)]_vars
  BY <1>3
<1>5. [][\A i \in Id : Kept(i)]_vars => NoMalEditLost
  BY DEF NoMalEditLost
<1> QED
  BY <1>1, <1>2, <1>4, <1>5, PTL DEF Spec

-----------------------------------------------------------------------------
\* One undisturbed run.

\* The mirror's snapshot of i is MAL's entry.
InStep(i) ==
    /\ show[i] # None
    /\ show[i].pair = PairOf(mal[i]) /\ Unscored(show[i].score) = mal[i].score

Mirrored(i) == mal[i] # None => InStep(i) /\ show[i].linked

\* What the plan still has to do about i.
Due(i) ==
    mal[i] # None =>
        \/ i \in w.imports /\ show[i] = None
        \/ /\ w.plan[i] # None /\ show[i] # None /\ show[i].entry = w.plan[i].guard
           /\ show[i].linked \/ i \in w.backfill
        \/ /\ i \notin w.imports /\ w.plan[i] = None /\ InStep(i)
           /\ show[i].linked \/ i \in w.backfill

OnAniList(i) ==
    IF show[i] = None THEN ani[i] = None \/ ani[i].status # Watching
    ELSE ani[i] \in {None, show[i].entry}

\* A row to push is the library's, and MAL still has what its snapshot says.
Faithful(r) ==
    /\ show[r.id] # None /\ show[r.id].linked
    /\ r.entry = show[r.id].entry /\ r.pair = show[r.id].pair
    /\ r.score = show[r.id].score
    /\ Mirrored(r.id)

Pending == w.todo \cup (IF w.pc \in {"guard", "put"} THEN {w.row} ELSE {})

\* The rows still to be pushed are pending, everything else is settled.
PushOwed ==
    /\ \A r \in Pending : Faithful(r)
    /\ \A i \in Id : OnAniList(i)
    /\ \A i \in Id : (\A r \in Pending : r.id # i) => Settled(i)
    /\ w.pc # "next" => \A r \in w.todo : r.id # w.row.id

Undisturbed ==
    calm /\ w.outcome = "ok" =>
      /\ w.pc \notin {"idle", "token", "fetch", "post"} => Honoured
      /\ w.pc \in {"plan", "apply"} => w.remote = mal
      /\ w.pc = "apply" => \A i \in Id : Due(i)
      /\ w.pc \in {"save", "anilist", "list"} => \A i \in Id : Mirrored(i)
      /\ w.pc = "list" => \A i \in Id : OnAniList(i)
      /\ w.pc \in {"next", "guard", "put", "mark"} => PushOwed
      /\ w.pc = "post" => \A i \in Id : Settled(i)

\* A pull has no outcome before it ends.
PullIsGoing == w.pc \in {"token"} \cup Early => w.outcome = "ok"

LEMMA PullIsGoingNext == IInv /\ PullIsGoing /\ [Next]_vars => PullIsGoing'
<1> SUFFICES ASSUME IInv, PullIsGoing, [Next]_vars PROVE PullIsGoing'
  OBVIOUS
<1> USE DEF Go, At, PullIsGoing, Early
<1>0. w \in Run
  BY DEF IInv, TypeOK
<1>1. CASE Quiet
  BY <1>1, QuietSteps DEF Late
<1>2. Roll => w'.outcome = w.outcome \/ w'.pc \in {"save", "anilist"}
  <2>1. Rolls => w'.outcome = w.outcome
    BY <1>0 DEF Rolls, Run
  <2> QED
    BY <1>0, <2>1, PullEndsType DEF Roll, Refused, Unreachable, Outcome
<1>3. CheckToken => w'.outcome = w.outcome \/ w'.pc \in {"save", "anilist"}
  <2>1. w' = [w EXCEPT !.pc = "fetch"] => w'.outcome = w.outcome
    BY <1>0 DEF Run
  <2> QED
    BY <1>2, <2>1 DEF CheckToken
<1>4. CheckToken => w.pc = "token"
  BY DEF CheckToken
<1>5. CASE FetchRefused \/ FetchFails
  BY <1>0, <1>2, <1>5, PullEndsType DEF FetchRefused, FetchFails, Outcome
<1>6. CASE PullDone
  <2>1. w' = [PullEnds("ok") EXCEPT !.backfill = {}, !.remote = Idle.remote]
    BY <1>6 DEF PullDone
  <2> QED
    BY <1>0, <2>1, PullEndsType DEF Run, Outcome
<1>7. CASE Start \/ StoreFails \/ SyncFlushed \/ Restart
  <2>1. Start \/ SyncFlushed \/ Restart => w'.outcome = "ok"
    <3>1. Idle.outcome = "ok" /\ [Idle EXCEPT !.pc = "token", !.auth = mem].outcome = "ok"
      BY DEF Idle
    <3> QED
      BY <3>1 DEF Start, SyncFlushed, Restart
  <2>2. StoreFails => w'.pc = "anilist"
    BY DEF StoreFails, Idle
  <2> QED
    BY <1>7, <2>1, <2>2
<1>8. CASE SaveRolled
  BY <1>0, <1>8 DEF SaveRolled, Run
<1>9. CASE Local \/ Website \/ TokenAges \/ UNCHANGED vars
  BY <1>9 DEF Local, Edit, Website, TokenAges, vars
<1> QED
  BY <1>1, <1>3, <1>4, <1>5, <1>6, <1>7, <1>8, <1>9 DEF Next, Quiet

LEMMA UndisturbedInit == Init => Undisturbed
BY DEF Init, Undisturbed

LEMMA FetchUndisturbed ==
    ASSUME IInv, FetchList PROVE Undisturbed'
<1>1. /\ w'.pc = "plan" /\ w'.remote = mal /\ mal' = mal
      /\ Honoured /\ w'.auth = w.auth /\ live' = live /\ access' = access
  BY DEF FetchList, Go, IInv, TypeOK, Run, sites, tokens
<1> QED
  BY <1>1 DEF Undisturbed, Honoured

LEMMA PlanUndisturbed ==
    ASSUME IInv, Undisturbed, ReconcilePlan PROVE Undisturbed'
<1> SUFFICES ASSUME calm', w'.outcome = "ok" PROVE Undisturbed'
  BY DEF Undisturbed
<1> DEFINE listed == {i \in Id : w.remote[i] # None}
           held   == {i \in listed : show[i] # None}
           plan   == [i \in Id |-> IF i \in held
                                   THEN PlanRow(show[i], w.remote[i]) ELSE None]
<1>1. w' = [w EXCEPT !.pc = "apply", !.plan = plan, !.imports = listed \ held,
                     !.backfill = {i \in held : ~show[i].linked}]
  BY DEF ReconcilePlan, Go
<1> HIDE DEF plan
<1>2. /\ w'.pc = "apply" /\ w'.plan = plan /\ w'.imports = listed \ held
      /\ w'.backfill = {i \in held : ~show[i].linked}
      /\ w'.remote = w.remote /\ w'.auth = w.auth /\ w'.outcome = w.outcome
      /\ UNCHANGED <<show, mal, live, access, calm>> /\ w.pc = "plan"
  BY <1>1 DEF ReconcilePlan, At, IInv, TypeOK, Run, rows, sites, tokens
<1>3. w.remote = mal /\ Honoured
  BY <1>2 DEF Undisturbed
<1>4. ASSUME NEW i \in Id, mal[i] # None, show[i] # None
      PROVE  \/ plan[i] # None /\ show[i].entry = plan[i].guard
             \/ plan[i] = None /\ InStep(i)
  <2>1. plan[i] = PlanRow(show[i], mal[i]) /\ show[i] \in Row /\ mal[i] \in MalEntry
    BY <1>3, <1>4 DEF plan, IInv, TypeOK, StoreTypes
  <2>2. CASE plan[i] # None
    BY <2>1, <2>2, PlanRowType
  <2>3. CASE plan[i] = None
    <3>1. MalBase(show[i]) = mal[i]
      BY <2>1, <2>3, PlanRowType
    <3>2. /\ show[i].pair # None
          /\ mal[i].status = show[i].pair.status
          /\ mal[i].progress = show[i].pair.progress
          /\ mal[i].score = Unscored(show[i].score)
      BY <1>4, <3>1 DEF MalBase
    <3>3. show[i].pair \in Pair
      BY <2>1, <3>2 DEF Row
    <3>4. show[i].pair = PairOf(mal[i])
      BY <3>2, <3>3 DEF Pair, PairOf
    <3> QED
      BY <1>4, <2>3, <3>2, <3>4 DEF InStep
  <2> QED
    BY <2>2, <2>3
<1>5. ASSUME NEW i \in Id PROVE Due(i)'
  <2>1. CASE mal[i] # None /\ show[i] = None
    BY <1>2, <1>3, <2>1 DEF Due
  <2>2. CASE mal[i] # None /\ show[i] # None
    <3>1. i \in held
      BY <1>3, <2>2
    <3>2. InStep(i) => InStep(i)'
      BY <1>2 DEF InStep
    <3> QED
      BY <1>2, <1>4, <2>2, <3>1, <3>2 DEF Due
  <2> QED
    BY <1>2, <2>1, <2>2 DEF Due
<1> QED
  BY <1>2, <1>3, <1>5 DEF Undisturbed, Honoured

\* What is due about i is done by its import or its guarded update.
LEMMA AppliedIsInStep ==
    ASSUME IInv, w.pc = "apply", w.remote = mal, NEW i \in Id, Due(i),
           i \in w.imports \/ w.plan[i] # None
    PROVE  /\ Applied(i) # None
           /\ Applied(i).pair = PairOf(mal[i]) /\ Unscored(Applied(i).score) = mal[i].score
           /\ Applied(i).linked \/ i \in w.backfill
<1>1. mal[i] \in MalEntry /\ mal[i] # None /\ show[i] \in Row \cup {None}
  BY AppliedType, MalEntries DEF IInv, TypeOK, StoreTypes
<1>2. mal[i].score # None
  BY <1>1, NoneIsNothing DEF MalEntry, Entry
<1>3. CASE i \in w.imports
  <2> DEFINE new == [NewRow(TRUE) EXCEPT !.entry = mal[i]]
  <2>1. show[i] = None
    BY <1>1, <1>3 DEF Due, IInv, PlanIsOfTheList
  <2>2. Applied(i) = Imported(None, mal[i])
    BY <1>3, <2>1 DEF Applied, Mintable, IInv, PlanIsOfTheList
  <2>3. Applied(i) = Snapshotted(new, mal[i])
    BY <2>2 DEF Imported
  <2>4. new \in Row /\ new.linked
    BY <1>1, NewRowType, MalEntries DEF Row, NewRow
  <2> HIDE DEF new
  <2> QED
    BY <1>1, <1>2, <2>3, <2>4, SnapshottedType, RowIsNotNone DEF Unscored
<1>4. CASE i \notin w.imports
  <2> DEFINE p   == w.plan[i]
             new == [show[i] EXCEPT !.entry = p.merged]
  <2>1. /\ p # None /\ show[i] # None /\ show[i].entry = p.guard
        /\ show[i].linked \/ i \in w.backfill
    BY <1>1, <1>4 DEF Due
  <2>2. p.merged \in Entry /\ p.snapshot = mal[i]
    BY <2>1 DEF IInv, TypeOK, Run, PlanIsOfTheList, PlannedRow
  <2>3. Applied(i) = Snapshotted(new, mal[i])
    BY <1>4, <2>1, <2>2 DEF Applied
  <2>4. new \in Row /\ new.linked = show[i].linked
    BY <1>1, <2>1, <2>2 DEF Row
  <2> HIDE DEF new, p
  <2> QED
    BY <1>1, <1>2, <2>1, <2>3, <2>4, SnapshottedType, RowIsNotNone DEF Unscored
<1> QED
  BY <1>3, <1>4

LEMMA ApplyUndisturbed ==
    ASSUME IInv, Undisturbed, NEW i \in Id, Apply(i) PROVE Undisturbed'
<1> SUFFICES ASSUME calm', w'.outcome = "ok" PROVE Undisturbed'
  BY DEF Undisturbed
<1>1. /\ w' = [w EXCEPT !.imports = @ \ {i}, !.plan[i] = None]
      /\ i \in w.imports \/ w.plan[i] # None
      /\ show' = [show EXCEPT ![i] = Applied(i)]
      /\ UNCHANGED <<mal, live, access, calm>> /\ w.pc = "apply"
  BY DEF Apply, Go, At, sites, tokens
<1>2. /\ w'.imports = w.imports \ {i} /\ w'.plan = [w.plan EXCEPT ![i] = None]
      /\ w'.pc = "apply" /\ w'.remote = w.remote /\ w'.backfill = w.backfill
      /\ w'.auth = w.auth /\ w'.outcome = w.outcome
  BY <1>1 DEF IInv, TypeOK, Run
<1>3. w'.plan[i] = None /\ \A j \in Id : j # i => w'.plan[j] = w.plan[j]
  BY <1>2 DEF IInv, TypeOK, Run
<1>4. show'[i] = Applied(i) /\ \A j \in Id : j # i => show'[j] = show[j]
  BY <1>1 DEF IInv, TypeOK, StoreTypes
<1>5. w.remote = mal /\ Honoured /\ \A j \in Id : Due(j)
  BY <1>1, <1>2 DEF Undisturbed
<1>6. Due(i)'
  BY <1>1, <1>2, <1>3, <1>4, <1>5, AppliedIsInStep DEF Due, InStep
<1>7. ASSUME NEW j \in Id, j # i PROVE Due(j)'
  BY <1>1, <1>2, <1>3, <1>4, <1>5, <1>7 DEF Due, InStep
<1> QED
  BY <1>1, <1>2, <1>5, <1>6, <1>7 DEF Undisturbed, Honoured

LEMMA PullDoneUndisturbed ==
    ASSUME IInv, PullIsGoing, Undisturbed, PullDone PROVE Undisturbed'
<1> SUFFICES ASSUME calm', w'.outcome = "ok" PROVE Undisturbed'
  BY DEF Undisturbed
<1>0. w \in Run /\ w.pc = "apply"
  BY DEF IInv, TypeOK, PullDone, At
<1>1. w' = [PullEnds("ok") EXCEPT !.backfill = {}, !.remote = Idle.remote]
  BY DEF PullDone, Go
<1>2. w'.pc \in {"save", "anilist"} /\ w'.auth = w.auth
  BY <1>0, <1>1, PullEndsType DEF Run, Outcome
<1>3. UNCHANGED <<mal, live, access, calm>> /\ show' = [i \in Id |-> LinkedRow(i)]
  BY DEF PullDone, sites, tokens
<1>4. CASE w.outcome = "ok"
  <2>1. Honoured /\ \A i \in Id : Due(i)
    BY <1>0, <1>3, <1>4 DEF Undisturbed
  <2>2. ASSUME NEW i \in Id PROVE Mirrored(i)'
    <3>1. mal[i] # None => /\ InStep(i) /\ (show[i].linked \/ i \in w.backfill)
                           /\ show[i] \in Row
      BY <2>1 DEF Due, PullDone, InStep, IInv, TypeOK, StoreTypes
    <3>2. mal[i] # None => /\ LinkedRow(i) \in Row /\ LinkedRow(i).linked
                           /\ LinkedRow(i).pair = show[i].pair
                           /\ LinkedRow(i).score = show[i].score
      BY <3>1 DEF LinkedRow, InStep, Row
    <3> QED
      BY <1>3, <3>1, <3>2, RowIsNotNone DEF Mirrored, InStep
  <2> QED
    BY <1>2, <1>3, <2>1, <2>2 DEF Undisturbed, Honoured
<1>5. w.outcome = "ok"
  BY <1>0 DEF PullIsGoing, Early
<1> QED
  BY <1>4, <1>5

\* What the AniList half leaves of one show: what the site holds is what the
\* row says, and what is not imported is not being watched there.
LEMMA AniSettles ==
    ASSUME NEW r \in Row \cup {None}, NEW a \in AniEntry \cup {None},
           NEW linked \in BOOLEAN
    PROVE  LET p == AniPulled(r, a, linked)
               n == AniPushed(p)
               b == IF AniDirty(p) THEN AniStored(p.entry) ELSE a
           IN  /\ IF n = None THEN b = None \/ b.status # Watching
                  ELSE b \in {None, n.entry}
               /\ r # None => /\ n # None /\ n.pair = r.pair
                              /\ n.score = r.score /\ n.linked = r.linked
<1> DEFINE p == AniPulled(r, a, linked)
           n == AniPushed(p)
           b == IF AniDirty(p) THEN AniStored(p.entry) ELSE a
<1>1. p \in Row \cup {None} /\ n \in Row \cup {None} /\ (n = None <=> p = None)
  BY AniPulledType, AniPushedType
<1>2. r # None => /\ n # None /\ n.pair = r.pair
                  /\ n.score = r.score /\ n.linked = r.linked
  BY <1>1, AniPulledType, AniPushedType
<1>3. CASE AniDirty(p)
  <2>1. p \in Row
    BY <1>1, <1>3 DEF AniDirty
  <2>2. n = [p EXCEPT !.entry = AniStored(@), !.synced = AniStored(p.entry)]
    BY <1>3 DEF AniPushed
  <2>3. n.entry = AniStored(p.entry)
    BY <2>1, <2>2 DEF Row
  <2> QED
    BY <1>1, <1>2, <1>3, <2>1, <2>3, RowIsNotNone
<1>4. CASE ~AniDirty(p)
  <2>1. n = p /\ b = a
    BY <1>4 DEF AniPushed
  <2>2. p # None => p.synced = p.entry
    BY <1>4 DEF AniDirty
  <2>3. CASE a = None
    BY <1>2, <2>1, <2>3
  <2>4. CASE a # None /\ r = None
    <3>1. CASE a.status = Watching
      <4>1. p = [NewRow(linked) EXCEPT !.entry = a, !.synced = a]
        BY <2>4, <3>1 DEF AniPulled
      <4>2. p.synced = a /\ p \in Row
        <5>1. a \in Entry
          BY <2>4, AniEntries
        <5> QED
          BY <4>1, <5>1, NewRowType DEF Row, MaybeEntry
      <4> QED
        BY <1>2, <2>1, <2>2, <4>2, RowIsNotNone
    <3>2. CASE a.status # Watching
      <4>1. p = None
        BY <2>4, <3>2 DEF AniPulled
      <4> QED
        BY <1>2, <2>1, <3>2, <4>1
    <3> QED
      BY <3>1, <3>2
  <2>5. CASE a # None /\ r # None
    <3> DEFINE m == Merged(r.synced, r.entry, a)
    <3>1. p = [r EXCEPT !.entry = m, !.synced = a]
      BY <2>5 DEF AniPulled
    <3> HIDE DEF m
    <3>2. p.synced = a
      BY <2>5, <3>1 DEF Row
    <3> QED
      BY <1>1, <1>2, <2>1, <2>2, <2>5, <3>2
  <2> QED
    BY <2>3, <2>4, <2>5
<1> QED
  BY <1>3, <1>4

LEMMA AniListUndisturbed ==
    ASSUME IInv, Undisturbed, AniListHalf PROVE Undisturbed'
<1> SUFFICES ASSUME calm', w'.outcome = "ok" PROVE Undisturbed'
  BY DEF Undisturbed
<1>1. /\ w'.pc = "list" /\ w'.auth = w.auth /\ w'.outcome = w.outcome
      /\ UNCHANGED <<mal, live, access>> /\ w.pc = "anilist"
  BY DEF AniListHalf, Go, At, IInv, TypeOK, Run, tokens
<1>2. PICK linked \in BOOLEAN :
        LET pulled(i) == AniPulled(show[i], ani[i], linked) IN
        /\ show' = [i \in Id |-> AniPushed(pulled(i))]
        /\ ani' = [i \in Id |-> IF AniDirty(pulled(i))
                                THEN AniStored(pulled(i).entry) ELSE ani[i]]
        /\ calm' = calm
  BY DEF AniListHalf, Fault
<1>3. Honoured /\ \A i \in Id : Mirrored(i)
  BY <1>1, <1>2 DEF Undisturbed
<1>4. ASSUME NEW i \in Id PROVE Mirrored(i)' /\ OnAniList(i)'
  <2> DEFINE p == AniPulled(show[i], ani[i], linked)
             n == AniPushed(p)
             b == IF AniDirty(p) THEN AniStored(p.entry) ELSE ani[i]
  <2>1. show[i] \in Row \cup {None} /\ ani[i] \in AniEntry \cup {None}
    BY DEF IInv, TypeOK, StoreTypes
  <2>2. show'[i] = n /\ ani'[i] = b
    BY <1>2
  <2>3. /\ IF n = None THEN b = None \/ b.status # Watching ELSE b \in {None, n.entry}
        /\ show[i] # None => /\ n # None /\ n.pair = show[i].pair
                             /\ n.score = show[i].score /\ n.linked = show[i].linked
    BY <2>1, AniSettles
  <2> HIDE DEF n, b
  <2>4. OnAniList(i)'
    BY <2>2, <2>3 DEF OnAniList
  <2>5. Mirrored(i)'
    BY <1>1, <1>3, <2>2, <2>3 DEF Mirrored, InStep
  <2> QED
    BY <2>4, <2>5
<1> QED
  BY <1>1, <1>3, <1>4 DEF Undisturbed, Honoured

\* Nothing left to push for i: the three tell the same story.
LEMMA CleanIsSettled ==
    ASSUME NEW i \in Id, Mirrored(i), OnAniList(i), ~MalDirty(show[i])
    PROVE  Settled(i)
BY DEF Mirrored, InStep, OnAniList, MalDirty, Settled

LEMMA ListUndisturbed ==
    ASSUME IInv, Undisturbed, ListDirty PROVE Undisturbed'
<1> SUFFICES ASSUME calm', w'.outcome = "ok" PROVE Undisturbed'
  BY DEF Undisturbed
<1> DEFINE todo == {[id |-> i, entry |-> show[i].entry, pair |-> show[i].pair,
                     score |-> show[i].score] : i \in {j \in Id : MalDirty(show[j])}}
<1>1. /\ w' = [w EXCEPT !.pc = "next", !.todo = todo] /\ w.pc = "list"
      /\ UNCHANGED <<show, ani, mal, live, access, calm>>
  BY DEF ListDirty, Go, At, rows, sites, tokens, bounds
<1>2. \A r \in todo : /\ r.id \in Id /\ MalDirty(show[r.id]) /\ r.entry = show[r.id].entry
                      /\ r.pair = show[r.id].pair /\ r.score = show[r.id].score
  OBVIOUS
<1>3. ASSUME NEW i \in Id, MalDirty(show[i]) PROVE \E r \in todo : r.id = i
  <2> DEFINE r == [id |-> i, entry |-> show[i].entry, pair |-> show[i].pair,
                   score |-> show[i].score]
  <2>1. r \in todo /\ r.id = i
    BY <1>3
  <2> QED
    BY <2>1
<1> HIDE DEF todo
<1>4. w'.pc = "next" /\ w'.todo = todo /\ w'.auth = w.auth /\ w'.outcome = w.outcome
  BY <1>1 DEF IInv, TypeOK, Run
<1>5. Honoured /\ \A i \in Id : Mirrored(i) /\ OnAniList(i)
  BY <1>1, <1>4 DEF Undisturbed
<1>6. Pending' = todo
  BY <1>4 DEF Pending
<1>7. \A i \in Id : /\ Mirrored(i)' <=> Mirrored(i)
                    /\ OnAniList(i)' <=> OnAniList(i)
                    /\ Settled(i)' <=> Settled(i)
  BY <1>1 DEF Mirrored, InStep, OnAniList, Settled
<1>8. \A r \in todo : Faithful(r)'
  BY <1>1, <1>2, <1>5, <1>7 DEF Faithful, MalDirty
<1>9. \A i \in Id : (\A r \in todo : r.id # i) => Settled(i)'
  BY <1>3, <1>5, <1>7, CleanIsSettled
<1>10. PushOwed'
  BY <1>4, <1>5, <1>6, <1>7, <1>8, <1>9 DEF PushOwed
<1> QED
  BY <1>1, <1>4, <1>5, <1>10 DEF Undisturbed, Honoured

\* The stores and the two sites are as they were.
Kept == UNCHANGED <<show, ani, mal, live, access, calm>>

LEMMA KeptShows ==
    ASSUME Kept
    PROVE  /\ \A i \in Id : (OnAniList(i)' <=> OnAniList(i)) /\ (Settled(i)' <=> Settled(i))
           /\ \A r : Faithful(r)' <=> Faithful(r)
BY DEF Kept, OnAniList, Settled, Faithful, Mirrored, InStep

LEMMA NextRowUndisturbed ==
    ASSUME IInv, Undisturbed, NextRow PROVE Undisturbed'
<1> SUFFICES ASSUME calm', w'.outcome = "ok" PROVE Undisturbed'
  BY DEF Undisturbed
<1>1. Kept /\ w.pc = "next"
  BY DEF NextRow, At, Kept, rows, sites, tokens, bounds
<1>2. PICK r \in w.todo : w' = [w EXCEPT !.pc = "guard", !.row = r, !.todo = @ \ {r}]
  BY DEF NextRow, Go
<1>3. /\ w'.pc = "guard" /\ w'.row = r /\ w'.todo = w.todo \ {r}
      /\ w'.auth = w.auth /\ w'.outcome = w.outcome
  BY <1>2 DEF IInv, TypeOK, Run
<1>4. Honoured /\ PushOwed
  BY <1>1, <1>3 DEF Undisturbed, Kept
<1>5. Pending' = Pending /\ Pending = w.todo
  BY <1>1, <1>3 DEF Pending
<1>6. \A q \in w.todo \ {r} : q.id # r.id
  <2>1. \A q \in w.todo : Faithful(q) /\ q \in DirtyRow
    BY <1>4, <1>5 DEF PushOwed, IInv, TypeOK, Run
  <2>2. ASSUME NEW q \in w.todo, q.id = r.id PROVE q = r
    BY <2>1, <2>2 DEF Faithful, DirtyRow
  <2> QED
    BY <2>2
<1>7. PushOwed'
  BY <1>1, <1>3, <1>4, <1>5, <1>6, KeptShows DEF PushOwed
<1> QED
  BY <1>1, <1>3, <1>4, <1>7 DEF Undisturbed, Honoured, Kept

LEMMA PushDoneUndisturbed ==
    ASSUME IInv, Undisturbed, PushDone PROVE Undisturbed'
<1> SUFFICES ASSUME calm', w'.outcome = "ok" PROVE Undisturbed'
  BY DEF Undisturbed
<1>1. Kept /\ w.pc = "next" /\ w.todo = {} /\ w' = PushStops
  BY DEF PushDone, Go, At, Kept, rows, sites, tokens, bounds
<1>2. w'.pc = "post" /\ w'.outcome = w.outcome
  BY <1>1 DEF PushStops, IInv, TypeOK, Run
<1>3. Pending = {}
  BY <1>1 DEF Pending
<1>4. \A i \in Id : Settled(i)
  BY <1>1, <1>2, <1>3 DEF Undisturbed, PushOwed, Kept
<1> QED
  BY <1>1, <1>2, <1>4, KeptShows DEF Undisturbed

LEMMA GuardUndisturbed ==
    ASSUME IInv, Undisturbed, Guard PROVE Undisturbed'
<1> SUFFICES ASSUME calm', w'.outcome = "ok" PROVE Undisturbed'
  BY DEF Undisturbed
<1> DEFINE i    == w.row.id
           seen == mal[i]
<1>0. w \in Run
  BY DEF IInv, TypeOK
<1>1. Kept /\ w.pc = "guard" /\ w.row \in DirtyRow /\ i \in Id
  BY RowInHand DEF Guard, At, Kept, rows, sites, tokens, bounds
<1>2. w.outcome = "ok"
  <2>1. CASE w' \in {PushStops, RowDone}
    BY <1>0, <2>1, PushSteps
  <2>2. CASE w' = [w EXCEPT !.pc = "put", !.seen = seen]
    BY <1>0, <2>2 DEF Run
  <2> QED
    BY <2>1, <2>2 DEF Guard, Go
<1>3. Honoured /\ PushOwed
  BY <1>1, <1>2 DEF Undisturbed, Kept
<1>4. w.row \in Pending
  BY <1>1 DEF Pending
<1>5. ~HeldBack(w.row, seen)
  <2>1. Faithful(w.row)
    BY <1>3, <1>4 DEF PushOwed
  <2>2. seen # None => /\ w.row.pair = PairOf(seen)
                       /\ Unscored(w.row.score) = seen.score
    BY <2>1 DEF Faithful, Mirrored, InStep
  <2> QED
    BY <2>2 DEF HeldBack, Unscored
<1>6. w' = [w EXCEPT !.pc = "put", !.seen = seen]
  BY <1>3, <1>5 DEF Guard, Go
<1>7. w'.pc = "put" /\ w'.todo = w.todo /\ w'.row = w.row /\ w'.auth = w.auth
  BY <1>0, <1>6 DEF Run
<1>8. Pending' = Pending
  BY <1>1, <1>7 DEF Pending
<1>9. PushOwed'
  BY <1>1, <1>3, <1>7, <1>8, KeptShows DEF PushOwed
<1> QED
  BY <1>1, <1>3, <1>7, <1>9 DEF Undisturbed, Honoured, Kept

LEMMA SaveUndisturbed ==
    ASSUME IInv, Undisturbed, SaveEntry PROVE Undisturbed'
<1> SUFFICES ASSUME calm', w'.outcome = "ok" PROVE Undisturbed'
  BY DEF Undisturbed
<1> PICK i : i = w.row.id
  OBVIOUS
<1> DEFINE e == w.row.entry
<1>0. w \in Run
  BY DEF IInv, TypeOK
<1>1. /\ w.pc = "put" /\ w.row \in DirtyRow /\ i \in Id /\ e \in Entry
      /\ UNCHANGED <<show, ani, live, access, calm>>
  BY RowInHand DEF SaveEntry, At, DirtyRow, tokens, bounds
<1>2. w.outcome = "ok"
  <2>1. CASE w' = PushStops
    BY <1>0, <2>1, PushSteps
  <2>2. CASE w' = [w EXCEPT !.pc = "mark"]
    BY <1>0, <2>2 DEF Run
  <2> QED
    BY <2>1, <2>2 DEF SaveEntry, Go
<1>3. Honoured /\ PushOwed
  BY <1>1, <1>2 DEF Undisturbed
<1>4. MalTakes(i, e) /\ w' = [w EXCEPT !.pc = "mark"]
  BY <1>3 DEF SaveEntry, Go
<1>5. w'.pc = "mark" /\ w'.todo = w.todo /\ w'.row = w.row /\ w'.auth = w.auth
  BY <1>0, <1>4 DEF Run
<1>6. Pending = w.todo \cup {w.row} /\ Pending' = w.todo
  BY <1>1, <1>5 DEF Pending
<1>7. /\ \A j \in Id : j # i => mal'[j] = mal[j]
      /\ PairOf(mal'[i]) = PairOf(e) /\ mal'[i] # None
      /\ PushScore(e) # None => mal'[i].score = PushScore(e)
  BY <1>1, <1>4, MalTakesType, MalEntries DEF IInv, TypeOK
<1>8. Settled(i)'
  <2>1. Faithful(w.row) /\ OnAniList(i)
    BY <1>1, <1>3, <1>6 DEF PushOwed
  <2>2. MalScore[e.score] \in {0, mal'[i].score}
    BY <1>1, <1>7, RoundedScore, NoneIsNothing DEF PushScore, Entry
  <2> QED
    BY <1>1, <1>7, <2>1, <2>2 DEF Settled, Faithful, OnAniList
<1>9. \A r \in w.todo : Faithful(r)'
  <2>1. \A r \in w.todo : r.id \in Id /\ r.id # i /\ Faithful(r)
    BY <1>0, <1>1, <1>3, <1>6 DEF PushOwed, Run, DirtyRow
  <2> QED
    BY <1>1, <1>7, <2>1 DEF Faithful, Mirrored, InStep
<1>10. \A j \in Id : (\A r \in w.todo : r.id # j) => Settled(j)'
  <2>1. ASSUME NEW j \in Id, j # i, \A r \in w.todo : r.id # j PROVE Settled(j)'
    <3>1. Settled(j)
      BY <1>3, <1>6, <2>1 DEF PushOwed
    <3> QED
      BY <1>1, <1>7, <2>1, <3>1 DEF Settled
  <2> QED
    BY <1>8, <2>1
<1>11. \A j \in Id : OnAniList(j)'
  BY <1>1, <1>3 DEF PushOwed, OnAniList
<1>12. PushOwed'
  <2>1. \A r \in w.todo : r.id # i
    BY <1>1, <1>3 DEF PushOwed
  <2> QED
    BY <1>5, <1>6, <1>9, <1>10, <1>11, <2>1 DEF PushOwed
<1> QED
  BY <1>1, <1>3, <1>5, <1>12 DEF Undisturbed, Honoured

LEMMA MarkUndisturbed ==
    ASSUME IInv, Undisturbed, MarkMalSynced PROVE Undisturbed'
<1> SUFFICES ASSUME calm', w'.outcome = "ok" PROVE Undisturbed'
  BY DEF Undisturbed
<1> PICK i : i = w.row.id
  OBVIOUS
<1> DEFINE e == w.row.entry
<1>0. w \in Run
  BY DEF IInv, TypeOK
<1>1. /\ w.pc = "mark" /\ w.row \in DirtyRow /\ i \in Id /\ w' = RowDone
      /\ UNCHANGED <<ani, mal, live, access, calm>>
      /\ show' = [show EXCEPT ![i] =
                   IF @ = None THEN None
                   ELSE [@ EXCEPT !.pair = PairOf(e), !.score = PushScore(e)]]
  BY RowInHand DEF MarkMalSynced, Go, At, sites, tokens, bounds
<1>2. /\ w'.pc = "next" /\ w'.todo = w.todo /\ w'.auth = w.auth
      /\ w'.outcome = w.outcome
  BY <1>0, <1>1 DEF RowDone, Run
<1>3. Honoured /\ PushOwed
  BY <1>1, <1>2 DEF Undisturbed
<1>4. Pending = w.todo /\ Pending' = w.todo
  BY <1>1, <1>2 DEF Pending
<1>5. \A j \in Id : j # i => show'[j] = show[j]
  BY <1>1 DEF IInv, TypeOK, StoreTypes
<1>6. /\ show'[i] = None <=> show[i] = None
      /\ show[i] # None => show'[i].entry = show[i].entry /\ show'[i].linked = show[i].linked
  <2>1. CASE show[i] = None
    BY <1>1, <2>1 DEF IInv, TypeOK, StoreTypes
  <2>2. CASE show[i] # None
    <3>1. show[i] \in Row
      BY <1>1, <2>2 DEF IInv, TypeOK, StoreTypes
    <3>2. show'[i] = [show[i] EXCEPT !.pair = PairOf(e), !.score = PushScore(e)]
      BY <1>1, <2>2 DEF IInv, TypeOK, StoreTypes
    <3>3. e \in Entry
      BY <1>1 DEF DirtyRow
    <3> HIDE DEF e
    <3>4. [show[i] EXCEPT !.pair = PairOf(e), !.score = PushScore(e)] \in Row
      BY <3>1, <3>3, MarkedRow, Zenon
    <3> QED
      BY <2>2, <3>1, <3>2, <3>4, RowIsNotNone DEF Row
  <2> QED
    BY <2>1, <2>2
<1>7. \A j \in Id : (Settled(j) => Settled(j)') /\ (OnAniList(j) => OnAniList(j)')
  <2>1. ASSUME NEW j \in Id, j # i
        PROVE  (Settled(j) => Settled(j)') /\ (OnAniList(j) => OnAniList(j)')
    BY <1>1, <1>5, <2>1 DEF Settled, OnAniList
  <2>2. (Settled(i) => Settled(i)') /\ (OnAniList(i) => OnAniList(i)')
    BY <1>1, <1>6 DEF Settled, OnAniList
  <2> QED
    BY <2>1, <2>2
<1>8. \A r \in w.todo : Faithful(r)'
  <2>1. \A r \in w.todo : r.id \in Id /\ r.id # i /\ Faithful(r)
    BY <1>0, <1>1, <1>3, <1>4 DEF PushOwed, Run, DirtyRow
  <2> QED
    BY <1>1, <1>5, <2>1 DEF Faithful, Mirrored, InStep
<1>9. PushOwed'
  BY <1>2, <1>3, <1>4, <1>7, <1>8 DEF PushOwed
<1> QED
  BY <1>1, <1>2, <1>3, <1>9 DEF Undisturbed, Honoured

LEMMA UndisturbedNext ==
    ASSUME IInv, PullIsGoing, Undisturbed, [Next]_vars
    PROVE  Undisturbed'
<1> USE DEF Go, At
<1>0. w \in Run
  BY DEF IInv, TypeOK
\* Disturbed: an edit, a fault, a pull that comes to nothing.
<1>1. CASE calm' = FALSE
  BY <1>1 DEF Undisturbed
<1>2. CASE w'.outcome # "ok"
  BY <1>2 DEF Undisturbed
<1>3. CASE w'.pc \in {"idle", "token", "fetch"}
  BY <1>3 DEF Undisturbed
<1>4. Local \/ Website \/ TokenAges \/ FetchFails \/ StoreFails \/ SaveUnmarked
      \/ CallFails \/ Restart => calm' = FALSE
  BY DEF Local, Edit, Website, TokenAges, FetchFails, StoreFails, SaveUnmarked,
     CallFails, Restart, Fault
<1>5. ASSUME Roll PROVE Undisturbed'
  <2>1. Rolls => w'.pc = "fetch"
    BY <1>0 DEF Rolls, Run
  <2>2. Refused => w'.outcome # "ok"
    BY <1>0, PullEndsType DEF Refused, Outcome
  <2>3. Unreachable => calm' = FALSE
    BY DEF Unreachable, Fault
  <2> QED
    BY <1>1, <1>2, <1>3, <1>5, <2>1, <2>2, <2>3 DEF Roll
<1>6. CASE CheckToken
  <2>1. w' = [w EXCEPT !.pc = "fetch"] => w'.pc = "fetch"
    BY <1>0 DEF Run
  <2> QED
    BY <1>3, <1>5, <1>6, <2>1 DEF CheckToken
<1>7. CASE FetchRefused
  <2>1. w' = PullEnds("unauthorized") => w'.outcome # "ok"
    BY <1>0, PullEndsType DEF Outcome
  <2> QED
    BY <1>2, <1>5, <1>7, <2>1 DEF FetchRefused
<1>8. Start \/ SyncFlushed => w'.pc \in {"idle", "token"}
  <2>1. Idle.pc = "idle" /\ [Idle EXCEPT !.pc = "token", !.auth = mem].pc = "token"
    BY DEF Idle
  <2> QED
    BY <2>1 DEF Start, SyncFlushed
<1>9. CASE SaveRolled
  <2>1. CASE w' = [w EXCEPT !.pc = "anilist"] /\ UNCHANGED calm
    <3>1. w'.pc = "anilist" /\ w'.auth = w.auth /\ w'.outcome = w.outcome
      BY <1>0, <2>1 DEF Run
    <3>2. UNCHANGED <<show, mal, live, access>> /\ w.pc = "save"
      BY <1>9 DEF SaveRolled, rows, sites
    <3> QED
      BY <2>1, <3>1, <3>2 DEF Undisturbed, Honoured, Mirrored, InStep
  <2> QED
    BY <1>1, <1>9, <2>1 DEF SaveRolled, Fault
<1>10. CASE UNCHANGED vars
  BY <1>10 DEF vars, Undisturbed, Honoured, Due, Mirrored, InStep, OnAniList,
     PushOwed, Pending, Faithful, Settled
<1> QED
  BY <1>1, <1>3, <1>4, <1>6, <1>7, <1>8, <1>9, <1>10, FetchUndisturbed,
     PlanUndisturbed, ApplyUndisturbed, PullDoneUndisturbed, AniListUndisturbed,
     ListUndisturbed, NextRowUndisturbed, PushDoneUndisturbed, GuardUndisturbed,
     SaveUndisturbed, MarkUndisturbed DEF Next

\* The order of the run is enough (spawn_sync: MAL pulls first, then the AniList
\* run, then the mirror push): after one run that nobody disturbed, what came
\* from either site is in the library and on the other one.
THEOREM OneRunIsEnough == Spec => []OneRunSettles
<1> DEFINE UInv == IInv /\ PullIsGoing /\ Undisturbed
<1>1. Init => UInv
  BY InitInv, UndisturbedInit DEF Init, Idle, PullIsGoing
<1>2. UInv /\ [Next]_vars => UInv'
  BY NextInv, PullIsGoingNext, UndisturbedNext
<1>3. UInv => OneRunSettles
  BY DEF Undisturbed, OneRunSettles, At
<1> QED
  BY <1>1, <1>2, <1>3, PTL DEF Spec

=============================================================================
