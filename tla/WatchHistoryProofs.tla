------------------------- MODULE WatchHistoryProofs -------------------------
(* Theorems about WatchHistory for any number of episodes, any total and any *)
(* bounds.                                                                   *)
EXTENDS WatchHistory, FiniteSetTheorems, TLAPS

\* The stamp in the row is the moment of the last move, nothing is dated later
\* than now, and what the frontier went past is dated no later than the move.
Frontier ==
    /\ moved <= clock
    /\ show # None => show.stamped = moved
    /\ \A e \in Episode : Recorded(e) => parts[e].at <= clock
    /\ \A e \in dead : Recorded(e) => parts[e].at <= moved

\* Without a row there is no past.
Blank ==
    show = None => /\ \A e \in Episode : parts[e] = None
                   /\ dead = {} /\ moved = 0 /\ floor = 0 /\ earned = FALSE

\* The list and the undo only ever hold a show that earned its place.
KeysAreEarned ==
    /\ view # None => earned
    /\ undo # None => earned

IInv == TypeOK /\ Frontier /\ Blank /\ FinishesAreKept /\ LibraryIsEarned /\ KeysAreEarned

-----------------------------------------------------------------------------
\* What the operators return.

LEMMA PutRow ==
    ASSUME clock \in Nat, NEW r \in Row, NEW s \in Status, NEW p \in Nat
    PROVE  /\ Put(r, s, p) \in Row /\ Put(r, s, p) # None
           /\ Put(r, s, p).progress = p /\ Put(r, s, p).added = TRUE
           /\ Put(r, s, p).stamped = IF p = r.progress THEN r.stamped ELSE clock
<1>1. Stamp(r, p) \in Nat /\ Stamp(r, p) = IF p = r.progress THEN r.stamped ELSE clock
  BY DEF Row, Stamp
<1>2. Put(r, s, p) \in Row
  BY <1>1 DEF Put, Row
<1> QED
  BY <1>1, <1>2, NoneIsNoRow DEF Put

LEMMA NewRowIsRow == NewRow \in Row /\ NewRow # None
<1>1. NewRow \in Row
  BY WatchHistoryAssumption DEF NewRow, Row
<1> QED
  BY <1>1, NoneIsNoRow

LEMMA RowIsNotNone == \A r \in Row : r # None
BY NoneIsNoRow

LEMMA ListedPair ==
    ASSUME NEW r \in Row \cup {None}
    PROVE  /\ Listed(r) \in Pair \cup {None}
           /\ Listed(r) # None => r # None /\ r.added
BY DEF Listed, Row, Pair

LEMMA StatusAfterPlay ==
    ASSUME NEW s \in Status, NEW p \in Nat, NEW airing \in BOOLEAN
    PROVE  AfterPlayStatus(s, p, airing) \in Status
BY WatchHistoryAssumption DEF AfterPlayStatus

LEMMA MarkIsNat == HighWaterMark \in Nat
<1> DEFINE S == {e \in Episode : Recorded(e) /\ \E d \in WatchedRows : e <= d}
<1>1. IsFiniteSet(Episode)
  BY WatchHistoryAssumption, FS_Interval DEF Episode
<1>2. IsFiniteSet(S)
  BY <1>1, FS_Subset
<1> QED
  BY <1>2, FS_CardinalityType DEF HighWaterMark

LEMMA EpisodesAreNat == \A e \in Episode : e \in Nat /\ e > 0
BY WatchHistoryAssumption DEF Episode

LEMMA InitInv == Init => IInv
<1> SUFFICES ASSUME Init PROVE IInv
  OBVIOUS
<1>1. \A e \in Episode : parts[e] = None
  BY DEF Init
<1>2. parts \in [Episode -> Part \cup {None}]
  BY DEF Init
<1>3. plays \in 0..MaxPlays /\ changes \in 0..MaxChanges
  BY WatchHistoryAssumption DEF Init
<1>4. TypeOK
  BY <1>1, <1>2, <1>3 DEF Init, TypeOK
<1>5. Frontier
  BY <1>1 DEF Init, Frontier, Recorded
<1> QED
  BY <1>1, <1>4, <1>5
     DEF Init, IInv, Blank, FinishesAreKept, LibraryIsEarned, KeysAreEarned

-----------------------------------------------------------------------------
\* One lemma per kind of write.

\* A position saved by a play that goes on.
LEMMA SaveProgressInv ==
    ASSUME IInv, NEW e \in Episode, NEW t \in Tier, SaveProgress(e, t),
           UNCHANGED <<clock, play, ui>>, plays' \in 0..MaxPlays, changes' \in 0..MaxChanges
    PROVE  IInv'
<1>1. CASE show = None
  BY <1>1 DEF SaveProgress, IInv, TypeOK, Frontier, Blank, FinishesAreKept, LibraryIsEarned,
             KeysAreEarned, Recorded, ui
<1>2. CASE show # None
  <2> DEFINE new == [tier |-> t, at |-> clock]
  <2>1. new \in Part
    BY DEF IInv, TypeOK, Part
  <2>2. /\ parts' = [parts EXCEPT ![e] = new] /\ dead' = dead \ {e}
        /\ UNCHANGED <<show, moved, floor, earned, clock, play, screen, view, undo>>
    BY <1>2 DEF SaveProgress, ui
  <2>3. new.at = clock
    OBVIOUS
  <2> HIDE DEF new
  <2>4. TypeOK'
    BY <1>2, <2>1, <2>2 DEF IInv, TypeOK
  <2>5. Frontier'
    BY <2>1, <2>2, <2>3 DEF IInv, TypeOK, Frontier, Recorded
  <2> QED
    BY <1>2, <2>2, <2>4, <2>5
       DEF IInv, Blank, FinishesAreKept, LibraryIsEarned, KeysAreEarned
<1> QED
  BY <1>1, <1>2

\* A play that ends, here or in another process.
LEMMA RecordFinishInv ==
    ASSUME IInv, NEW e \in Episode, NEW t \in Tier, RecordFinish(e, t),
           UNCHANGED <<clock, ui>>, play' \in Episode \cup {None},
           plays' \in 0..MaxPlays, changes' \in 0..MaxChanges
    PROVE  IInv'
<1>1. CASE show = None
  BY <1>1 DEF RecordFinish, IInv, TypeOK, Frontier, Blank, FinishesAreKept, LibraryIsEarned,
             KeysAreEarned, Recorded, ui, row, history
<1>2. CASE show # None
  <2> DEFINE new == [tier |-> t, at |-> clock]
             p == IF NaturalEnd(t) THEN HighWater(show.progress, e) ELSE show.progress
  <2>1. new \in Part /\ new.at = clock
    BY DEF IInv, TypeOK, Part
  <2>2. show \in Row /\ clock \in Nat /\ show.progress \in Nat /\ e \in Nat /\ e > 0
    BY <1>2, EpisodesAreNat DEF IInv, TypeOK, Row
  <2>3. p \in Nat /\ p >= show.progress /\ (NaturalEnd(t) => PlayCounts(t) /\ p >= e)
    BY <2>2 DEF HighWater, NaturalEnd, PlayCounts, Tier
  <2>4. PICK airing \in BOOLEAN :
            /\ parts' = [parts EXCEPT ![e] = new]
            /\ show' = IF PlayCounts(t)
                       THEN Put(show, AfterPlayStatus(show.status, p, airing), p)
                       ELSE show
            /\ IF PlayCounts(t) /\ p # show.progress
               THEN dead' = {d \in Episode : Recorded(d)} \cup {e} /\ moved' = clock
               ELSE dead' = dead \ {e} /\ UNCHANGED moved
            /\ floor' = IF NaturalEnd(t) /\ e > floor THEN e ELSE floor
            /\ earned' = (earned \/ PlayCounts(t))
    BY <1>2 DEF RecordFinish, Counted
  <2>5. UNCHANGED <<clock, screen, view, undo>>
    BY DEF ui
  <2> DEFINE s == AfterPlayStatus(show.status, p, airing)
  <2>6. s \in Status
    BY <2>2, <2>3, StatusAfterPlay DEF Row
  <2> HIDE DEF new, p, s
  <2>7. CASE PlayCounts(t)
    <3>1. /\ show' \in Row /\ show' # None
          /\ show'.progress = p /\ show'.added = TRUE
          /\ show'.stamped = IF p = show.progress THEN show.stamped ELSE clock
      <4>1. show' = Put(show, s, p)
        BY <2>4, <2>7 DEF s
      <4>2. show \in Row /\ s \in Status /\ p \in Nat /\ clock \in Nat
        BY <2>2, <2>3, <2>6
      <4>3. /\ Put(show, s, p) \in Row /\ Put(show, s, p) # None
            /\ Put(show, s, p).progress = p /\ Put(show, s, p).added = TRUE
            /\ Put(show, s, p).stamped = IF p = show.progress THEN show.stamped ELSE clock
        BY <4>2, PutRow, Zenon
      <4> QED
        BY <4>1, <4>3
    <3>2. TypeOK'
      BY <2>1, <2>2, <2>4, <2>5, <3>1 DEF IInv, TypeOK
    <3>3. Frontier'
      <4>1. CASE p # show.progress
        <5>1. /\ dead' = {d \in Episode : Recorded(d)} \cup {e} /\ moved' = clock
              /\ show'.stamped = clock
          BY <2>4, <2>7, <3>1, <4>1
        <5> QED
          BY <2>1, <2>2, <2>4, <2>5, <5>1 DEF IInv, TypeOK, Frontier, Recorded
      <4>2. CASE p = show.progress
        <5>1. dead' = dead \ {e} /\ moved' = moved /\ show'.stamped = show.stamped
          BY <2>4, <3>1, <4>2
        <5> QED
          BY <1>2, <2>1, <2>2, <2>4, <2>5, <5>1 DEF IInv, TypeOK, Frontier, Recorded
      <4> QED
        BY <4>1, <4>2
    <3>4. FinishesAreKept'
      BY <1>2, <2>2, <2>3, <2>4, <3>1 DEF IInv, TypeOK, FinishesAreKept
    <3> QED
      BY <2>4, <2>5, <2>7, <3>1, <3>2, <3>3, <3>4
         DEF IInv, Blank, LibraryIsEarned, KeysAreEarned
  <2>8. CASE ~PlayCounts(t)
    <3>1. show' = show /\ dead' = dead \ {e} /\ UNCHANGED <<moved, floor>> /\ earned' = earned
      BY <2>3, <2>4, <2>8 DEF IInv, TypeOK
    <3>2. TypeOK'
      BY <1>2, <2>1, <2>4, <2>5, <3>1 DEF IInv, TypeOK
    <3>3. Frontier'
      BY <2>1, <2>2, <2>4, <2>5, <3>1 DEF IInv, TypeOK, Frontier, Recorded
    <3> QED
      BY <1>2, <2>4, <2>5, <3>1, <3>2, <3>3
         DEF IInv, Blank, FinishesAreKept, LibraryIsEarned, KeysAreEarned
  <2> QED
    BY <2>7, <2>8
<1> QED
  BY <1>1, <1>2

\* A key or a tracker sets the row to new: the stamp follows the frontier.
LEMMA SetInv ==
    ASSUME IInv, NEW new \in Row, show' = new, new # None,
           parts' = parts, clock' = clock, play' = play,
           \/ moved' = clock /\ dead' = {e \in Episode : parts[e] # None} /\ new.stamped = clock
           \/ UNCHANGED <<moved, dead>> /\ new.stamped = moved,
           floor' \in Nat, new.progress >= floor', earned' = TRUE,
           screen' \in {"elsewhere", "history", "confirm"},
           view' \in Pair \cup {None}, undo' \in Pair \cup {None},
           plays' \in 0..MaxPlays, changes' \in 0..MaxChanges
    PROVE  IInv'
<1>1. TypeOK'
  BY DEF IInv, TypeOK
<1>2. Frontier'
  BY DEF IInv, TypeOK, Frontier, Recorded
<1> QED
  BY <1>1, <1>2 DEF IInv, Blank, FinishesAreKept, LibraryIsEarned, KeysAreEarned

\* A step of the interface alone, or the clock's.
LEMMA ScreenInv ==
    ASSUME IInv, UNCHANGED <<row, history, bounds>>, clock' \in Nat, clock' >= clock,
           play' \in Episode \cup {None}, screen' \in {"elsewhere", "history", "confirm"},
           view' \in {None, view, Listed(show)}, undo' \in {None, undo}
    PROVE  IInv'
<1>1. show \in Row \cup {None}
  BY DEF IInv, TypeOK
<1>2. Listed(show) \in Pair \cup {None} /\ (Listed(show) # None => earned)
  BY <1>1, ListedPair DEF IInv, LibraryIsEarned
<1>3. TypeOK'
  BY <1>2 DEF IInv, TypeOK, row, history, bounds
<1>4. Frontier'
  BY DEF IInv, TypeOK, Frontier, Recorded, row, history, Part
<1> QED
  BY <1>2, <1>3, <1>4
     DEF IInv, Blank, FinishesAreKept, LibraryIsEarned, KeysAreEarned, row, history


-----------------------------------------------------------------------------
\* Every action keeps the invariant.

\* A tracker's progress takes the row; the stamp follows a rise only.
LEMMA AdoptInv ==
    ASSUME IInv, NEW status \in Status, NEW progress \in Nat, Adopt(status, progress)
    PROVE  IInv'
<1> DEFINE r == IF show = None THEN NewRow ELSE show
           new == [status |-> status, progress |-> progress,
                   stamped |-> RiseStamp(r, progress), added |-> TRUE]
<1>1. r \in Row /\ clock \in Nat /\ r.stamped = moved
  BY NewRowIsRow DEF IInv, TypeOK, Frontier, Blank, NewRow
<1>2. /\ RiseStamp(r, progress) \in Nat
      /\ r.progress < progress => RiseStamp(r, progress) = clock
      /\ ~(r.progress < progress) => RiseStamp(r, progress) = moved
  BY <1>1 DEF RiseStamp, Row
<1>3. new \in Row
  BY <1>2 DEF Row
<1>4. \/ moved' = clock /\ dead' = {e \in Episode : parts[e] # None} /\ new.stamped = clock
      \/ UNCHANGED <<moved, dead>> /\ new.stamped = moved
  BY <1>2 DEF Adopt, Retire
<1>5. /\ show' = new /\ parts' = parts /\ clock' = clock /\ play' = play
      /\ floor' = 0 /\ earned' = TRUE /\ new.progress >= 0
      /\ UNCHANGED <<screen, view, undo, plays>> /\ changes' \in 0..MaxChanges
  BY WatchHistoryAssumption DEF Adopt, Changes, ui, IInv, TypeOK
<1> HIDE DEF new
<1>6. /\ screen' \in {"elsewhere", "history", "confirm"}
      /\ view' \in Pair \cup {None} /\ undo' \in Pair \cup {None} /\ plays' \in 0..MaxPlays
  BY <1>5 DEF IInv, TypeOK
<1> QED
  BY <1>3, <1>4, <1>5, <1>6, RowIsNotNone, SetInv

\* The add key.
LEMMA AddInv == ASSUME IInv, Add PROVE IInv'
<1> DEFINE new == IF show = None THEN [NewRow EXCEPT !.added = TRUE]
                  ELSE [show EXCEPT !.added = TRUE]
<1>1. show \in Row \cup {None} /\ NewRow \in Row
  BY NewRowIsRow DEF IInv, TypeOK
<1>2. new \in Row
  BY <1>1 DEF Row
<1>3. new.stamped = moved /\ floor \in Nat /\ new.progress >= floor
  BY <1>1 DEF IInv, TypeOK, Frontier, Blank, FinishesAreKept, Row, NewRow
<1>4. /\ show' = new /\ UNCHANGED <<clock, parts, play, screen, view, undo, plays>>
      /\ UNCHANGED <<dead, moved, floor>> /\ earned' = TRUE /\ changes' \in 0..MaxChanges
  BY WatchHistoryAssumption DEF Add, Changes, ui, IInv, TypeOK
<1> HIDE DEF new
<1>5. /\ screen' \in {"elsewhere", "history", "confirm"}
      /\ view' \in Pair \cup {None} /\ undo' \in Pair \cup {None} /\ plays' \in 0..MaxPlays
  BY <1>4 DEF IInv, TypeOK
<1> QED
  BY <1>2, <1>3, <1>4, <1>5, RowIsNotNone, SetInv

\* A key of the history list: it sets the row to new, or finds it gone, and
\* reads the list again.
LEMMA KeyInv ==
    ASSUME IInv, NEW new \in Row, show # None => show' = new,
           show # None =>
              /\ \/ moved' = clock /\ dead' = {e \in Episode : parts[e] # None} /\ new.stamped = clock
                 \/ UNCHANGED <<moved, dead>> /\ new.stamped = moved
              /\ floor' \in Nat /\ new.progress >= floor',
           show = None => UNCHANGED <<show, dead, moved, floor>>,
           earned, earned' = earned, UNCHANGED <<clock, parts, play>>, ReloadHistory,
           undo' \in Pair \cup {None}, plays' = plays, changes' \in 0..MaxChanges
    PROVE  IInv'
<1>1. show' \in Row \cup {None} /\ new # None
  BY NoneIsNoRow DEF IInv, TypeOK
<1>2. view' \in Pair \cup {None} /\ screen' = "history"
  BY <1>1, ListedPair DEF ReloadHistory
<1>3. plays' \in 0..MaxPlays
  BY DEF IInv, TypeOK
<1>4. CASE show # None
  BY <1>1, <1>2, <1>3, <1>4, SetInv
<1>5. CASE show = None
  BY <1>5 DEF IInv, Blank
<1> QED
  BY <1>4, <1>5

LEMMA StatusKeyInv == ASSUME IInv, NEW status \in Status, StatusKey(status) PROVE IInv'
<1> DEFINE p == IF status = Completed /\ Total > 0 THEN Total ELSE show.progress
           new == IF show = None THEN NewRow ELSE Put(show, status, p)
<1>1. show # None => show \in Row /\ p \in Nat /\ clock \in Nat /\ show.stamped = moved
  BY WatchHistoryAssumption DEF IInv, TypeOK, Frontier, Row
<1>2. show # None => /\ show' = new /\ Retire(p # show.progress)
                     /\ floor' = IF p = show.progress THEN floor ELSE 0
  BY DEF StatusKey
<1> HIDE DEF p
<1>3. /\ new \in Row
      /\ show # None => /\ new.progress = p
                        /\ new.stamped = IF p = show.progress THEN moved ELSE clock
  <2>1. CASE show = None
    BY <2>1, NewRowIsRow
  <2>2. CASE show # None
    <3>1. new = Put(show, status, p)
      BY <2>2
    <3>2. show \in Row /\ status \in Status /\ p \in Nat /\ clock \in Nat
      BY <1>1, <2>2
    <3>3. /\ Put(show, status, p) \in Row /\ Put(show, status, p) # None
          /\ Put(show, status, p).progress = p /\ Put(show, status, p).added = TRUE
          /\ Put(show, status, p).stamped =
               IF p = show.progress THEN show.stamped ELSE clock
      BY <3>2, PutRow, Zenon
    <3> QED
      BY <1>1, <2>2, <3>1, <3>3
  <2> QED
    BY <2>1, <2>2
<1>4. /\ show = None => UNCHANGED <<show, dead, moved, floor, earned>>
      /\ UNCHANGED <<earned, clock, parts, play, plays>> /\ ReloadHistory
      /\ undo' = view /\ view # None /\ changes' \in 0..MaxChanges
  BY WatchHistoryAssumption DEF StatusKey, Selected, Changes, IInv, TypeOK
<1> HIDE DEF new
<1>5. show # None =>
        /\ \/ moved' = clock /\ dead' = {e \in Episode : parts[e] # None} /\ new.stamped = clock
           \/ UNCHANGED <<moved, dead>> /\ new.stamped = moved
        /\ floor' \in Nat /\ new.progress >= floor'
  BY <1>1, <1>2, <1>3 DEF Retire, IInv, TypeOK, FinishesAreKept
<1>6. earned /\ undo' \in Pair \cup {None}
  BY <1>4 DEF IInv, TypeOK, KeysAreEarned
<1> QED
  BY <1>2, <1>3, <1>4, <1>5, <1>6, KeyInv

LEMMA UndoInv == ASSUME IInv, Undo PROVE IInv'
<1> DEFINE new == IF show = None THEN NewRow ELSE Put(show, undo.status, undo.progress)
<1>1. /\ undo \in Pair /\ undo.status \in Status /\ undo.progress \in Nat /\ earned
      /\ show # None => show \in Row /\ clock \in Nat /\ show.stamped = moved
  BY DEF Undo, IInv, TypeOK, Frontier, KeysAreEarned, Pair
<1>2. /\ new \in Row
      /\ show # None => /\ new.progress = undo.progress
                        /\ new.stamped = IF undo.progress = show.progress THEN moved ELSE clock
  <2>1. CASE show = None
    BY <2>1, NewRowIsRow
  <2>2. CASE show # None
    <3>1. new = Put(show, undo.status, undo.progress)
      BY <2>2
    <3>2. show \in Row /\ undo.status \in Status /\ undo.progress \in Nat /\ clock \in Nat
      BY <1>1, <2>2
    <3>3. /\ Put(show, undo.status, undo.progress) \in Row /\ Put(show, undo.status, undo.progress) # None
          /\ Put(show, undo.status, undo.progress).progress = undo.progress /\ Put(show, undo.status, undo.progress).added = TRUE
          /\ Put(show, undo.status, undo.progress).stamped =
               IF undo.progress = show.progress THEN show.stamped ELSE clock
      BY <3>2, PutRow, Zenon
    <3> QED
      BY <1>1, <2>2, <3>1, <3>3
  <2> QED
    BY <2>1, <2>2
<1>3. show # None => show' = new /\ Retire(undo.progress # show.progress) /\ floor' = 0
  BY DEF Undo
<1>4. /\ show = None => UNCHANGED <<show, dead, moved, floor, earned>>
      /\ UNCHANGED <<earned, clock, parts, play, plays, changes>> /\ ReloadHistory
      /\ undo' = None
  BY DEF Undo, bounds
<1> HIDE DEF new
<1>5. show # None =>
        /\ \/ moved' = clock /\ dead' = {e \in Episode : parts[e] # None} /\ new.stamped = clock
           \/ UNCHANGED <<moved, dead>> /\ new.stamped = moved
        /\ floor' \in Nat /\ new.progress >= floor'
  BY <1>1, <1>2, <1>3 DEF Retire
<1>6. changes' \in 0..MaxChanges
  BY <1>4 DEF IInv, TypeOK
<1> QED
  BY <1>1, <1>2, <1>3, <1>4, <1>5, <1>6, KeyInv

LEMMA RecomputeInv == ASSUME IInv, Recompute PROVE IInv'
<1> DEFINE p == HighWaterMark
           new == IF show = None THEN NewRow
                  ELSE [show EXCEPT !.progress = p, !.stamped = Stamp(show, p)]
<1>1. p \in Nat /\ (show # None => show \in Row /\ clock \in Nat /\ show.stamped = moved)
  BY MarkIsNat DEF IInv, TypeOK, Frontier
<1> HIDE DEF p
<1>2. /\ new \in Row
      /\ show # None => /\ new.progress = p
                        /\ new.stamped = IF p = show.progress THEN moved ELSE clock
  <2>1. CASE show = None
    BY <2>1, NewRowIsRow
  <2>2. CASE show # None
    BY <1>1, <2>2 DEF Row, Stamp
  <2> QED
    BY <2>1, <2>2
<1>3. show # None => show' = new /\ Retire(p # show.progress) /\ floor' = 0
  BY DEF Recompute, p
<1>4. /\ show = None => UNCHANGED <<show, dead, moved, floor, earned>>
      /\ UNCHANGED <<earned, clock, parts, play, plays>> /\ ReloadHistory
      /\ undo' = None /\ view # None /\ changes' \in 0..MaxChanges
  BY WatchHistoryAssumption DEF Recompute, Selected, Changes, IInv, TypeOK
<1> HIDE DEF new
<1>5. show # None =>
        /\ \/ moved' = clock /\ dead' = {e \in Episode : parts[e] # None} /\ new.stamped = clock
           \/ UNCHANGED <<moved, dead>> /\ new.stamped = moved
        /\ floor' \in Nat /\ new.progress >= floor'
  BY <1>1, <1>2, <1>3 DEF Retire
<1>6. earned
  BY <1>4 DEF IInv, KeysAreEarned
<1> QED
  BY <1>2, <1>3, <1>4, <1>5, <1>6, KeyInv

LEMMA BindInv == ASSUME IInv, Bind PROVE IInv'
<1>1. NewRow \in Row /\ NewRow # None
  BY NewRowIsRow
<1>2. /\ show = None /\ show' = NewRow
      /\ UNCHANGED <<clock, parts, play, screen, view, undo, plays, changes,
                     dead, moved, floor, earned>>
  BY DEF Bind, ui, history, bounds
<1>3. TypeOK'
  BY <1>1, <1>2 DEF IInv, TypeOK
<1>4. Frontier'
  BY <1>2 DEF IInv, TypeOK, Frontier, Blank, Recorded, NewRow
<1> QED
  BY <1>1, <1>2, <1>3, <1>4
     DEF IInv, Blank, FinishesAreKept, LibraryIsEarned, KeysAreEarned, NewRow

LEMMA DeleteInv == ASSUME IInv, Delete PROVE IInv'
<1>1. /\ show' = None /\ undo' = None /\ screen' = "history" /\ view' = Listed(show')
      /\ UNCHANGED <<clock, play, plays>> /\ changes' \in 0..MaxChanges
      /\ dead' = {} /\ moved' = 0 /\ floor' = 0 /\ earned' = FALSE
      /\ parts' = [e \in Episode |-> None]
  BY WatchHistoryAssumption DEF Delete, ReloadHistory, Changes, Cascaded, IInv, TypeOK
<1>2. view' = None
  BY <1>1 DEF Listed
<1>3. \A e \in Episode : parts'[e] = None
  BY <1>1
<1>4. parts' \in [Episode -> Part \cup {None}]
  BY <1>1
<1>5. TypeOK'
  BY <1>1, <1>2, <1>3, <1>4 DEF IInv, TypeOK
<1>6. Frontier'
  BY <1>1, <1>3 DEF IInv, TypeOK, Frontier, Recorded
<1> QED
  BY <1>1, <1>2, <1>3, <1>5, <1>6
     DEF IInv, Blank, FinishesAreKept, LibraryIsEarned, KeysAreEarned

\* The steps that leave the show and its episodes alone.
Screens ==
    \/ \E e \in Episode : Fire(e)
    \/ PlayFails \/ Reload \/ GoHistory \/ Leave \/ ArmDelete \/ CancelDelete
    \/ Second \/ Restart

LEMMA ScreensInv == ASSUME IInv, Screens PROVE IInv'
<1>1. /\ clock \in Nat /\ play \in Episode \cup {None}
      /\ screen \in {"elsewhere", "history", "confirm"}
  BY DEF IInv, TypeOK
<1>2. UNCHANGED <<row, history, bounds>>
  BY DEF Screens, Fire, PlayFails, Reload, GoHistory, Leave, ArmDelete, CancelDelete, Second,
         Restart, ReloadHistory
<1>3. clock' \in Nat /\ clock' >= clock
  BY <1>1 DEF Screens, Fire, PlayFails, Reload, GoHistory, Leave, ArmDelete, CancelDelete, Second,
              Restart
<1>4. play' \in Episode \cup {None}
  BY <1>1 DEF Screens, Fire, PlayFails, Reload, GoHistory, Leave, ArmDelete, CancelDelete, Second,
              Restart
<1>5. /\ screen' \in {"elsewhere", "history", "confirm"}
      /\ view' \in {None, view, Listed(show)} /\ undo' \in {None, undo}
  <2>1. show' = show
    BY <1>2 DEF row
  <2> QED
    BY <1>1, <2>1 DEF Screens, Fire, PlayFails, Reload, GoHistory, Leave, ArmDelete, CancelDelete,
                  Second, Restart, ReloadHistory, ui
<1> QED
  BY <1>2, <1>3, <1>4, <1>5, ScreenInv

\* The steps of a play.
LEMMA PlaysInv ==
    ASSUME IInv, Checkpoint \/ PlayDone \/ \E e \in Episode : CliPlay(e)
    PROVE  IInv'
<1>1. /\ plays \in 0..MaxPlays /\ changes \in 0..MaxChanges /\ clock \in Nat
      /\ play \in Episode \cup {None} /\ screen \in {"elsewhere", "history", "confirm"}
  BY DEF IInv, TypeOK
<1>2. Plays => plays' \in 0..MaxPlays /\ changes' \in 0..MaxChanges
  BY <1>1, WatchHistoryAssumption DEF Plays
<1>3. CASE Checkpoint
  <2>1. PICK t \in Tier : SaveProgress(play, t)
    BY <1>3 DEF Checkpoint
  <2>2. play \in Episode /\ UNCHANGED <<clock, play, ui>> /\ Plays
    BY <1>1, <1>3 DEF Checkpoint
  <2> QED
    BY <1>2, <2>1, <2>2, SaveProgressInv
<1>4. CASE PlayDone
  <2>1. play \in Episode /\ play' = None /\ UNCHANGED <<clock, ui>>
    BY <1>1, <1>4 DEF PlayDone
  <2>2. CASE (\E t \in Tier : RecordFinish(play, t)) /\ Plays
    <3>1. PICK t \in Tier : RecordFinish(play, t)
      BY <2>2
    <3> QED
      BY <1>2, <2>1, <2>2, <3>1, RecordFinishInv
  <2>3. CASE UNCHANGED <<row, history, bounds>>
    <3>1. UNCHANGED <<clock, screen, view, undo>>
      BY <2>1 DEF ui
    <3> QED
      BY <1>1, <2>1, <2>3, <3>1, ScreenInv
  <2> QED
    BY <1>4, <2>2, <2>3 DEF PlayDone
<1>5. CASE \E e \in Episode : CliPlay(e)
  <2>1. PICK e \in Episode : CliPlay(e)
    BY <1>5
  <2>2. PICK t \in Tier : RecordFinish(e, t)
    BY <2>1 DEF CliPlay
  <2>3. UNCHANGED <<clock, ui>> /\ play' \in Episode \cup {None} /\ Plays
    BY <1>1, <2>1 DEF CliPlay
  <2> QED
    BY <1>2, <2>2, <2>3, RecordFinishInv
<1> QED
  BY <1>3, <1>4, <1>5

LEMMA StepInv == IInv /\ [Next]_vars => IInv'
<1> SUFFICES ASSUME IInv, [Next]_vars PROVE IInv'
  OBVIOUS
<1>1. CASE Screens
  BY <1>1, ScreensInv
<1>2. CASE Checkpoint \/ PlayDone \/ \E e \in Episode : CliPlay(e)
  BY <1>2, PlaysInv
<1>3. CASE \E s \in Status, p \in 0..MaxProgress : Adopt(s, p)
  <2>1. PICK s \in Status, p \in 0..MaxProgress : Adopt(s, p)
    BY <1>3
  <2> QED
    BY <2>1, WatchHistoryAssumption, AdoptInv
<1>4. CASE \E s \in Status : StatusKey(s)
  BY <1>4, StatusKeyInv
<1>5. CASE Bind
  BY <1>5, BindInv
<1>6. CASE Add
  BY <1>6, AddInv
<1>7. CASE Undo
  BY <1>7, UndoInv
<1>8. CASE Recompute
  BY <1>8, RecomputeInv
<1>9. CASE Delete
  BY <1>9, DeleteInv
<1>10. CASE UNCHANGED vars
  BY <1>10 DEF vars, IInv, TypeOK, Frontier, Blank, FinishesAreKept, LibraryIsEarned,
               KeysAreEarned, Recorded, Row, Pair, Part
<1> QED
  BY <1>1, <1>2, <1>3, <1>4, <1>5, <1>6, <1>7, <1>8, <1>9, <1>10 DEF Next, Screens

\* What the invariant says of the resume point.
LEMMA ResumeFollowsStamp ==
    ASSUME IInv PROVE DeadPartialsStayDead /\ LivePartialsResume
<1>1. ASSUME NEW e \in ResumeRows, e \in dead PROVE FALSE
  <2>1. show = None => parts[e] = None
    BY <1>1 DEF ResumeRows, IInv, Blank
  <2>2. Recorded(e) /\ parts[e].at > show.stamped /\ show # None
    BY <1>1, <2>1 DEF ResumeRows, After, Recorded
  <2>3. /\ show.stamped = moved /\ parts[e].at <= moved /\ moved \in Nat
        /\ parts[e] \in Part
    BY <1>1, <2>2 DEF IInv, Frontier, TypeOK, ResumeRows, Recorded
  <2> QED
    BY <2>2, <2>3 DEF Part
<1>2. ASSUME NEW e \in Episode, Recorded(e), ~FullyWatched(parts[e].tier), parts[e].at > moved
      PROVE  e \in ResumeRows
  BY <1>2 DEF IInv, Blank, Frontier, Recorded, ResumeRows, After
<1> QED
  BY <1>1, <1>2 DEF DeadPartialsStayDead, LivePartialsResume

-----------------------------------------------------------------------------
\* The theorems.

LEMMA Invariant == Spec => []IInv
BY InitInv, StepInv, PTL DEF Spec

\* Type correctness, and the foreign key: no episode row outlives its show.
THEOREM TypeCorrect == Spec => []TypeOK
<1>1. IInv => TypeOK
  BY DEF IInv
<1> QED
  BY <1>1, Invariant, PTL

\* latest_resume never offers a partial that the frontier went past, for any
\* number of episodes, processes' plays, undos, recomputes and adoptions.
THEOREM DeadStayDead == Spec => []DeadPartialsStayDead
<1>1. IInv => DeadPartialsStayDead
  BY ResumeFollowsStamp
<1> QED
  BY <1>1, Invariant, PTL

\* latest_resume offers every partial saved after the frontier last moved.
THEOREM LiveResume == Spec => []LivePartialsResume
<1>1. IInv => LivePartialsResume
  BY ResumeFollowsStamp
<1> QED
  BY <1>1, Invariant, PTL

\* record_finish never takes back a finish, whatever the order of the plays.
THEOREM FinishesKept == Spec => []FinishesAreKept
<1>1. IInv => FinishesAreKept
  BY DEF IInv
<1> QED
  BY <1>1, Invariant, PTL

\* Only a counted play, the add key or a tracker puts a show in the library or
\* moves it out of Planning.
THEOREM Earned == Spec => []LibraryIsEarned
<1>1. IInv => LibraryIsEarned
  BY DEF IInv
<1> QED
  BY <1>1, Invariant, PTL

=============================================================================
