----------------------------- MODULE Transfers -----------------------------
(* The downloaders.  The interface saves one episode at a time through a    *)
(* worker (download.cpp): straight from the server into `<name>.part`,      *)
(* resuming what is there, or through an ffmpeg child; then fsync and       *)
(* rename.  A show whose real id arrives takes its files along.  The manga  *)
(* reader saves a chapter page by page (manga/pages.cpp) and marks it       *)
(* complete.  Either process may crash, the machine may lose power, and an  *)
(* ffmpeg child outlives the process that started it.                       *)
EXTENDS Integers, Sequences

CONSTANTS
    Episode, Link,
    Size,         \* blocks of every link's file
    Hls,          \* the links that go through ffmpeg
    Ranges,       \* the links whose server answers a Range request with 206
    Offers,       \* the links a provider may resolve an episode to
    Pages,        \* pages of the chapter
    None,
    MaxStarts,    \* bound: downloads begun
    MaxCrashes,   \* bound: crashes and power losses
    MaxOutages,   \* bound: power losses
    MaxFetches    \* bound: fetches of the chapter

ASSUME SizeAssumption == Size \in Nat \ {0} /\ Pages \in Nat \ {0}
ASSUME LinkAssumption ==
    Hls \subseteq Link /\ Ranges \subseteq Link \ Hls /\ Offers \in [Episode -> SUBSET Link]
ASSUME BoundsAssumption ==
    /\ MaxStarts \in Nat /\ MaxCrashes \in Nat /\ MaxFetches \in Nat
    /\ MaxOutages \in Nat

VARIABLES
    phase,     \* the interface: "up", "quitting" or "down"
    session,   \* how often it was started
    showId,    \* the id the show is saved under: the bridge's own, or the real one
    moving,    \* the move of the show's files is under way
    download,  \* App::download
    job,       \* the download worker
    mail,      \* its last event, on its way to the interface
    disk,      \* what each path holds
    ffmpeg,    \* the child each session has started
    page, pagePart, marker,   \* the chapter's directory
    fetch,     \* the reader's fetch of the chapter
    lasting,   \* how many of its pages no power loss takes back
    was,       \* what a power loss may take disk back to: the disk as of an operation
               \* on its directories that is not known to have reached it
    starts, crashes, fetches, \* how much of each bound is spent
    torn,      \* history: a crash cut a move short, or a power loss undid it
    exposed,   \* history: the names whose sync was not made, or failed unheard
    outages    \* history: the power losses

uiVars == <<phase, session, showId, moving, download, mail, starts, torn>>
chapterVars == <<page, pagePart, marker, lasting, fetch, fetches>>
powerVars == <<was, exposed, outages>>
vars == <<uiVars, job, disk, ffmpeg, crashes, powerVars, chapterVars>>

-----------------------------------------------------------------------------
\* Names and files.

Ids == {"old", "new"}
Name == [id : Ids, ep : Episode]
Path == [name : Name, part : BOOLEAN]

Final(n) == [name |-> n, part |-> FALSE]
Part(n)  == [name |-> n, part |-> TRUE]
InNew(q) == [q EXCEPT !.name.id = "new"]

\* A file's blocks by the link they came from (None is a block never written),
\* and how many of the first ones are known to be on the disk.
Empty == [blocks |-> <<>>, durable |-> 0]
Length(q) == IF disk[q] = None THEN 0 ELSE Len(disk[q].blocks)
Write(f, l, k) ==
    LET padded == f.blocks \o [j \in 1..(k - Len(f.blocks)) |-> None]
    IN  [blocks |-> [padded EXCEPT ![k] = l],
         durable |-> IF k <= f.durable /\ f.blocks[k] # l THEN k - 1 ELSE f.durable]

\* A rename takes the inode along, and with it a child that still writes to it.
Renamed(S, to) ==
    [q \in Path |->
        IF \E r \in S : to[r] = q THEN disk[CHOOSE r \in S : to[r] = q]
        ELSE IF q \in S THEN None ELSE disk[q]]
Followed(S, to) ==
    [s \in DOMAIN ffmpeg |->
        IF ffmpeg[s] = None \/ ffmpeg[s].at = None THEN ffmpeg[s]
        ELSE IF ffmpeg[s].at \in S THEN [ffmpeg[s] EXCEPT !.at = to[@]]
        ELSE IF \E r \in S : to[r] = ffmpeg[s].at THEN [ffmpeg[s] EXCEPT !.at = None]
        ELSE ffmpeg[s]]
Unlinked(q) ==
    [s \in DOMAIN ffmpeg |->
        IF ffmpeg[s] # None /\ ffmpeg[s].at = q THEN [ffmpeg[s] EXCEPT !.at = None]
        ELSE ffmpeg[s]]

File  == [blocks : Seq(Link \cup {None}), durable : Nat]
Child == [at : Path \cup {None}, link : Hls, pos : 1..(Size + 1),
          st : {"runs", "termed", "ok", "bad"}]
Job   == [name : Name, link : Link \cup {None}, pos : Nat, append : BOOLEAN,
          pc : {"resolve", "ask", "answer", "write", "spawn", "wait", "sync", "rename"}]
PageFile == [whole : BOOLEAN, synced : BOOLEAN]
Fetch == [pc : {"page", "stream", "sync", "rename", "rotate"}, i : 1..(Pages + 1),
          again : BOOLEAN, rotated : BOOLEAN, granted : 0..Pages]

\* What is found under a final name when that is not a whole file.
Torn == <<"torn">>
ASSUME TornIsNoLink == "torn" \notin Link

\* None stands for the lack of a file, a child, a job, a fetch or a path, and of
\* the content of one.
ASSUME NoneIsNothing ==
    None \notin Path \cup File \cup Child \cup Job \cup PageFile \cup Fetch
                \cup Seq(Link \cup {None}) \cup {<<"page">>, Torn} \cup Ids
                \cup {"done", "failed"}

-----------------------------------------------------------------------------
\* The interface: the download key, the worker's last event, the quit.

Off == [active |-> FALSE, ep |-> None, id |-> None]

\* The rows the show is on screen under: Browse may know the real id first.
Shown == IF showId = "new" THEN {"new"} ELSE Ids

Press(e, id) ==
    /\ phase = "up" /\ ~moving /\ id \in Shown
    /\ ~download.active
    /\ starts < MaxStarts
    /\ starts' = starts + 1
    /\ download' = [active |-> TRUE, ep |-> e, id |-> id]
    /\ job' = [name |-> [id |-> id, ep |-> e], link |-> None, pc |-> "resolve",
               pos |-> 0, append |-> FALSE]
    /\ UNCHANGED <<phase, session, showId, moving, mail, torn, disk, ffmpeg, crashes, powerVars, chapterVars>>

DownloadDone ==
    /\ phase = "up" /\ ~moving /\ mail = "done"
    /\ mail' = None
    /\ download' = Off
    /\ UNCHANGED <<phase, session, showId, moving, starts, torn, job, disk, ffmpeg, crashes, powerVars, chapterVars>>

\* (A handler that only reports the failure.)
DownloadFailedKept ==
    /\ phase = "up" /\ ~moving /\ mail = "failed"
    /\ mail' = None
    /\ UNCHANGED <<phase, session, showId, moving, download, starts, torn, job, disk, ffmpeg, crashes, powerVars, chapterVars>>

DownloadFailed ==
    /\ phase = "up" /\ ~moving /\ mail = "failed"
    /\ mail' = None
    /\ download' = Off
    /\ UNCHANGED <<phase, session, showId, moving, starts, torn, job, disk, ffmpeg, crashes, powerVars, chapterVars>>

Termed(s) ==
    IF ffmpeg[s] # None THEN [ffmpeg EXCEPT ![s].st = IF @ = "runs" THEN "termed" ELSE @]
    ELSE ffmpeg

\* Quitting signals a child already published, and waits for nothing.
Quit ==
    /\ phase = "up" /\ ~moving
    /\ phase' = "quitting"
    /\ ffmpeg' = IF download.active THEN Termed(session) ELSE ffmpeg
    /\ UNCHANGED <<session, showId, moving, download, mail, starts, torn, job, disk, crashes, powerVars, chapterVars>>

\* The process is gone: what it held in memory is lost, its child is not.
Gone ==
    /\ phase' = "down"
    /\ download' = Off /\ mail' = None /\ job' = None
    /\ moving' = FALSE
    /\ UNCHANGED <<session, showId, starts>>
CutShort == torn' = (torn \/ moving)

Exit == phase = "quitting" /\ Gone /\ CutShort /\ UNCHANGED <<disk, ffmpeg, crashes, powerVars, chapterVars>>

Crash ==
    /\ phase # "down" /\ crashes < MaxCrashes
    /\ crashes' = crashes + 1
    /\ Gone /\ CutShort
    /\ UNCHANGED <<disk, ffmpeg, powerVars, chapterVars>>

Restart ==
    /\ phase = "down"
    /\ session' = session + 1 /\ session < MaxCrashes + 1
    /\ phase' = "up"
    /\ UNCHANGED <<showId, moving, download, mail, starts, torn, job, disk, ffmpeg, crashes, powerVars, chapterVars>>

-----------------------------------------------------------------------------
\* The worker: resolve, then one of the two arms, then fsync and rename.

KeepRest ==
    UNCHANGED <<phase, session, showId, moving, download, starts, torn, crashes, outages,
                chapterVars>>
Keep == KeepRest /\ UNCHANGED <<was, exposed>>
At(pc) == job # None /\ job.pc = pc

Resolve ==
    /\ At("resolve")
    /\ \E l \in Offers[job.name.ep] :
          job' = [job EXCEPT !.link = l, !.pc = IF l \in Hls THEN "spawn" ELSE "ask"]
    /\ Keep /\ UNCHANGED <<mail, disk, ffmpeg>>

\* Anything may fail up to the rename - the resolve, the transfer, the disk, a
\* quit's cancel flag - and leaves the .part for the next attempt.
Failing == {"resolve", "ask", "answer", "write", "spawn", "sync", "rename"}
Fail ==
    /\ job # None /\ job.pc \in Failing
    /\ job' = None /\ mail' = "failed"
    /\ Keep /\ UNCHANGED <<disk, ffmpeg>>

\* The resume offset is the size of the .part, read before the request goes out.
Ask ==
    /\ At("ask")
    /\ job' = [job EXCEPT !.pos = Length(Part(job.name)), !.pc = "answer"]
    /\ Keep /\ UNCHANGED <<mail, disk, ffmpeg>>

Ranged == job.pos > 0 /\ job.link \in Ranges

\* An operation on a directory: the file system may have written its journal up
\* to here, or not.  It writes it in order, and a sync waits for it.
Journaled == was' \in {was, disk}

\* Only a 206 keeps what the .part holds.
Resumes(status) == status = 206

Answer ==
    /\ At("answer")
    /\ LET status == IF Ranged THEN 206 ELSE 200
           part   == Part(job.name)
       IN  /\ Ranged => job.pos < Size
           /\ disk' = IF Resumes(status) /\ disk[part] # None THEN disk
                      ELSE [disk EXCEPT ![part] = Empty]
           /\ job' = [job EXCEPT !.pc = "write",
                                 !.pos = IF status = 206 THEN @ + 1 ELSE 1,
                                 !.append = Resumes(status)]
    /\ Keep /\ UNCHANGED <<mail, ffmpeg>>

\* 416: the .part is at or past the server's end and can never complete.
OutOfRange ==
    /\ At("answer") /\ Ranged /\ job.pos >= Size
    /\ disk' = [disk EXCEPT ![Part(job.name)] = None]
    /\ ffmpeg' = Unlinked(Part(job.name))
    /\ job' = None /\ mail' = "failed"
    /\ Journaled /\ UNCHANGED exposed
    /\ KeepRest

\* A 206 without a body says that the .part holds every byte.  The file was
\* never opened, so nothing is synced.
AlreadyWhole ==
    /\ At("answer") /\ Ranged /\ job.pos >= Size
    /\ job' = [job EXCEPT !.pc = "rename"]
    /\ exposed' = exposed \cup {job.name}
    /\ KeepRest /\ UNCHANGED <<mail, disk, ffmpeg, was>>

\* An appended block lands at the end of the file, any other at its own place.
\* (Nothing moves the .part away: WritesInFlight.)
WriteBlock ==
    /\ At("write") /\ job.pos <= Size /\ disk[Part(job.name)] # None
    /\ LET part == Part(job.name)
           at   == IF job.append THEN Length(part) + 1 ELSE job.pos
       IN  disk' = [disk EXCEPT ![part] = Write(@, job.link, at)]
    /\ job' = [job EXCEPT !.pos = @ + 1]
    /\ Keep /\ UNCHANGED <<mail, ffmpeg>>

Received ==
    /\ At("write") /\ job.pos > Size
    /\ job' = [job EXCEPT !.pc = "sync"]
    /\ Keep /\ UNCHANGED <<mail, disk, ffmpeg>>

\* ffmpeg -y starts the .part afresh.
Spawn ==
    /\ At("spawn")
    /\ disk' = [disk EXCEPT ![Part(job.name)] = Empty]
    /\ ffmpeg' = [ffmpeg EXCEPT ![session] =
            [at |-> Part(job.name), link |-> job.link, pos |-> 1, st |-> "runs"]]
    /\ job' = [job EXCEPT !.pc = "wait"]
    /\ Keep /\ UNCHANGED mail

\* The poll of the cancel flag, while the process still lives.
Cancel ==
    /\ At("wait") /\ phase = "quitting"
    /\ ffmpeg' = Termed(session) /\ ffmpeg' # ffmpeg
    /\ Keep /\ UNCHANGED <<mail, job, disk>>

\* Only exit 0 leads on to the rename.
Reap ==
    /\ At("wait") /\ ffmpeg[session].st \in {"ok", "bad"}
    /\ ffmpeg' = [ffmpeg EXCEPT ![session] = None]
    /\ IF ffmpeg[session].st = "ok"
       THEN job' = [job EXCEPT !.pc = "sync"] /\ UNCHANGED mail
       ELSE job' = None /\ mail' = "failed"
    /\ Keep /\ UNCHANGED disk

\* (The rename without the fsync.)
NotSynced(f) == f

Synced(f) == [f EXCEPT !.durable = Len(f.blocks)]

Sync ==
    /\ At("sync") /\ disk[Part(job.name)] # None
    /\ disk' = [disk EXCEPT ![Part(job.name)] = Synced(@)]
    /\ was' = disk'
    /\ job' = [job EXCEPT !.pc = "rename"]
    /\ KeepRest /\ UNCHANGED <<mail, ffmpeg, exposed>>

Rename ==
    /\ At("rename") /\ disk[Part(job.name)] # None
    /\ LET to == [q \in Path |-> [q EXCEPT !.part = FALSE]]
       IN  /\ disk' = Renamed({Part(job.name)}, to)
           /\ ffmpeg' = Followed({Part(job.name)}, to)
    /\ job' = None /\ mail' = "done"
    /\ Journaled /\ UNCHANGED exposed
    /\ KeepRest

Worker ==
    \/ Resolve \/ Fail \/ Ask \/ Answer \/ OutOfRange \/ AlreadyWhole \/ WriteBlock
    \/ Received \/ Spawn \/ Cancel \/ Reap \/ Sync \/ Rename

\* The ffmpeg children, their parent alive or not.
ChildWrites(s) ==
    /\ ffmpeg[s] # None /\ ffmpeg[s].st = "runs" /\ ffmpeg[s].pos <= Size
    /\ disk' = IF ffmpeg[s].at = None THEN disk
               ELSE [disk EXCEPT ![ffmpeg[s].at] = Write(@, ffmpeg[s].link, ffmpeg[s].pos)]
    /\ ffmpeg' = [ffmpeg EXCEPT ![s].pos = @ + 1]
    /\ Keep /\ UNCHANGED <<mail, job>>

\* It exits 0 with the whole file, or not.  Nobody waits for an orphan.
ChildExits(s) ==
    /\ ffmpeg[s] # None /\ ffmpeg[s].st \in {"runs", "termed"}
    /\ \E st \in {"ok", "bad"} :
          /\ st = "ok" => ffmpeg[s].st = "runs" /\ ffmpeg[s].pos > Size
          /\ ffmpeg' = [ffmpeg EXCEPT ![s] =
                IF s = session /\ At("wait") THEN [@ EXCEPT !.st = st] ELSE None]
    /\ Keep /\ UNCHANGED <<mail, job, disk>>

-----------------------------------------------------------------------------
\* The show takes its real id, and its files follow.

\* (The guard without the download.)
WritesUnheard(id) == FALSE

WritesInFlight(id) == download.active /\ download.id = id

\* The row's transaction is one step; the files move after it.
Rekey ==
    /\ phase = "up" /\ ~moving /\ showId = "old"
    /\ ~WritesInFlight("old")
    /\ showId' = "new" /\ moving' = TRUE
    /\ UNCHANGED <<phase, session, download, mail, starts, torn, job, disk, ffmpeg, crashes, powerVars, chapterVars>>

Held(id) == {q \in Path : q.name.id = id /\ disk[q] # None}
Movable == {q \in Held("old") : disk[InNew(q)] = None}

\* A directory nothing stands in for moves whole, else file by file; what the
\* new id already has stays, and so does its counterpart.
MoveFiles ==
    /\ moving
    /\ \E S \in IF Held("new") = {} THEN {Movable} ELSE {{q} : q \in Movable} :
          /\ S # {}
          /\ LET to == [q \in Path |-> InNew(q)]
             IN  disk' = Renamed(S, to) /\ ffmpeg' = Followed(S, to)
          /\ exposed' = exposed \cup
                {InNew(q).name : q \in {q \in S : ~q.part /\ q.name \in exposed}}
    /\ Journaled
    /\ UNCHANGED <<uiVars, job, crashes, outages, chapterVars>>

MoveEnds ==
    /\ moving /\ Movable = {}
    /\ moving' = FALSE
    /\ UNCHANGED <<phase, session, showId, download, mail, starts, torn, job, disk, ffmpeg, crashes, powerVars, chapterVars>>

-----------------------------------------------------------------------------
\* The chapter: a process of its own, a directory of its own.

Page == 1..Pages
KeepUI == UNCHANGED <<uiVars, job, disk, ffmpeg, crashes, was, outages>>
FetchAt(pc) == fetch # None /\ fetch.pc = pc

\* A set of page links is granted: the first has them all, and the set asked
\* of another node may be shorter.
StartFetch ==
    /\ fetch = None /\ fetches < MaxFetches /\ ~marker
    /\ fetches' = fetches + 1
    /\ fetch' = [pc |-> "page", i |-> 1, again |-> FALSE, rotated |-> FALSE, granted |-> Pages]
    /\ KeepUI /\ UNCHANGED <<page, pagePart, marker, lasting, exposed>>

\* What is on disk under its final name is not fetched again.
SkipPage ==
    /\ FetchAt("page") /\ fetch.i <= Pages /\ fetch.i <= fetch.granted
    /\ page[fetch.i] # None
    /\ fetch' = [fetch EXCEPT !.i = @ + 1, !.again = FALSE]
    /\ KeepUI /\ UNCHANGED <<page, pagePart, marker, lasting, exposed, fetches>>

\* A rotated set with fewer pages than the first: no hole is written.
CountMismatch ==
    /\ FetchAt("page") /\ fetch.i <= Pages /\ fetch.i > fetch.granted
    /\ fetch' = None
    /\ KeepUI /\ UNCHANGED <<page, pagePart, marker, lasting, exposed, fetches>>

OpenPage ==
    /\ FetchAt("page") /\ fetch.i <= fetch.granted /\ page[fetch.i] = None
    /\ pagePart' = [pagePart EXCEPT ![fetch.i] = [whole |-> FALSE, synced |-> FALSE]]
    /\ fetch' = [fetch EXCEPT !.pc = "stream"]
    /\ KeepUI /\ UNCHANGED <<page, marker, lasting, exposed, fetches>>

PageReceived ==
    /\ FetchAt("stream")
    /\ pagePart' = [pagePart EXCEPT ![fetch.i] = [whole |-> TRUE, synced |-> FALSE]]
    /\ fetch' = [fetch EXCEPT !.pc = "sync"]
    /\ KeepUI /\ UNCHANGED <<page, marker, lasting, exposed, fetches>>

\* A failed page loses its .part.  It is tried once more when the failure may
\* pass, then from another node, once; a disk failure, the rename's too, ends the
\* fetch.
PageFailed ==
    /\ FetchAt("stream") \/ FetchAt("rename")
    /\ pagePart' = [pagePart EXCEPT ![fetch.i] = None]
    /\ \/ FetchAt("stream") /\ ~fetch.again
          /\ fetch' = [fetch EXCEPT !.pc = "page", !.again = TRUE]
       \/ FetchAt("stream") /\ ~fetch.rotated /\ fetch' = [fetch EXCEPT !.pc = "rotate"]
       \/ fetch' = None
    /\ KeepUI /\ UNCHANGED <<page, marker, lasting, exposed, fetches>>

Rotate ==
    /\ FetchAt("rotate")
    /\ \/ \E n \in {Pages, Pages - 1} :
             fetch' = [fetch EXCEPT !.pc = "page", !.again = FALSE, !.rotated = TRUE,
                                    !.granted = n]
       \/ fetch' = None
    /\ KeepUI /\ UNCHANGED <<page, pagePart, marker, lasting, exposed, fetches>>

\* The sync also brings the renames of the pages before to the disk.
SyncPage ==
    /\ FetchAt("sync")
    /\ pagePart' = [pagePart EXCEPT ![fetch.i].synced = TRUE]
    /\ lasting' = fetch.i - 1
    /\ fetch' = [fetch EXCEPT !.pc = "rename"]
    /\ KeepUI /\ UNCHANGED <<page, marker, exposed, fetches>>

\* What ::fsync returns is not looked at: a page it failed for is published too.
SyncPageUnheard ==
    /\ FetchAt("sync")
    /\ exposed' = exposed \cup {[page |-> fetch.i]}
    /\ fetch' = [fetch EXCEPT !.pc = "rename"]
    /\ KeepUI /\ UNCHANGED <<page, pagePart, marker, lasting, fetches>>

RenamePage ==
    /\ FetchAt("rename")
    /\ page' = [page EXCEPT ![fetch.i] = pagePart[fetch.i]]
    /\ pagePart' = [pagePart EXCEPT ![fetch.i] = None]
    /\ fetch' = [fetch EXCEPT !.pc = "page", !.i = @ + 1, !.again = FALSE]
    /\ KeepUI /\ UNCHANGED <<marker, lasting, exposed, fetches>>

\* The marker comes after the last page.
MarkComplete ==
    /\ FetchAt("page") /\ fetch.i > Pages
    /\ marker' = TRUE
    /\ fetch' = None
    /\ KeepUI /\ UNCHANGED <<page, pagePart, lasting, exposed, fetches>>

ReaderCrash ==
    /\ fetch # None /\ crashes < MaxCrashes
    /\ crashes' = crashes + 1
    /\ fetch' = None
    /\ UNCHANGED <<uiVars, job, disk, ffmpeg, powerVars, page, pagePart, marker, lasting, fetches>>

Chapter ==
    \/ StartFetch \/ SkipPage \/ CountMismatch \/ OpenPage \/ PageReceived
    \/ PageFailed \/ Rotate \/ SyncPage \/ SyncPageUnheard \/ RenamePage
    \/ MarkComplete \/ ReaderCrash

\* Power is lost: every process dies, the directories are as of some operation
\* the journal holds (nobody syncs them), and a file not yet synced keeps only
\* the first blocks that had reached the disk.
Smaller(a, b) == IF a < b THEN a ELSE b
Larger(a, b) == IF a < b THEN b ELSE a

Left(f, k) ==
    IF f = None THEN None
    ELSE LET kept == SubSeq(f.blocks, 1, Smaller(Len(f.blocks), Larger(f.durable, k)))
         IN  [blocks |-> kept, durable |-> Len(kept)]

FilesLost(k) ==
    \E back \in {disk, was} :
        /\ disk' = [q \in Path |-> Left(back[q], k)]
        /\ was' = disk'
        /\ torn' = (torn \/ moving \/ (showId = "new" /\ back # disk))

\* The pages were renamed in their order and the marker came after them.  (The
\* next fetch truncates what is left of a .part.)
ChapterLost(k) ==
    \E m \in {i \in lasting..Pages : i = 0 \/ page[i] # None} :
        /\ page' = [i \in Page |->
               IF i > m \/ page[i] = None THEN None
               ELSE [whole |-> page[i].whole /\ (page[i].synced \/ k = Size), synced |-> TRUE]]
        /\ pagePart' = [i \in Page |-> None]
        /\ marker' \in {FALSE, marker /\ m = Pages}
        /\ lasting' = m

PowerLoss ==
    /\ crashes < MaxCrashes /\ outages < MaxOutages
    /\ crashes' = crashes + 1 /\ outages' = outages + 1
    /\ Gone
    /\ ffmpeg' = [s \in DOMAIN ffmpeg |-> None]
    /\ \E k \in 0..Size : FilesLost(k) /\ ChapterLost(k)
    /\ fetch' = None
    /\ UNCHANGED <<exposed, fetches>>

-----------------------------------------------------------------------------
\* The two downloaders share no file: a behaviour runs the one or the other.
Init ==
    /\ phase = "up" /\ session = 1 /\ showId = "old" /\ moving = FALSE
    /\ download = Off /\ job = None /\ mail = None
    /\ disk = [q \in Path |-> None] /\ was = disk
    /\ ffmpeg = [s \in 1..(MaxCrashes + 1) |-> None]
    /\ page = [i \in Page |-> None] /\ pagePart = [i \in Page |-> None]
    /\ marker = FALSE /\ lasting = 0 /\ fetch = None
    /\ crashes = 0 /\ torn = FALSE /\ exposed = {} /\ outages = 0
    /\ \/ starts = 0 /\ fetches = MaxFetches
       \/ starts = MaxStarts /\ fetches = 0

Next ==
    \/ \E e \in Episode, id \in Ids : Press(e, id)
    \/ DownloadDone \/ DownloadFailed \/ Quit \/ Exit \/ Crash \/ Restart
    \/ Worker
    \/ \E s \in DOMAIN ffmpeg : ChildWrites(s) \/ ChildExits(s)
    \/ Rekey \/ MoveFiles \/ MoveEnds
    \/ Chapter \/ PowerLoss

Spec == Init /\ [][Next]_vars

\* The worker's thread and the interface's loop run, the network answers or
\* times out, an ffmpeg child ends, and a quit exits after its flush.
Fairness ==
    /\ WF_vars(Worker)
    /\ WF_vars(DownloadDone \/ DownloadFailed) /\ WF_vars(Exit)
    /\ WF_vars(MoveFiles \/ MoveEnds)
    /\ WF_vars(\E s \in DOMAIN ffmpeg : ChildWrites(s) \/ ChildExits(s))

FairSpec == Spec /\ Fairness

-----------------------------------------------------------------------------
\* Properties.

PageName == [page : Page]
Whole == {[k \in 1..Size |-> l] : l \in Link}
Published(n) ==
    IF n \in Name
    THEN IF disk[Final(n)] = None THEN None
         ELSE IF disk[Final(n)].blocks \in Whole THEN disk[Final(n)].blocks ELSE Torn
    ELSE IF page[n.page] = None THEN None
         ELSE IF page[n.page].whole THEN <<"page">> ELSE Torn

Promise == INSTANCE AtomicFiles WITH
    Name <- Name \cup PageName,
    Twin <- [n \in Name \cup PageName |->
                IF n \in Name THEN [n EXCEPT !.id = "new"] ELSE n],
    Content <- Whole \cup {<<"page">>},
    Sealable <- PageName,
    published <- [n \in Name \cup PageName |-> Published(n)],
    sealed <- marker,
    loose <- exposed

\* The downloaders keep the promise of AtomicFiles: through crashes, power
\* losses, resumed parts, retries, orphaned children and the move to a real id,
\* a final name goes from nothing to a whole file, only a power loss takes one
\* back, and it tears none but those published without a sync (download.cpp's
\* bodiless 206, pages.cpp's ::fsync that failed unheard); the chapter is marked
\* only with all its pages there.
PublishesAtomically == Promise!Spec

\* Once the show has its real id, an episode saved under either id is found
\* under that one by the scan play prefers (find_local_episode), unless a crash
\* cut the move short or a power loss undid part of what was done since.
PlayFindsDownloads ==
    showId = "new" /\ ~moving /\ ~torn =>
        \A e \in Episode :
            (\E id \in Ids : disk[Final([id |-> id, ep |-> e])] # None) =>
                disk[Final([id |-> "new", ep |-> e])] # None

\* A download the interface shows as running ends, whichever step of it fails
\* and whether or not the process survives.
DownloadEnds == download.active ~> ~download.active
=============================================================================
