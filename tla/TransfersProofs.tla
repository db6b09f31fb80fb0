-------------------------- MODULE TransfersProofs --------------------------
(* Theorems about Transfers for any number of episodes, links, blocks, pages, *)
(* downloads and crashes.                                                     *)
EXTENDS Transfers, SequenceTheorems, TLAPS

UIType ==
    /\ phase \in {"up", "quitting", "down"}
    /\ session \in 1..(MaxCrashes + 1)
    /\ showId \in Ids
    /\ moving \in BOOLEAN /\ torn \in BOOLEAN
    /\ download \in [active : BOOLEAN, ep : Episode \cup {None}, id : Ids \cup {None}]
    /\ mail \in {None, "done", "failed"}
    /\ starts \in Nat /\ crashes \in Nat

DiskType ==
    /\ job \in Job \cup {None}
    /\ disk \in [Path -> File \cup {None}]
    /\ ffmpeg \in [1..(MaxCrashes + 1) -> Child \cup {None}]

ChapterType ==
    /\ page \in [Page -> PageFile \cup {None}]
    /\ pagePart \in [Page -> PageFile \cup {None}]
    /\ marker \in BOOLEAN
    /\ lasting \in 0..Pages
    /\ fetch \in Fetch \cup {None}
    /\ fetches \in Nat

JournalType ==
    /\ was \in [Path -> File \cup {None}]
    /\ exposed \subseteq Name \cup PageName
    /\ outages \in Nat

TypeOK == UIType /\ DiskType /\ ChapterType /\ JournalType

\* A worker runs for the download the interface shows, and what it last said is
\* on its way only when it is gone.  The show's files never move under it.
Running ==
    /\ job # None => /\ download.active /\ phase # "down" /\ mail = None
                     /\ download.id = job.name.id
    /\ mail # None => download.active
    /\ download.active /\ download.id = "old" => showId = "old"
    /\ moving => showId = "new"

\* What each step of the worker may take as given of its link and its place.
Linked ==
    job # None =>
        /\ job.pc # "resolve" => job.link \in Offers[job.name.ep]
        /\ job.pc \in {"ask", "answer", "write"} => job.link \notin Hls
        /\ job.pc \in {"spawn", "wait"} => job.link \in Hls
        /\ job.pc = "write" => job.pos > 0

\* A child writes to a file that exists, for the episode it was started for.
Children ==
    \A s \in DOMAIN ffmpeg :
        ffmpeg[s] # None /\ ffmpeg[s].at # None =>
            /\ disk[ffmpeg[s].at] # None
            /\ ffmpeg[s].link \in Offers[ffmpeg[s].at.name.ep]

\* A page under its final name is whole and on the disk, unless its sync failed;
\* so are those a fetch has gone past, and the one it is about to rename.
PageAt(i) == [page |-> i]

Paged ==
    /\ \A i \in Page : page[i] # None =>
           PageAt(i) \in exposed \/ (page[i].whole /\ page[i].synced)
    /\ marker => \A i \in Page : page[i] # None
    /\ fetch # None =>
         /\ \A i \in 1..(fetch.i - 1) : page[i] # None
         /\ fetch.pc # "page" => fetch.i \in Page
         /\ fetch.pc \in {"sync", "rename"} =>
                pagePart[fetch.i] # None /\ pagePart[fetch.i].whole
         /\ fetch.pc = "rename" =>
                PageAt(fetch.i) \in exposed \/ pagePart[fetch.i].synced

SavingInv == UIType /\ DiskType /\ Running /\ Linked /\ Children /\ PlayFindsDownloads
ReadingInv == ChapterType /\ Paged

-----------------------------------------------------------------------------
\* What a file holds, when no attempt may splice two links.

\* An episode that may be resumed, or written by a child left behind, has one
\* link only.
OneLink ==
    \A e \in Episode :
        Offers[e] \cap (Hls \cup Ranges) # {} => \A l, m \in Offers[e] : l = m

\* Only a child leaves blocks unwritten.
Blocks(e) == Offers[e] \cup (IF Offers[e] \cap Hls = {} THEN {} ELSE {None})

WholeOf(f, l) == Len(f.blocks) = Size /\ \A k \in 1..Size : f.blocks[k] = l

\* Under a final name it is whole and on the disk, unless the name is one of x.
FileOK(q, f, x) ==
    /\ Len(f.blocks) <= Size /\ f.durable <= Len(f.blocks)
    /\ \A k \in 1..Len(f.blocks) : f.blocks[k] \in Blocks(q.name.ep)
    /\ ~q.part => \/ f.durable = Size /\ \E l \in Offers[q.name.ep] : WholeOf(f, l)
                  \/ q.name \in x /\ Offers[q.name.ep] \cap Hls = {}

\* The first n blocks are the link's.
Begun(f, l, n) == f # None /\ n <= Len(f.blocks) /\ \A k \in 1..n : f.blocks[k] = l

\* What the worker may take as given of its file f and its child c.
Given(j, f, c, x) ==
    /\ j.pc = "answer" /\ j.pos > 0 => f # None /\ Len(f.blocks) = j.pos
    /\ j.pc = "write" => j.pos <= Size + 1 /\ Begun(f, j.link, j.pos - 1)
                                           /\ Len(f.blocks) = j.pos - 1
    /\ j.pc = "wait" => /\ c # None /\ c.at = Part(j.name) /\ c.link = j.link
                        /\ c.st = "ok" => c.pos = Size + 1
                        /\ Begun(f, j.link, c.pos - 1)
    /\ j.pc \in {"sync", "rename"} => f # None /\ WholeOf(f, j.link)
    /\ j.pc = "rename" => \/ f.durable = Size
                          \/ j.name \in x /\ Offers[j.name.ep] \cap Hls = {}

Files == \A q \in Path : disk[q] # None => FileOK(q, disk[q], exposed)
Jobs  == job # None => Given(job, disk[Part(job.name)], ffmpeg[session], exposed)
Sound == Files /\ Jobs

\* The same of what a power loss may take the files back to.
Backed == \A q \in Path : was[q] # None => FileOK(q, was[q], exposed)

-----------------------------------------------------------------------------
\* Names and paths.

LEMMA Paths ==
    ASSUME NEW n \in Name
    PROVE  /\ Final(n) \in Path /\ Part(n) \in Path
           /\ Final(n).name = n /\ Part(n).name = n
           /\ ~Final(n).part /\ Part(n).part
BY DEF Final, Part, Path

LEMMA PathIs ==
    ASSUME NEW q \in Path
    PROVE  /\ q.name \in Name /\ q.part \in BOOLEAN
           /\ q.part => q = Part(q.name)
           /\ ~q.part => q = Final(q.name)
BY DEF Final, Part, Path

LEMMA NewPath ==
    ASSUME NEW q \in Path
    PROVE  /\ InNew(q) \in Path /\ InNew(q).name.id = "new"
           /\ InNew(q).name.ep = q.name.ep /\ (InNew(q).part <=> q.part)
           /\ InNew(q).name = [q.name EXCEPT !.id = "new"]
BY DEF InNew, Path, Name, Ids

LEMMA SamePath ==
    ASSUME NEW q \in Path, NEW r \in Path, q.name.id = r.name.id, InNew(q) = InNew(r)
    PROVE  q = r
<1>1. q.name.ep = r.name.ep /\ (q.part <=> r.part)
  <2>1. InNew(q).name.ep = q.name.ep /\ InNew(r).name.ep = r.name.ep
    BY NewPath
  <2>2. (InNew(q).part <=> q.part) /\ (InNew(r).part <=> r.part)
    BY NewPath
  <2> QED
    BY <2>1, <2>2, Zenon
<1>2. q.name = r.name
  BY <1>1 DEF Path, Name
<1> QED
  BY <1>1, <1>2, PathIs

LEMMA NoneDiffers ==
    /\ \A q \in Path : q # None
    /\ \A f \in File : f # None
    /\ \A c \in Child : c # None
    /\ \A j \in Job : j # None
    /\ \A p \in PageFile : p # None
    /\ \A x \in Fetch : x # None
    /\ \A b \in Seq(Link \cup {None}) : b # None
    /\ <<"page">> # None /\ "done" # None /\ "failed" # None
    /\ "old" # None /\ "new" # None
BY NoneIsNothing DEF Ids

-----------------------------------------------------------------------------
\* Files.

LEMMA Padding ==
    ASSUME NEW d \in Int
    PROVE  /\ [j \in 1..d |-> None] \in Seq(Link \cup {None})
           /\ Len([j \in 1..d |-> None]) = IF d > 0 THEN d ELSE 0
           /\ \A j \in 1..d : [i \in 1..d |-> None][j] = None
<1> DEFINE n == IF d > 0 THEN d ELSE 0
           t == [j \in 1..d |-> None]
<1>1. n \in Nat /\ 1..d = 1..n
  OBVIOUS
<1>2. t \in [1..n -> Link \cup {None}]
  BY <1>1
<1>3. t \in Seq(Link \cup {None})
  BY <1>1, <1>2, SeqDef
<1>4. DOMAIN t = 1..n /\ DOMAIN t = 1..Len(t) /\ Len(t) \in Nat
  BY <1>2, <1>3, LenProperties
<1>5. Len(t) = n
  <2> HIDE DEF n, t
  <2>1. \A i : i \in 1..n <=> i \in 1..Len(t)
    BY <1>4
  <2>2. n # 0 => n <= Len(t)
    BY <1>1, <1>4, <2>1
  <2>3. Len(t) # 0 => Len(t) <= n
    BY <1>1, <1>4, <2>1
  <2> QED
    BY <1>1, <1>4, <2>2, <2>3
<1> QED
  BY <1>3, <1>5

\* A write past the end leaves what it skipped unwritten.
LEMMA WriteIs ==
    ASSUME NEW f \in File, NEW l \in Link, NEW k \in Nat \ {0}
    PROVE  LET g == Write(f, l, k)
           IN  /\ g \in File /\ g # None
               /\ Len(g.blocks) = IF k > Len(f.blocks) THEN k ELSE Len(f.blocks)
               /\ \A j \in 1..Len(g.blocks) :
                     g.blocks[j] = IF j = k THEN l
                                   ELSE IF j <= Len(f.blocks) THEN f.blocks[j] ELSE None
               /\ g.durable = IF k <= f.durable /\ f.blocks[k] # l THEN k - 1 ELSE f.durable
<1> DEFINE S == Link \cup {None}
           n == Len(f.blocks)
           t == [j \in 1..(k - n) |-> None]
           padded == f.blocks \o t
           b == [padded EXCEPT ![k] = l]
           d == IF k <= f.durable /\ f.blocks[k] # l THEN k - 1 ELSE f.durable
<1>1. f.blocks \in Seq(S) /\ n \in Nat /\ f.durable \in Nat /\ k - n \in Int
  BY LenProperties DEF File
<1>2. /\ t \in Seq(S) /\ Len(t) = (IF k > n THEN k - n ELSE 0)
      /\ \A j \in 1..(k - n) : t[j] = None
  <2>1. k - n > 0 <=> k > n
    BY <1>1
  <2> QED
    BY <1>1, <2>1, Padding
<1> HIDE DEF t, n
<1>3. /\ padded \in Seq(S) /\ Len(padded) = n + Len(t)
      /\ \A j \in 1..(n + Len(t)) : padded[j] = IF j <= n THEN f.blocks[j] ELSE t[j - n]
  BY ZenonT(60), <1>1, <1>2, ConcatProperties DEF n
<1>4. Len(padded) = IF k > n THEN k ELSE n
  BY <1>1, <1>2, <1>3
<1> HIDE DEF padded
<1>5. k \in 1..Len(padded) /\ l \in S
  BY <1>1, <1>4
<1>6. /\ b \in Seq(S) /\ Len(b) = Len(padded)
      /\ \A j \in 1..Len(padded) : b[j] = IF j = k THEN l ELSE padded[j]
  BY <1>3, <1>5, ExceptSeq
<1>7. \A j \in 1..Len(padded) : j # k => padded[j] = IF j <= n THEN f.blocks[j] ELSE None
  <2> SUFFICES ASSUME NEW j \in 1..Len(padded), j # k
               PROVE  padded[j] = IF j <= n THEN f.blocks[j] ELSE None
    OBVIOUS
  <2>1. CASE j <= n
    BY <1>1, <1>2, <1>3, <1>4, <2>1
  <2>2. CASE j > n
    <3>1. j \in 1..(n + Len(t)) /\ j - n \in 1..(k - n) /\ ~(j <= n)
      BY <1>1, <1>2, <1>3, <1>4, <2>2
    <3> QED
      BY <1>2, <1>3, <3>1
  <2> QED
    BY <1>1, <2>1, <2>2
<1>8. d \in Nat
  BY <1>1
<1> HIDE DEF b, d
<1>9. Write(f, l, k) = [blocks |-> b, durable |-> d]
  BY DEF Write, b, d, padded, t, n
<1>10. [blocks |-> b, durable |-> d] \in File
  BY <1>6, <1>8 DEF File
<1>11. /\ Len(b) = (IF k > n THEN k ELSE n)
       /\ \A j \in 1..Len(b) : b[j] = IF j = k THEN l ELSE IF j <= n THEN f.blocks[j] ELSE None
  BY <1>4, <1>6, <1>7
<1> QED
  BY <1>9, <1>10, <1>11, NoneDiffers DEF d, n

LEMMA EmptyIs == Empty \in File /\ Empty # None /\ Empty.blocks = <<>> /\ Empty.durable = 0
                 /\ Len(Empty.blocks) = 0
<1>1. <<>> \in Seq(Link \cup {None}) /\ Len(<<>>) = 0
  BY EmptySeq
<1>2. Empty \in File
  BY <1>1 DEF Empty, File
<1> QED
  BY <1>1, <1>2, NoneDiffers DEF Empty

LEMMA SyncedIs ==
    ASSUME NEW f \in File
    PROVE  /\ Synced(f) \in File /\ Synced(f) # None /\ Synced(f).blocks = f.blocks
           /\ Synced(f).durable = Len(f.blocks)
<1>1. f.blocks \in Seq(Link \cup {None}) /\ Len(f.blocks) \in Nat
  BY LenProperties DEF File
<1>2. Synced(f) \in File
  BY <1>1 DEF Synced, File
<1> QED
  BY <1>2, NoneDiffers DEF Synced, File

\* What a power loss leaves of a file.
Cut(f, k) == SubSeq(f.blocks, 1, Smaller(Len(f.blocks), Larger(f.durable, k)))
Kept(f, k) == [blocks |-> Cut(f, k), durable |-> Len(Cut(f, k))]

LEMMA LeftIs ==
    ASSUME NEW f, NEW k
    PROVE  Left(f, k) = IF f = None THEN None ELSE Kept(f, k)
BY DEF Left, Kept, Cut

LEMMA KeptIs ==
    ASSUME NEW f \in File, NEW k \in Nat
    PROVE  /\ Kept(f, k) \in File /\ Kept(f, k) # None
           /\ Len(Kept(f, k).blocks) <= Len(f.blocks)
           /\ Kept(f, k).durable = Len(Kept(f, k).blocks)
           /\ \A j \in 1..Len(Kept(f, k).blocks) : Kept(f, k).blocks[j] = f.blocks[j]
           /\ f.durable = Len(f.blocks) => Kept(f, k).blocks = f.blocks
<1> DEFINE S == Link \cup {None}
           n == Smaller(Len(f.blocks), Larger(f.durable, k))
<1>1. f.blocks \in Seq(S) /\ Len(f.blocks) \in Nat /\ f.durable \in Nat
  BY LenProperties DEF File
<1>2. n \in Nat /\ n <= Len(f.blocks) /\ (f.durable = Len(f.blocks) => n = Len(f.blocks))
  BY <1>1 DEF Smaller, Larger
<1>3. Cut(f, k) = SubSeq(f.blocks, 1, n)
  BY DEF Cut
<1> HIDE DEF n
<1>4. \A j \in 1..n : f.blocks[j] \in S
  BY <1>1, <1>2, ElementOfSeq
<1>5. /\ Cut(f, k) \in Seq(S) /\ Len(Cut(f, k)) = (IF 1 <= n THEN n - 1 + 1 ELSE 0)
      /\ \A j \in 1..(n - 1 + 1) : Cut(f, k)[j] = f.blocks[1 + j - 1]
  BY <1>2, <1>3, <1>4, SubSeqProperties
<1>6. Len(Cut(f, k)) = n /\ \A j \in 1..n : Cut(f, k)[j] = f.blocks[j]
  BY <1>2, <1>5
<1>7. f.durable = Len(f.blocks) => Cut(f, k) = f.blocks
  BY <1>1, <1>2, <1>3, SubSeqFull
<1>8. Kept(f, k) \in File
  BY <1>2, <1>5, <1>6 DEF Kept, File
<1> QED
  BY <1>2, <1>6, <1>7, <1>8, NoneDiffers DEF Kept

-----------------------------------------------------------------------------
\* Moves of files and what they do to the children that write to them.

LEMMA RenamedIs ==
    ASSUME DiskType, NEW S \in SUBSET Path, NEW to \in [Path -> Path],
           \A q, r \in S : to[q] = to[r] => q = r
    PROVE  /\ Renamed(S, to) \in [Path -> File \cup {None}]
           /\ \A r \in S : Renamed(S, to)[to[r]] = disk[r]
           /\ \A q \in Path : (\A r \in S : to[r] # q) =>
                 Renamed(S, to)[q] = IF q \in S THEN None ELSE disk[q]
<1>1. ASSUME NEW r \in S PROVE Renamed(S, to)[to[r]] = disk[r]
  <2>1. to[r] \in Path
    OBVIOUS
  <2>2. (CHOOSE x \in S : to[x] = to[r]) = r
    OBVIOUS
  <2> QED
    BY <2>1, <2>2 DEF Renamed
<1>2. ASSUME NEW q \in Path, \A r \in S : to[r] # q
      PROVE  Renamed(S, to)[q] = IF q \in S THEN None ELSE disk[q]
  BY <1>2 DEF Renamed
<1>3. ASSUME NEW q \in Path PROVE Renamed(S, to)[q] \in File \cup {None}
  <2>1. CASE \E r \in S : to[r] = q
    BY <1>1, <2>1 DEF DiskType
  <2>2. CASE \A r \in S : to[r] # q
    BY <1>2, <2>2 DEF DiskType
  <2> QED
    BY <2>1, <2>2
<1>4. Renamed(S, to) = [q \in Path |-> Renamed(S, to)[q]]
  BY DEF Renamed
<1> QED
  BY <1>1, <1>2, <1>3, <1>4

\* A child with another file to write to.
Refiled(c, d, at) ==
    d # None /\ d.at = at /\ d.link = c.link /\ d.pos = c.pos /\ d.st = c.st

LEMMA RefiledIs ==
    ASSUME NEW c \in Child, NEW at \in Path \cup {None}
    PROVE  [c EXCEPT !.at = at] \in Child /\ Refiled(c, [c EXCEPT !.at = at], at)
<1>1. [c EXCEPT !.at = at] \in Child
  BY DEF Child
<1> QED
  BY <1>1, NoneDiffers DEF Child, Refiled

FollowedTo(S, to, at) ==
    IF at = None THEN None
    ELSE IF at \in S THEN to[at]
    ELSE IF \E r \in S : to[r] = at THEN None ELSE at

LEMMA FollowedIs ==
    ASSUME DiskType, NEW S \in SUBSET Path, NEW to \in [Path -> Path]
    PROVE  /\ Followed(S, to) \in [1..(MaxCrashes + 1) -> Child \cup {None}]
           /\ \A s \in 1..(MaxCrashes + 1) :
                 IF ffmpeg[s] = None THEN Followed(S, to)[s] = None
                 ELSE Refiled(ffmpeg[s], Followed(S, to)[s],
                              FollowedTo(S, to, ffmpeg[s].at))
<1>1. ASSUME NEW s \in 1..(MaxCrashes + 1)
      PROVE  /\ Followed(S, to)[s] \in Child \cup {None}
             /\ IF ffmpeg[s] = None THEN Followed(S, to)[s] = None
                ELSE Refiled(ffmpeg[s], Followed(S, to)[s],
                             FollowedTo(S, to, ffmpeg[s].at))
  <2> DEFINE c == ffmpeg[s]
  <2>1. CASE c = None
    BY <2>1 DEF Followed, DiskType
  <2>2. CASE c # None
    <3>1. c \in Child /\ c.at \in Path \cup {None}
      BY <2>2 DEF DiskType, Child
    <3>2. FollowedTo(S, to, c.at) \in Path \cup {None}
      BY <3>1 DEF FollowedTo
    <3>3. Refiled(c, c, c.at)
      BY <3>1, NoneDiffers DEF Refiled
    <3>4. CASE c.at = None
      BY <2>2, <3>1, <3>3, <3>4 DEF Followed, FollowedTo, DiskType
    <3>5. CASE c.at # None /\ c.at \in S
      <4>1. Followed(S, to)[s] = [c EXCEPT !.at = to[c.at]]
        BY <2>2, <3>5 DEF Followed, DiskType
      <4>2. FollowedTo(S, to, c.at) = to[c.at] /\ to[c.at] \in Path \cup {None}
        BY <3>2, <3>5 DEF FollowedTo
      <4>3. Followed(S, to)[s] \in Child /\ Refiled(c, Followed(S, to)[s], to[c.at])
        BY <3>1, <4>1, <4>2, RefiledIs
      <4> QED
        BY <2>2, <4>2, <4>3
    <3>6. CASE c.at # None /\ c.at \notin S /\ \E r \in S : to[r] = c.at
      <4>1. Followed(S, to)[s] = [c EXCEPT !.at = None]
        BY <2>2, <3>6 DEF Followed, DiskType
      <4>2. FollowedTo(S, to, c.at) = None
        BY <3>6 DEF FollowedTo
      <4>3. Followed(S, to)[s] \in Child /\ Refiled(c, Followed(S, to)[s], None)
        BY <3>1, <4>1, RefiledIs
      <4> QED
        BY <2>2, <4>2, <4>3
    <3>7. CASE c.at # None /\ c.at \notin S /\ ~\E r \in S : to[r] = c.at
      <4>1. Followed(S, to)[s] = c
        BY <2>2, <3>7 DEF Followed, DiskType
      <4> QED
        BY <2>2, <3>1, <3>3, <3>7, <4>1 DEF FollowedTo
    <3> QED
      BY <3>4, <3>5, <3>6, <3>7
  <2> QED
    BY <2>1, <2>2
<1>2. Followed(S, to) = [s \in 1..(MaxCrashes + 1) |-> Followed(S, to)[s]]
  BY DEF Followed, DiskType
<1> QED
  BY <1>1, <1>2

LEMMA UnlinkedIs ==
    ASSUME DiskType, NEW q \in Path
    PROVE  /\ Unlinked(q) \in [1..(MaxCrashes + 1) -> Child \cup {None}]
           /\ \A s \in 1..(MaxCrashes + 1) :
                 IF ffmpeg[s] = None THEN Unlinked(q)[s] = None
                 ELSE Refiled(ffmpeg[s], Unlinked(q)[s],
                              IF ffmpeg[s].at = q THEN None ELSE ffmpeg[s].at)
<1>1. ASSUME NEW s \in 1..(MaxCrashes + 1)
      PROVE  /\ Unlinked(q)[s] \in Child \cup {None}
             /\ IF ffmpeg[s] = None THEN Unlinked(q)[s] = None
                ELSE Refiled(ffmpeg[s], Unlinked(q)[s],
                             IF ffmpeg[s].at = q THEN None ELSE ffmpeg[s].at)
  <2> DEFINE c == ffmpeg[s]
  <2>1. CASE c = None
    BY <2>1 DEF Unlinked, DiskType
  <2>2. CASE c # None /\ c.at = q
    <3>1. Unlinked(q)[s] = [c EXCEPT !.at = None] /\ c \in Child
      BY <2>2 DEF Unlinked, DiskType
    <3> QED
      BY <2>2, <3>1, RefiledIs
  <2>3. CASE c # None /\ c.at # q
    <3>1. Unlinked(q)[s] = c /\ c \in Child
      BY <2>3 DEF Unlinked, DiskType
    <3> QED
      BY <2>3, <3>1 DEF Refiled
  <2> QED
    BY <2>1, <2>2, <2>3
<1>2. Unlinked(q) = [s \in 1..(MaxCrashes + 1) |-> Unlinked(q)[s]]
  BY DEF Unlinked, DiskType
<1> QED
  BY <1>1, <1>2

\* The two moves the model makes: a part to its final name, and files of the
\* old id to the new one.
Finalized == [q \in Path |-> [q EXCEPT !.part = FALSE]]
Rehomed == [q \in Path |-> InNew(q)]

LEMMA ToFinal ==
    /\ Finalized \in [Path -> Path]
    /\ \A n \in Name : Finalized[Part(n)] = Final(n)
<1>1. ASSUME NEW q \in Path PROVE [q EXCEPT !.part = FALSE] \in Path
  BY DEF Path
<1>2. ASSUME NEW n \in Name PROVE [Part(n) EXCEPT !.part = FALSE] = Final(n)
  <2> DEFINE x == [Part(n) EXCEPT !.part = FALSE]
  <2>1. Part(n) \in Path /\ Part(n).name = n
    BY Paths
  <2>2. x \in Path /\ x.name = n /\ ~x.part
    BY <2>1 DEF Path
  <2> QED
    BY <2>2, PathIs
<1> QED
  BY <1>1, <1>2, Paths DEF Finalized

LEMMA ToNew ==
    /\ Rehomed \in [Path -> Path]
    /\ \A q \in Path : Rehomed[q] = InNew(q)
BY NewPath DEF Rehomed

-----------------------------------------------------------------------------
\* What is found stays found.
Stands == \A n \in Name : disk'[Final(n)] = None <=> disk[Final(n)] = None

LEMMA FoundStays ==
    ASSUME PlayFindsDownloads, Stands, UNCHANGED showId,
           torn => torn', moving => moving' \/ torn'
    PROVE  PlayFindsDownloads'
<1> SUFFICES ASSUME showId' = "new", ~moving', ~torn', NEW e \in Episode,
                    \E id \in Ids : disk'[Final([id |-> id, ep |-> e])] # None
             PROVE  disk'[Final([id |-> "new", ep |-> e])] # None
  BY DEF PlayFindsDownloads
<1>1. \A id \in Ids : [id |-> id, ep |-> e] \in Name
  BY DEF Name
<1>2. "new" \in Ids
  BY DEF Ids
<1>3. \E id \in Ids : disk[Final([id |-> id, ep |-> e])] # None
  BY <1>1 DEF Stands
<1>4. disk[Final([id |-> "new", ep |-> e])] # None
  BY <1>3 DEF PlayFindsDownloads
<1> QED
  BY <1>1, <1>2, <1>4 DEF Stands

LEMMA TermedIs ==
    ASSUME DiskType, Children, NEW s \in 1..(MaxCrashes + 1), ffmpeg' = Termed(s),
           UNCHANGED disk
    PROVE  /\ ffmpeg' \in [1..(MaxCrashes + 1) -> Child \cup {None}]
           /\ Children'
           /\ \A i \in 1..(MaxCrashes + 1) :
                 IF ffmpeg[i] = None THEN ffmpeg'[i] = None
                 ELSE /\ ffmpeg'[i] # None /\ ffmpeg'[i].at = ffmpeg[i].at
                      /\ ffmpeg'[i].link = ffmpeg[i].link /\ ffmpeg'[i].pos = ffmpeg[i].pos
                      /\ ffmpeg'[i].st = "ok" => ffmpeg[i].st = "ok"
<1> DEFINE c == ffmpeg[s]
           d == [c EXCEPT !.st = IF @ = "runs" THEN "termed" ELSE @]
<1>1. CASE c = None
  BY <1>1, NoneDiffers DEF Termed, Children, DiskType
<1>2. CASE c # None
  <2>1. c \in Child
    BY <1>2 DEF DiskType
  <2>2. d \in Child /\ d.at = c.at /\ d.link = c.link /\ d.pos = c.pos
        /\ (d.st = "ok" => c.st = "ok")
    BY <2>1 DEF Child
  <2>3. d # None
    BY <2>2, NoneDiffers
  <2>4. ffmpeg' = [ffmpeg EXCEPT ![s] = d]
    BY <1>2 DEF Termed
  <2> HIDE DEF d
  <2>5. \A i \in 1..(MaxCrashes + 1) : ffmpeg'[i] = IF i = s THEN d ELSE ffmpeg[i]
    BY <2>4 DEF DiskType
  <2>6. ffmpeg' \in [1..(MaxCrashes + 1) -> Child \cup {None}]
    BY <2>2, <2>4 DEF DiskType
  <2>7. Children'
    BY <1>2, <2>2, <2>5, <2>6 DEF Children, DiskType
  <2> QED
    BY <1>2, <2>2, <2>3, <2>5, <2>6, <2>7
<1> QED
  BY <1>1, <1>2

LEMMA InterfaceSteps ==
    ASSUME SavingInv,
           \/ \E e \in Episode, id \in Ids : Press(e, id)
           \/ DownloadDone \/ DownloadFailed \/ Quit \/ Exit \/ Crash \/ Restart
           \/ Rekey \/ MoveEnds
    PROVE  SavingInv'
<1>0. UIType /\ DiskType /\ Running /\ Linked /\ Children /\ PlayFindsDownloads
  BY DEF SavingInv
<1>f. ASSUME UNCHANGED <<disk, ffmpeg>>, NEW j \in Job \cup {None}, job' = j
      PROVE  DiskType' /\ Children' /\ Stands
  BY <1>0, <1>f DEF DiskType, Children, Stands
<1>1. ASSUME NEW e \in Episode, NEW id \in Ids, Press(e, id)
      PROVE  SavingInv'
  <2> DEFINE n == [id |-> id, ep |-> e]
             j == [name |-> n, link |-> None, pc |-> "resolve", pos |-> 0, append |-> FALSE]
             d == [active |-> TRUE, ep |-> e, id |-> id]
  <2>1. n \in Name /\ n.id = id /\ n.ep = e
    BY DEF Name
  <2> HIDE DEF n
  <2>2. j \in Job /\ j # None /\ j.name = n /\ j.pc = "resolve"
    BY <2>1, NoneDiffers DEF Job
  <2>3. /\ d \in [active : BOOLEAN, ep : Episode \cup {None}, id : Ids \cup {None}]
        /\ d.active /\ d.id = id
    OBVIOUS
  <2>4. job' = j /\ download' = d
    BY <1>1 DEF Press, n
  <2> HIDE DEF j, d
  <2>5. UIType'
    BY <1>0, <1>1, <2>3, <2>4 DEF Press, UIType
  <2>6. DiskType' /\ Children' /\ Stands
    BY <1>1, <1>f, <2>2, <2>4 DEF Press
  <2>7. mail = None /\ ~download.active
    BY <1>0, <1>1 DEF Press, Running
  <2>8. id = "old" => showId = "old"
    BY <1>0, <1>1 DEF Press, Shown, UIType, Ids
  <2>9. Running'
    BY <1>0, <1>1, <2>1, <2>2, <2>3, <2>4, <2>7, <2>8, NoneDiffers DEF Press, Running
  <2>10. Linked'
    BY <2>2, <2>4 DEF Linked
  <2>11. PlayFindsDownloads'
    BY <1>0, <1>1, <2>6, FoundStays DEF Press
  <2> QED
    BY <2>5, <2>6, <2>9, <2>10, <2>11 DEF SavingInv
<1>2. CASE DownloadDone \/ DownloadFailed
  <2>1. job = None
    BY <1>0, <1>2, NoneDiffers DEF DownloadDone, DownloadFailed, Running
  <2>2. /\ UNCHANGED <<phase, session, showId, moving, starts, torn, job, disk, ffmpeg, crashes>>
        /\ mail' = None /\ download' = Off
    BY <1>2 DEF DownloadDone, DownloadFailed
  <2>3. /\ Off \in [active : BOOLEAN, ep : Episode \cup {None}, id : Ids \cup {None}]
        /\ ~Off.active
    BY DEF Off
  <2>4. UIType'
    BY <1>0, <2>2, <2>3 DEF UIType
  <2>5. DiskType' /\ Children' /\ Stands
    BY <1>0, <1>f, <2>2 DEF DiskType
  <2>6. Running' /\ Linked'
    BY <1>0, <2>1, <2>2, <2>3 DEF Running, Linked
  <2> QED
    BY <1>0, <2>2, <2>4, <2>5, <2>6, FoundStays DEF SavingInv
<1>3. CASE Quit
  <2>1. UIType'
    BY <1>0, <1>3 DEF Quit, UIType
  <2>2. ffmpeg' = ffmpeg \/ ffmpeg' = Termed(session)
    BY <1>3 DEF Quit
  <2>3. DiskType' /\ Children' /\ Stands
    <3>1. UNCHANGED <<disk, job>> /\ session \in 1..(MaxCrashes + 1) /\ Stands
      BY <1>0, <1>3 DEF Quit, UIType, Stands
    <3>2. CASE ffmpeg' = ffmpeg
      BY <1>0, <3>1, <3>2 DEF DiskType, Children
    <3>3. CASE ffmpeg' = Termed(session)
      BY <1>0, <3>1, <3>3, TermedIs DEF DiskType
    <3> QED
      BY <2>2, <3>1, <3>2, <3>3
  <2>4. Running' /\ Linked'
    BY <1>0, <1>3 DEF Quit, Running, Linked
  <2> QED
    BY <1>0, <1>3, <2>1, <2>3, <2>4, FoundStays DEF SavingInv, Quit
<1>4. CASE Exit \/ Crash
  <2>1. /\ Gone /\ CutShort /\ UNCHANGED <<disk, ffmpeg>>
        /\ crashes' \in Nat
    BY <1>0, <1>4 DEF Exit, Crash, UIType
  <2>2. /\ phase' = "down" /\ download' = Off /\ mail' = None /\ job' = None
        /\ moving' = FALSE /\ torn' = (torn \/ moving) /\ UNCHANGED <<session, showId, starts>>
    BY <2>1 DEF Gone, CutShort
  <2>3. /\ Off \in [active : BOOLEAN, ep : Episode \cup {None}, id : Ids \cup {None}]
        /\ ~Off.active
    BY DEF Off
  <2>4. UIType'
    BY <1>0, <2>1, <2>2, <2>3 DEF UIType
  <2>5. DiskType' /\ Children' /\ Stands
    BY <1>f, <2>1, <2>2
  <2>6. Running' /\ Linked'
    BY <2>2, <2>3 DEF Running, Linked
  <2>7. PlayFindsDownloads'
    BY <1>0, <2>2, <2>5, FoundStays
  <2> QED
    BY <2>4, <2>5, <2>6, <2>7 DEF SavingInv
<1>5. CASE Restart
  <2>1. UIType'
    BY <1>0, <1>5, BoundsAssumption DEF Restart, UIType
  <2>2. DiskType' /\ Children' /\ Stands
    BY <1>0, <1>5, <1>f DEF Restart, DiskType
  <2>3. Running' /\ Linked'
    BY <1>0, <1>5 DEF Restart, Running, Linked
  <2> QED
    BY <1>0, <1>5, <2>1, <2>2, <2>3, FoundStays DEF SavingInv, Restart
<1>6. CASE Rekey
  <2>1. UIType'
    BY <1>0, <1>6 DEF Rekey, UIType, Ids
  <2>2. DiskType' /\ Children' /\ Stands
    BY <1>0, <1>6, <1>f DEF Rekey, DiskType
  <2>3. Running' /\ Linked'
    BY <1>0, <1>6 DEF Rekey, WritesInFlight, Running, Linked
  <2>4. PlayFindsDownloads'
    BY <1>6 DEF Rekey, PlayFindsDownloads
  <2> QED
    BY <2>1, <2>2, <2>3, <2>4 DEF SavingInv
<1>7. CASE MoveEnds
  <2>1. UIType'
    BY <1>0, <1>7 DEF MoveEnds, UIType
  <2>2. DiskType' /\ Children'
    BY <1>0, <1>7, <1>f DEF MoveEnds, DiskType
  <2>3. Running' /\ Linked'
    BY <1>0, <1>7 DEF MoveEnds, Running, Linked
  <2>4. PlayFindsDownloads'
    <3> SUFFICES ASSUME NEW e \in Episode, NEW id \in Ids,
                        disk[Final([id |-> id, ep |-> e])] # None
                 PROVE  disk[Final([id |-> "new", ep |-> e])] # None
      BY <1>7 DEF MoveEnds, PlayFindsDownloads
    <3> DEFINE o == [id |-> "old", ep |-> e]
               n == [id |-> "new", ep |-> e]
    <3>1. CASE id = "new"
      BY <3>1
    <3>2. CASE id = "old"
      <4>1. o \in Name /\ n \in Name /\ o.id = "old" /\ n = [o EXCEPT !.id = "new"]
        BY DEF Name, Ids
      <4>2. Final(o) \in Path /\ Final(o).name = o /\ ~Final(o).part
        BY <4>1, Paths
      <4>3. Final(o) \in Held("old")
        BY <3>2, <4>1, <4>2 DEF Held
      <4>4. disk[InNew(Final(o))] # None
        BY <1>7, <4>3 DEF MoveEnds, Movable
      <4>5. InNew(Final(o)) \in Path /\ ~InNew(Final(o)).part /\ InNew(Final(o)).name = n
        BY <4>1, <4>2, NewPath
      <4>6. InNew(Final(o)) = Final(n)
        BY <4>5, PathIs
      <4> QED
        BY <4>4, <4>6
    <3> QED
      BY <3>1, <3>2 DEF Ids
  <2> QED
    BY <2>1, <2>2, <2>3, <2>4 DEF SavingInv
<1> QED
  BY <1>1, <1>2, <1>3, <1>4, <1>5, <1>6, <1>7

-----------------------------------------------------------------------------
\* The worker's steps.

LEMMA JobGoesOn ==
    ASSUME SavingInv, KeepRest, job # None, NEW j \in Job, job' = j, j.name = job.name,
           UNCHANGED mail
    PROVE  UIType' /\ Running' /\ (Stands => PlayFindsDownloads')
<1>1. UIType'
  BY DEF SavingInv, Keep, KeepRest, UIType
<1>2. Running'
  BY DEF SavingInv, Keep, KeepRest, Running
<1> QED
  BY <1>1, <1>2, FoundStays DEF SavingInv, Keep, KeepRest

LEMMA JobEnds ==
    ASSUME SavingInv, KeepRest, job # None, job' = None, mail' \in {"done", "failed"}
    PROVE  UIType' /\ Running' /\ Linked' /\ (Stands => PlayFindsDownloads')
<1>1. UIType'
  BY DEF SavingInv, Keep, KeepRest, UIType
<1>2. Running' /\ Linked'
  BY DEF SavingInv, Keep, KeepRest, Running, Linked
<1> QED
  BY <1>1, <1>2, FoundStays DEF SavingInv, Keep, KeepRest

LEMMA PartWritten ==
    ASSUME DiskType, NEW n \in Name, NEW f \in File \cup {None},
           disk' = [disk EXCEPT ![Part(n)] = f]
    PROVE  /\ disk' \in [Path -> File \cup {None}]
           /\ disk'[Part(n)] = f
           /\ \A q \in Path : q # Part(n) => disk'[q] = disk[q]
           /\ Stands
<1>1. \A m \in Name : Final(m) \in Path /\ Final(m) # Part(n)
  BY Paths
<1>2. Part(n) \in Path
  BY Paths
<1>3. \A m \in Name : disk'[Final(m)] = disk[Final(m)]
  BY <1>1, <1>2 DEF DiskType
<1> QED
  BY <1>2, <1>3 DEF DiskType, Stands

LEMMA ChildrenKept ==
    ASSUME DiskType, Children, UNCHANGED ffmpeg,
           \A q \in Path : disk[q] # None => disk'[q] # None
    PROVE  Children'
BY DEF DiskType, Children, Child

LEMMA JobIs ==
    ASSUME DiskType, job # None
    PROVE  job \in Job /\ job.name \in Name /\ Part(job.name) \in Path
<1>1. job \in Job /\ job.name \in Name
  BY DEF DiskType, Job
<1> QED
  BY <1>1, Paths

LEMMA StepsOfTheJob ==
    ASSUME SavingInv, Resolve \/ Ask \/ Received \/ AlreadyWhole
    PROVE  SavingInv'
<1>0. UIType /\ DiskType /\ Running /\ Linked /\ Children /\ PlayFindsDownloads
  BY DEF SavingInv
<1>1. /\ KeepRest /\ UNCHANGED <<mail, disk, ffmpeg>> /\ job # None
  BY DEF Resolve, Ask, Received, AlreadyWhole, At, Keep
<1>2. job \in Job /\ job.name \in Name /\ job.name.ep \in Episode
  BY <1>0, <1>1, JobIs DEF Name
<1>3. Stands
  BY <1>1 DEF Stands
<1>4. ASSUME NEW j \in Job, job' = j, j.name = job.name, Linked'
      PROVE  SavingInv'
  <2>1. UIType' /\ Running' /\ PlayFindsDownloads'
    BY <1>1, <1>3, <1>4, JobGoesOn
  <2>2. DiskType' /\ Children'
    BY <1>0, <1>1, <1>4 DEF DiskType, Children
  <2> QED
    BY <1>4, <2>1, <2>2 DEF SavingInv
<1>5. CASE Resolve
  <2>1. PICK l \in Offers[job.name.ep] :
           job' = [job EXCEPT !.link = l, !.pc = IF l \in Hls THEN "spawn" ELSE "ask"]
    BY <1>5 DEF Resolve
  <2>2. l \in Link
    BY <1>2, LinkAssumption
  <2> DEFINE j == [job EXCEPT !.link = l, !.pc = IF l \in Hls THEN "spawn" ELSE "ask"]
  <2>3. j \in Job /\ j.name = job.name /\ j.link = l /\ j.pc = IF l \in Hls THEN "spawn" ELSE "ask"
    BY <1>2, <2>2 DEF Job
  <2>4. job' = j
    BY <2>1
  <2> HIDE DEF j
  <2>5. Linked'
    BY <2>3, <2>4 DEF Linked
  <2> QED
    BY <1>4, <2>3, <2>4, <2>5
<1>6. CASE Ask
  <2> DEFINE n == Length(Part(job.name))
             j == [job EXCEPT !.pos = n, !.pc = "answer"]
  <2>1. n \in Nat
    <3>1. disk[Part(job.name)] \in File \cup {None}
      BY <1>0, <1>1, JobIs DEF DiskType
    <3> QED
      BY <3>1, LenProperties DEF Length, File
  <2>2. job' = j /\ job.pc = "ask"
    BY <1>6 DEF Ask, At
  <2> HIDE DEF n
  <2>3. j \in Job /\ j.name = job.name /\ j.link = job.link /\ j.pc = "answer"
    BY <1>2, <2>1 DEF Job
  <2> HIDE DEF j
  <2>4. Linked'
    BY <1>0, <1>1, <2>2, <2>3 DEF Linked
  <2> QED
    BY <1>4, <2>2, <2>3, <2>4
<1>7. CASE Received
  <2> DEFINE j == [job EXCEPT !.pc = "sync"]
  <2>1. job' = j /\ job.pc = "write"
    BY <1>7 DEF Received, At
  <2>2. j \in Job /\ j.name = job.name /\ j.link = job.link /\ j.pc = "sync"
    BY <1>2 DEF Job
  <2> HIDE DEF j
  <2>3. Linked'
    BY <1>0, <1>1, <2>1, <2>2 DEF Linked
  <2> QED
    BY <1>4, <2>1, <2>2, <2>3
<1>8. CASE AlreadyWhole
  <2> DEFINE j == [job EXCEPT !.pc = "rename"]
  <2>1. job' = j /\ job.pc = "answer"
    BY <1>8 DEF AlreadyWhole, At
  <2>2. j \in Job /\ j.name = job.name /\ j.link = job.link /\ j.pc = "rename"
    BY <1>2 DEF Job
  <2> HIDE DEF j
  <2>3. Linked'
    BY <1>0, <1>1, <2>1, <2>2 DEF Linked
  <2> QED
    BY <1>4, <2>1, <2>2, <2>3
<1> QED
  BY <1>5, <1>6, <1>7, <1>8

LEMMA StepsOnThePart ==
    ASSUME SavingInv, Answer \/ WriteBlock \/ Sync
    PROVE  SavingInv'
<1>0. UIType /\ DiskType /\ Running /\ Linked /\ Children /\ PlayFindsDownloads
  BY DEF SavingInv
<1>1. KeepRest /\ UNCHANGED <<mail, ffmpeg>> /\ job # None
  BY DEF Answer, WriteBlock, Sync, At, Keep
<1> DEFINE part == Part(job.name)
<1>2. /\ job \in Job /\ job.name \in Name /\ job.name.ep \in Episode
      /\ part \in Path /\ disk[part] \in File \cup {None}
  BY <1>0, <1>1, JobIs DEF Name, DiskType
<1>3. ASSUME NEW j \in Job, job' = j, j.name = job.name, Linked',
             NEW f \in File, disk' = [disk EXCEPT ![part] = f]
      PROVE  SavingInv'
  <2>1. /\ disk' \in [Path -> File \cup {None}] /\ Stands
        /\ disk'[part] = f /\ \A q \in Path : q # part => disk'[q] = disk[q]
    BY <1>0, <1>2, <1>3, PartWritten
  <2>2. UIType' /\ Running' /\ PlayFindsDownloads'
    BY <1>1, <1>3, <2>1, JobGoesOn
  <2>3. DiskType'
    BY <1>0, <1>1, <1>3, <2>1 DEF DiskType
  <2>4. Children'
    BY <1>0, <1>1, <1>3, <2>1, NoneDiffers, ChildrenKept
  <2> QED
    BY <1>3, <2>2, <2>3, <2>4 DEF SavingInv
<1>4. CASE Answer
  <2> DEFINE status == IF Ranged THEN 206 ELSE 200
             pos == IF status = 206 THEN job.pos + 1 ELSE 1
             app == Resumes(status)
             j == [job EXCEPT !.pc = "write", !.pos = pos, !.append = app]
             f == IF Resumes(status) /\ disk[part] # None THEN disk[part] ELSE Empty
  <2>1. pos \in Nat /\ pos > 0 /\ app \in BOOLEAN
    BY <1>2 DEF Job, Resumes
  <2>2. job' = j /\ job.pc = "answer"
    BY <1>4 DEF Answer, At
  <2>3. f \in File
    BY <1>2, EmptyIs
  <2>4. disk' = [disk EXCEPT ![part] = f]
    BY <1>0, <1>4 DEF Answer, DiskType
  <2> HIDE DEF pos, app, f
  <2>5. j \in Job /\ j.name = job.name /\ j.link = job.link /\ j.pc = "write" /\ j.pos > 0
    BY <1>2, <2>1 DEF Job
  <2> HIDE DEF j
  <2>6. Linked'
    BY <1>0, <1>1, <2>2, <2>5 DEF Linked
  <2> QED
    BY <1>3, <2>2, <2>3, <2>4, <2>5, <2>6
<1>5. CASE WriteBlock
  <2> DEFINE at == IF job.append THEN Length(part) + 1 ELSE job.pos
             j == [job EXCEPT !.pos = @ + 1]
             f == Write(disk[part], job.link, at)
  <2>1. job' = j /\ job.pc = "write" /\ disk[part] \in File
    BY <1>2, <1>5 DEF WriteBlock, At
  <2>2. disk' = [disk EXCEPT ![part] = f]
    BY <1>5 DEF WriteBlock
  <2>3. job.link \in Link
    BY <1>0, <1>1, <1>2, <2>1, LinkAssumption DEF Linked
  <2>4. at \in Nat \ {0}
    <3>1. Length(part) \in Nat
      BY <2>1, LenProperties DEF Length, File
    <3>2. job.pos \in Nat /\ job.pos > 0
      BY <1>0, <1>1, <1>2, <2>1 DEF Linked, Job
    <3> QED
      BY <3>1, <3>2
  <2> HIDE DEF at
  <2>5. f \in File
    BY <2>1, <2>3, <2>4, WriteIs
  <2>6. j \in Job /\ j.name = job.name /\ j.link = job.link /\ j.pc = "write" /\ j.pos > 0
    BY <1>0, <1>1, <1>2, <2>1 DEF Job, Linked
  <2> HIDE DEF j, f
  <2>7. Linked'
    BY <1>0, <1>1, <2>1, <2>6 DEF Linked
  <2> QED
    BY <1>3, <2>1, <2>2, <2>5, <2>6, <2>7
<1>6. CASE Sync
  <2> DEFINE j == [job EXCEPT !.pc = "rename"]
             f == Synced(disk[part])
  <2>1. job' = j /\ job.pc = "sync" /\ disk[part] \in File
    BY <1>2, <1>6 DEF Sync, At
  <2>2. disk' = [disk EXCEPT ![part] = f] /\ f \in File
    BY <1>6, <2>1, SyncedIs DEF Sync
  <2>3. j \in Job /\ j.name = job.name /\ j.link = job.link /\ j.pc = "rename"
    BY <1>2 DEF Job
  <2> HIDE DEF j, f
  <2>4. Linked'
    BY <1>0, <1>1, <2>1, <2>3 DEF Linked
  <2> QED
    BY <1>3, <2>1, <2>2, <2>3, <2>4
<1> QED
  BY <1>4, <1>5, <1>6

LEMMA ChildStarted ==
    ASSUME DiskType, Children, NEW s \in 1..(MaxCrashes + 1), NEW c \in Child \cup {None},
           ffmpeg' = [ffmpeg EXCEPT ![s] = c],
           \A q \in Path : disk[q] # None => disk'[q] # None,
           c # None /\ c.at # None =>
               disk'[c.at] # None /\ c.link \in Offers[c.at.name.ep]
    PROVE  /\ ffmpeg' \in [1..(MaxCrashes + 1) -> Child \cup {None}]
           /\ Children'
<1>1. \A i \in 1..(MaxCrashes + 1) : ffmpeg'[i] = IF i = s THEN c ELSE ffmpeg[i]
  BY DEF DiskType
<1>2. ffmpeg' \in [1..(MaxCrashes + 1) -> Child \cup {None}]
  BY DEF DiskType
<1> QED
  BY <1>1, <1>2 DEF Children, DiskType, Child

LEMMA StepsWithAChild ==
    ASSUME SavingInv, Spawn \/ Cancel \/ Reap
    PROVE  SavingInv'
<1>0. UIType /\ DiskType /\ Running /\ Linked /\ Children /\ PlayFindsDownloads
  BY DEF SavingInv
<1>1. KeepRest /\ job # None /\ session \in 1..(MaxCrashes + 1)
  BY <1>0 DEF Spawn, Cancel, Reap, At, UIType, Keep
<1> DEFINE part == Part(job.name)
<1>2. /\ job \in Job /\ job.name \in Name /\ job.name.ep \in Episode
      /\ part \in Path /\ part.name = job.name
  BY <1>0, <1>1, JobIs, Paths DEF Name
<1>3. CASE Spawn
  <2> DEFINE c == [at |-> part, link |-> job.link, pos |-> 1, st |-> "runs"]
             j == [job EXCEPT !.pc = "wait"]
  <2>1. /\ job' = j /\ ffmpeg' = [ffmpeg EXCEPT ![session] = c]
        /\ disk' = [disk EXCEPT ![part] = Empty] /\ job.pc = "spawn" /\ UNCHANGED mail
    BY <1>3 DEF Spawn, At
  <2>2. job.link \in Hls /\ job.link \in Offers[job.name.ep]
    BY <1>0, <1>1, <2>1 DEF Linked
  <2>3. c \in Child /\ c.at = part /\ c.link = job.link
    BY <1>2, <2>2, SizeAssumption DEF Child
  <2>4. j \in Job /\ j.name = job.name /\ j.link = job.link /\ j.pc = "wait"
    BY <1>2 DEF Job
  <2> HIDE DEF c, j, part
  <2>5. /\ disk' \in [Path -> File \cup {None}] /\ Stands
        /\ disk'[part] = Empty /\ \A q \in Path : q # part => disk'[q] = disk[q]
    BY <1>0, <1>2, <2>1, EmptyIs, PartWritten DEF part
  <2>6. \A q \in Path : disk[q] # None => disk'[q] # None
    BY <2>5, EmptyIs
  <2>7. ffmpeg' \in [1..(MaxCrashes + 1) -> Child \cup {None}] /\ Children'
    BY <1>0, <1>1, <1>2, <2>1, <2>2, <2>3, <2>5, <2>6, EmptyIs, ChildStarted
  <2>8. DiskType'
    BY <2>1, <2>4, <2>5, <2>7 DEF DiskType
  <2>9. Linked'
    BY <1>0, <1>1, <2>1, <2>2, <2>4 DEF Linked
  <2>10. UIType' /\ Running' /\ PlayFindsDownloads'
    BY <1>1, <2>1, <2>4, <2>5, JobGoesOn
  <2> QED
    BY <2>7, <2>8, <2>9, <2>10 DEF SavingInv
<1>4. CASE Cancel
  <2>1. ffmpeg' = Termed(session) /\ UNCHANGED <<mail, job, disk>> /\ Stands
    BY <1>4 DEF Cancel, Stands
  <2>2. DiskType' /\ Children'
    BY <1>0, <1>1, <2>1, TermedIs DEF DiskType
  <2>3. Linked'
    BY <1>0, <2>1 DEF Linked
  <2>4. UIType' /\ Running' /\ PlayFindsDownloads'
    BY <1>1, <1>2, <2>1, JobGoesOn
  <2> QED
    BY <2>2, <2>3, <2>4 DEF SavingInv
<1>5. CASE Reap
  <2>1. /\ ffmpeg' = [ffmpeg EXCEPT ![session] = None]
        /\ UNCHANGED disk /\ Stands
        /\ \/ job' = [job EXCEPT !.pc = "sync"] /\ UNCHANGED mail
           \/ job' = None /\ mail' = "failed"
        /\ job.pc = "wait"
    BY <1>5 DEF Reap, At, Stands
  <2>2. ffmpeg' \in [1..(MaxCrashes + 1) -> Child \cup {None}] /\ Children'
    BY <1>0, <1>1, <2>1, ChildStarted
  <2>3. CASE job' = [job EXCEPT !.pc = "sync"] /\ UNCHANGED mail
    <3> DEFINE j == [job EXCEPT !.pc = "sync"]
    <3>1. j \in Job /\ j.name = job.name /\ j.link = job.link /\ j.pc = "sync"
      BY <1>2 DEF Job
    <3>2. job' = j
      BY <2>3
    <3> HIDE DEF j
    <3>3. Linked'
      BY <1>0, <1>1, <2>1, <3>1, <3>2 DEF Linked
    <3>4. UIType' /\ Running' /\ PlayFindsDownloads'
      BY <1>1, <2>1, <2>3, <3>1, <3>2, JobGoesOn
    <3>5. DiskType'
      BY <1>0, <2>1, <2>2, <3>1, <3>2 DEF DiskType
    <3> QED
      BY <2>2, <3>3, <3>4, <3>5 DEF SavingInv
  <2>4. CASE job' = None /\ mail' = "failed"
    <3>1. DiskType'
      BY <1>0, <2>1, <2>2, <2>4 DEF DiskType
    <3> QED
      BY <1>1, <2>1, <2>2, <2>4, <3>1, JobEnds DEF SavingInv
  <2> QED
    BY <2>1, <2>3, <2>4
<1> QED
  BY <1>3, <1>4, <1>5

\* The rename of a finished part.
LEMMA RenameIs ==
    ASSUME DiskType, Children, Linked, Rename
    PROVE  /\ job # None /\ job.name \in Name /\ job.pc = "rename"
           /\ disk[Part(job.name)] # None
           /\ disk' \in [Path -> File \cup {None}]
           /\ disk'[Final(job.name)] = disk[Part(job.name)]
           /\ disk'[Part(job.name)] = None
           /\ \A q \in Path \ {Part(job.name), Final(job.name)} : disk'[q] = disk[q]
           /\ ffmpeg' \in [1..(MaxCrashes + 1) -> Child \cup {None}]
           /\ Children'
<1> DEFINE n == job.name
           S == {Part(n)}
           to == [q \in Path |-> [q EXCEPT !.part = FALSE]]
<1>1. job # None /\ n \in Name /\ Part(n) \in Path /\ job.pc = "rename"
  BY JobIs DEF Rename, At
<1>2. to = Finalized
  BY DEF Finalized
<1>3. disk' = Renamed(S, to) /\ ffmpeg' = Followed(S, to) /\ disk[Part(n)] # None
  BY DEF Rename
<1> HIDE DEF to
<1>4. /\ to \in [Path -> Path] /\ to[Part(n)] = Final(n) /\ Final(n) \in Path
      /\ Final(n).name = n /\ Part(n).name = n /\ Part(n) # Final(n)
  BY <1>1, <1>2, ToFinal, Paths
<1>5. /\ Renamed(S, to) \in [Path -> File \cup {None}]
      /\ \A r \in S : Renamed(S, to)[to[r]] = disk[r]
      /\ \A q \in Path : (\A r \in S : to[r] # q) =>
            Renamed(S, to)[q] = IF q \in S THEN None ELSE disk[q]
  BY <1>1, <1>4, RenamedIs
<1>6. /\ disk' \in [Path -> File \cup {None}]
      /\ disk'[Final(n)] = disk[Part(n)] /\ disk'[Part(n)] = None
      /\ \A q \in Path \ {Part(n), Final(n)} : disk'[q] = disk[q]
  BY <1>1, <1>3, <1>4, <1>5
<1>7. /\ ffmpeg' \in [1..(MaxCrashes + 1) -> Child \cup {None}]
      /\ \A s \in 1..(MaxCrashes + 1) :
            IF ffmpeg[s] = None THEN ffmpeg'[s] = None
            ELSE Refiled(ffmpeg[s], ffmpeg'[s], FollowedTo(S, to, ffmpeg[s].at))
  BY <1>1, <1>3, <1>4, FollowedIs
<1>8. ASSUME NEW s \in 1..(MaxCrashes + 1), ffmpeg'[s] # None, ffmpeg'[s].at # None
      PROVE  disk'[ffmpeg'[s].at] # None /\ ffmpeg'[s].link \in Offers[ffmpeg'[s].at.name.ep]
  <2> DEFINE c == ffmpeg[s]
  <2>1. /\ c # None /\ Refiled(c, ffmpeg'[s], FollowedTo(S, to, c.at))
        /\ c \in Child /\ c.at \in Path \cup {None}
    BY <1>7, <1>8 DEF DiskType, Child
  <2>2. ffmpeg'[s].at = FollowedTo(S, to, c.at) /\ ffmpeg'[s].link = c.link
    BY <2>1 DEF Refiled
  <2>3. c.at # None /\ c.at # Final(n)
    BY <1>1, <1>4, <1>8, <2>2 DEF FollowedTo
  <2>4. disk[c.at] # None /\ c.link \in Offers[c.at.name.ep]
    BY <2>1, <2>3 DEF Children, DiskType
  <2>5. CASE c.at = Part(n)
    BY <1>1, <1>3, <1>4, <1>6, <2>2, <2>3, <2>4, <2>5 DEF FollowedTo
  <2>6. CASE c.at # Part(n)
    BY <1>4, <1>6, <1>8, <2>1, <2>2, <2>3, <2>4, <2>6 DEF FollowedTo
  <2> QED
    BY <2>5, <2>6
<1>9. Children'
  BY <1>7, <1>8 DEF Children
<1> QED
  BY <1>1, <1>3, <1>6, <1>7, <1>9

LEMMA LastSteps ==
    ASSUME SavingInv, Fail \/ OutOfRange \/ Rename
    PROVE  SavingInv'
<1>0. UIType /\ DiskType /\ Running /\ Linked /\ Children /\ PlayFindsDownloads
  BY DEF SavingInv
<1>1. KeepRest /\ job # None /\ job' = None /\ mail' \in {"done", "failed"}
  BY DEF Fail, OutOfRange, Rename, At, Keep
<1>2. UIType' /\ Running' /\ Linked' /\ (Stands => PlayFindsDownloads')
  BY <1>1, JobEnds
<1>3. CASE Fail
  <2>1. UNCHANGED <<disk, ffmpeg>> /\ Stands
    BY <1>3 DEF Fail, Stands
  <2>2. DiskType' /\ Children'
    BY <1>0, <1>1, <2>1 DEF DiskType, Children
  <2> QED
    BY <1>2, <2>1, <2>2 DEF SavingInv
<1>4. CASE OutOfRange
  <2> DEFINE part == Part(job.name)
  <2>1. part \in Path /\ job.name \in Name
    BY <1>0, <1>1, JobIs
  <2>2. disk' = [disk EXCEPT ![part] = None] /\ ffmpeg' = Unlinked(part)
    BY <1>4 DEF OutOfRange
  <2>3. /\ disk' \in [Path -> File \cup {None}] /\ Stands
        /\ \A q \in Path : q # part => disk'[q] = disk[q]
    BY <1>0, <2>1, <2>2, PartWritten
  <2> HIDE DEF part
  <2>4. /\ ffmpeg' \in [1..(MaxCrashes + 1) -> Child \cup {None}]
        /\ \A s \in 1..(MaxCrashes + 1) :
              IF ffmpeg[s] = None THEN ffmpeg'[s] = None
              ELSE Refiled(ffmpeg[s], ffmpeg'[s],
                           IF ffmpeg[s].at = part THEN None ELSE ffmpeg[s].at)
    BY <1>0, <2>1, <2>2, UnlinkedIs
  <2>5. DiskType'
    BY <1>1, <2>3, <2>4 DEF DiskType
  <2>6. ASSUME NEW s \in 1..(MaxCrashes + 1), ffmpeg'[s] # None, ffmpeg'[s].at # None
        PROVE  disk'[ffmpeg'[s].at] # None /\ ffmpeg'[s].link \in Offers[ffmpeg'[s].at.name.ep]
    <3>1. /\ ffmpeg[s] # None /\ ffmpeg[s].at # part /\ ffmpeg'[s].at = ffmpeg[s].at
          /\ ffmpeg'[s].link = ffmpeg[s].link
      BY <2>4, <2>6 DEF Refiled
    <3>2. ffmpeg[s].at \in Path
      BY <1>0, <2>6, <3>1 DEF DiskType, Child
    <3> QED
      BY <1>0, <2>3, <2>6, <3>1, <3>2 DEF Children, DiskType
  <2>7. Children'
    BY <2>4, <2>6 DEF Children
  <2> QED
    BY <1>2, <2>3, <2>5, <2>7 DEF SavingInv
<1>5. CASE Rename
  <2> DEFINE n == job.name
  <2>1. /\ n \in Name /\ disk[Part(n)] # None
        /\ disk' \in [Path -> File \cup {None}]
        /\ disk'[Final(n)] = disk[Part(n)]
        /\ \A q \in Path \ {Part(n), Final(n)} : disk'[q] = disk[q]
        /\ ffmpeg' \in [1..(MaxCrashes + 1) -> Child \cup {None}] /\ Children'
    BY <1>0, <1>5, RenameIs
  <2>2. DiskType'
    BY <1>1, <2>1 DEF DiskType
  <2>3. n.id = "old" => showId = "old"
    BY <1>0, <1>1 DEF Running
  <2>4. \A m \in Name : m # n => disk'[Final(m)] = disk[Final(m)]
    BY <2>1, Paths
  <2>5. PlayFindsDownloads'
    <3> SUFFICES ASSUME showId = "new", ~moving, ~torn, NEW e \in Episode, NEW id \in Ids,
                        disk'[Final([id |-> id, ep |-> e])] # None
                 PROVE  disk'[Final([id |-> "new", ep |-> e])] # None
      BY <1>1 DEF Keep, KeepRest, PlayFindsDownloads
    <3> DEFINE m == [id |-> id, ep |-> e]
               new == [id |-> "new", ep |-> e]
    <3>1. m \in Name /\ new \in Name /\ m.id = id
      BY DEF Name, Ids
    <3>2. CASE new = n
      BY <2>1, <3>2
    <3>3. CASE new # n
      <4>1. id = "old" => m # n
        BY <2>3, <3>1
      <4>2. m # n
        BY <3>3, <4>1 DEF Ids
      <4>3. disk[Final(m)] # None
        BY <2>4, <3>1, <4>2
      <4>4. disk[Final(new)] # None
        BY <1>0, <4>3 DEF PlayFindsDownloads
      <4> QED
        BY <2>4, <3>1, <3>3, <4>4
    <3> QED
      BY <3>2, <3>3
  <2> QED
    BY <1>2, <2>1, <2>2, <2>5 DEF SavingInv
<1> QED
  BY <1>3, <1>4, <1>5

LEMMA WorkerSteps ==
    ASSUME SavingInv, Worker
    PROVE  SavingInv'
BY StepsOfTheJob, StepsOnThePart, StepsWithAChild, LastSteps DEF Worker

-----------------------------------------------------------------------------
\* The children, the move, the power loss.

LEMMA InterfaceKept ==
    ASSUME SavingInv, Stands, UNCHANGED <<uiVars, job, crashes>>
    PROVE  UIType' /\ Running' /\ Linked' /\ PlayFindsDownloads'
<1>1. UIType' /\ Running' /\ Linked'
  BY DEF SavingInv, UIType, Running, Linked, uiVars
<1> QED
  BY <1>1, FoundStays DEF SavingInv, uiVars

\* A block of a child's, wherever its file now is.
LEMMA ChildWriteIs ==
    ASSUME DiskType, Children, NEW s \in DOMAIN ffmpeg, ChildWrites(s)
    PROVE  LET c == ffmpeg[s]
           IN  /\ c \in Child /\ c.pos <= Size /\ c.st = "runs"
               /\ disk' \in [Path -> File \cup {None}]
               /\ ffmpeg' = [ffmpeg EXCEPT ![s] = [c EXCEPT !.pos = @ + 1]]
               /\ c.at = None => disk' = disk
               /\ c.at # None => /\ disk[c.at] \in File
                                 /\ disk'[c.at] = Write(disk[c.at], c.link, c.pos)
               /\ \A q \in Path : q # c.at => disk'[q] = disk[q]
               /\ \A q \in Path : disk'[q] = None <=> disk[q] = None
<1> DEFINE c == ffmpeg[s]
<1>1. /\ c \in Child /\ c.at \in Path \cup {None} /\ c.link \in Link /\ c.pos \in Nat \ {0}
      /\ c.pos <= Size /\ c.st = "runs" /\ c # None
  BY LinkAssumption, SizeAssumption DEF DiskType, ChildWrites, Child
<1>2. ffmpeg' = [ffmpeg EXCEPT ![s] = [c EXCEPT !.pos = @ + 1]]
  BY DEF ChildWrites
<1>3. CASE c.at = None
  BY <1>1, <1>2, <1>3 DEF ChildWrites, DiskType
<1>4. CASE c.at # None
  <2>1. c.at \in Path /\ disk[c.at] \in File
    BY <1>1, <1>4 DEF Children, DiskType
  <2>2. disk' = [disk EXCEPT ![c.at] = Write(disk[c.at], c.link, c.pos)]
    BY <1>4 DEF ChildWrites
  <2>3. Write(disk[c.at], c.link, c.pos) \in File /\ Write(disk[c.at], c.link, c.pos) # None
    BY <1>1, <2>1, WriteIs
  <2> HIDE DEF c
  <2> QED
    BY <1>1, <1>2, <1>4, <2>1, <2>2, <2>3, NoneDiffers DEF DiskType, c
<1> QED
  BY <1>3, <1>4

LEMMA ChildSteps ==
    ASSUME SavingInv, NEW s \in DOMAIN ffmpeg, ChildWrites(s) \/ ChildExits(s)
    PROVE  SavingInv'
<1>0. /\ UIType /\ DiskType /\ Running /\ Linked /\ Children /\ PlayFindsDownloads
      /\ s \in 1..(MaxCrashes + 1) /\ DOMAIN ffmpeg = 1..(MaxCrashes + 1)
  BY DEF SavingInv, DiskType
<1>1. UNCHANGED <<uiVars, job, crashes>>
  BY DEF ChildWrites, ChildExits, Keep, KeepRest, uiVars
<1>2. CASE ChildWrites(s)
  <2> DEFINE c == ffmpeg[s]
             d == [c EXCEPT !.pos = @ + 1]
  <2>1. /\ c \in Child /\ c.pos <= Size
        /\ disk' \in [Path -> File \cup {None}]
        /\ ffmpeg' = [ffmpeg EXCEPT ![s] = d]
        /\ \A q \in Path : disk'[q] = None <=> disk[q] = None
    BY <1>0, <1>2, ChildWriteIs
  <2>2. d \in Child /\ d # None /\ d.at = c.at /\ d.link = c.link
    BY <2>1, NoneDiffers, SizeAssumption DEF Child
  <2>3. c # None /\ c.at \in Path \cup {None}
    BY <2>1, NoneDiffers DEF Child
  <2> HIDE DEF d
  <2>4. ffmpeg' \in [1..(MaxCrashes + 1) -> Child \cup {None}] /\ Children'
    <3>1. d.at # None => disk'[d.at] # None /\ d.link \in Offers[d.at.name.ep]
      BY <1>0, <2>1, <2>2, <2>3 DEF Children
    <3> QED
      BY <1>0, <2>1, <2>2, <3>1, ChildStarted
  <2>5. Stands
    BY <2>1, Paths DEF Stands
  <2>6. DiskType'
    BY <1>0, <1>1, <2>1, <2>4 DEF DiskType
  <2> QED
    BY <1>1, <2>4, <2>5, <2>6, InterfaceKept DEF SavingInv
<1>3. CASE ChildExits(s)
  <2> DEFINE c == ffmpeg[s]
  <2>1. c # None /\ c \in Child /\ UNCHANGED disk /\ Stands
    BY <1>0, <1>3 DEF ChildExits, DiskType, Stands
  <2>2. PICK st \in {"ok", "bad"} :
           ffmpeg' = [ffmpeg EXCEPT ![s] =
                         IF s = session /\ At("wait") THEN [@ EXCEPT !.st = st] ELSE None]
    BY <1>3 DEF ChildExits
  <2> DEFINE d == IF s = session /\ At("wait") THEN [c EXCEPT !.st = st] ELSE None
  <2>3. d \in Child \cup {None} /\ (d # None => d.at = c.at /\ d.link = c.link)
    BY <2>1 DEF Child
  <2>4. ffmpeg' = [ffmpeg EXCEPT ![s] = d]
    BY <2>2
  <2> HIDE DEF d
  <2>5. ffmpeg' \in [1..(MaxCrashes + 1) -> Child \cup {None}] /\ Children'
    <3>1. d # None /\ d.at # None => disk'[d.at] # None /\ d.link \in Offers[d.at.name.ep]
      BY <1>0, <2>1, <2>3 DEF Children
    <3> QED
      BY <1>0, <2>1, <2>3, <2>4, <3>1, ChildStarted
  <2>6. DiskType'
    BY <1>0, <1>1, <2>1, <2>5 DEF DiskType
  <2> QED
    BY <1>1, <2>1, <2>5, <2>6, InterfaceKept DEF SavingInv
<1> QED
  BY <1>2, <1>3

\* One move: the paths it takes, all of the old id and free under the new one.
LEMMA MoveIs ==
    ASSUME DiskType, Children, MoveFiles
    PROVE  \E S \in SUBSET Path :
              /\ \A q \in S : /\ q.name.id = "old" /\ disk[q] # None
                              /\ InNew(q) \in Path \ S /\ disk[InNew(q)] = None
              /\ \A q, r \in S : InNew(q) = InNew(r) => q = r
              /\ disk' \in [Path -> File \cup {None}]
              /\ \A q \in S : disk'[InNew(q)] = disk[q] /\ disk'[q] = None
              /\ \A q \in Path \ S : (\A r \in S : InNew(r) # q) => disk'[q] = disk[q]
              /\ ffmpeg' \in [1..(MaxCrashes + 1) -> Child \cup {None}]
              /\ Children'
              /\ \A s \in 1..(MaxCrashes + 1) :
                    IF ffmpeg[s] = None THEN ffmpeg'[s] = None
                    ELSE Refiled(ffmpeg[s], ffmpeg'[s], FollowedTo(S, Rehomed, ffmpeg[s].at))
              /\ exposed' = exposed \cup
                    {InNew(q).name : q \in {q \in S : ~q.part /\ q.name \in exposed}}
<1>1. PICK S \in IF Held("new") = {} THEN {Movable} ELSE {{q} : q \in Movable} :
         /\ disk' = Renamed(S, [q \in Path |-> InNew(q)])
         /\ ffmpeg' = Followed(S, [q \in Path |-> InNew(q)])
         /\ exposed' = exposed \cup
               {InNew(q).name : q \in {q \in S : ~q.part /\ q.name \in exposed}}
  BY DEF MoveFiles
<1>2. S \subseteq Movable
  BY <1>1
<1>3. \A q \in S : q \in Path /\ q.name.id = "old" /\ disk[q] # None /\ disk[InNew(q)] = None
  BY <1>2 DEF Movable, Held
<1>4. \A q \in S : InNew(q) \in Path \ S
  BY <1>3, NewPath
<1>5. \A q, r \in S : InNew(q) = InNew(r) => q = r
  BY <1>3, SamePath
<1>6. /\ Rehomed \in [Path -> Path] /\ (\A q \in Path : Rehomed[q] = InNew(q))
      /\ disk' = Renamed(S, Rehomed) /\ ffmpeg' = Followed(S, Rehomed)
  BY <1>1, ToNew DEF Rehomed
<1>7. /\ disk' \in [Path -> File \cup {None}]
      /\ \A r \in S : disk'[Rehomed[r]] = disk[r]
      /\ \A q \in Path : (\A r \in S : Rehomed[r] # q) =>
            disk'[q] = IF q \in S THEN None ELSE disk[q]
  <2>1. S \in SUBSET Path /\ \A q, r \in S : Rehomed[q] = Rehomed[r] => q = r
    BY <1>3, <1>5, <1>6
  <2>2. /\ Renamed(S, Rehomed) \in [Path -> File \cup {None}]
        /\ \A r \in S : Renamed(S, Rehomed)[Rehomed[r]] = disk[r]
        /\ \A q \in Path : (\A r \in S : Rehomed[r] # q) =>
              Renamed(S, Rehomed)[q] = IF q \in S THEN None ELSE disk[q]
    BY <2>1, RenamedIs, ToNew
  <2> QED
    BY <1>6, <2>2, Zenon
<1>8. \A q \in S : disk'[InNew(q)] = disk[q] /\ disk'[q] = None
  <2> SUFFICES ASSUME NEW q \in S PROVE disk'[InNew(q)] = disk[q] /\ disk'[q] = None
    OBVIOUS
  <2>1. \A r \in S : Rehomed[r] # q
    BY <1>3, <1>4, <1>6
  <2> QED
    BY <1>3, <1>6, <1>7, <2>1
<1>9. \A q \in Path \ S : (\A r \in S : InNew(r) # q) => disk'[q] = disk[q]
  BY <1>3, <1>6, <1>7
<1>10. /\ ffmpeg' \in [1..(MaxCrashes + 1) -> Child \cup {None}]
       /\ \A s \in 1..(MaxCrashes + 1) :
             IF ffmpeg[s] = None THEN ffmpeg'[s] = None
             ELSE Refiled(ffmpeg[s], ffmpeg'[s], FollowedTo(S, Rehomed, ffmpeg[s].at))
  <2>1. S \in SUBSET Path
    BY <1>3
  <2>2. /\ Followed(S, Rehomed) \in [1..(MaxCrashes + 1) -> Child \cup {None}]
        /\ \A s \in 1..(MaxCrashes + 1) :
              IF ffmpeg[s] = None THEN Followed(S, Rehomed)[s] = None
              ELSE Refiled(ffmpeg[s], Followed(S, Rehomed)[s],
                           FollowedTo(S, Rehomed, ffmpeg[s].at))
    BY <2>1, FollowedIs, ToNew
  <2> QED
    BY <1>6, <2>2, Zenon
<1>11. ASSUME NEW s \in 1..(MaxCrashes + 1), ffmpeg'[s] # None, ffmpeg'[s].at # None
       PROVE  disk'[ffmpeg'[s].at] # None /\ ffmpeg'[s].link \in Offers[ffmpeg'[s].at.name.ep]
  <2> DEFINE c == ffmpeg[s]
  <2>1. /\ c # None /\ ffmpeg'[s].at = FollowedTo(S, Rehomed, c.at) /\ ffmpeg'[s].link = c.link
        /\ c \in Child /\ c.at \in Path \cup {None}
    BY <1>10, <1>11 DEF DiskType, Child, Refiled
  <2>2. c.at # None /\ c.at \in Path
    BY <1>11, <2>1 DEF FollowedTo
  <2>3. disk[c.at] # None /\ c.link \in Offers[c.at.name.ep]
    BY <2>1, <2>2 DEF Children, DiskType
  <2>4. CASE c.at \in S
    <3>1. ffmpeg'[s].at = InNew(c.at)
      BY <1>6, <2>1, <2>2, <2>4 DEF FollowedTo
    <3> QED
      BY <1>8, <2>1, <2>2, <2>3, <2>4, <3>1, NewPath
  <2>5. CASE c.at \notin S
    <3>1. \A r \in S : InNew(r) # c.at
      BY <1>3, <2>3
    <3>2. ffmpeg'[s].at = c.at
      BY <1>3, <1>6, <2>1, <2>2, <2>5, <3>1 DEF FollowedTo
    <3> QED
      BY <1>9, <2>1, <2>2, <2>3, <2>5, <3>1, <3>2
  <2> QED
    BY <2>4, <2>5
<1>12. Children'
  BY <1>10, <1>11 DEF Children
<1> QED
  BY <1>1, <1>3, <1>4, <1>5, <1>7, <1>8, <1>9, <1>10, <1>12

LEMMA MoveSteps ==
    ASSUME SavingInv, MoveFiles
    PROVE  SavingInv'
<1>1. UNCHANGED <<uiVars, job, crashes>> /\ moving
  BY DEF MoveFiles
<1>2. UIType' /\ Running' /\ Linked'
  BY <1>1 DEF SavingInv, UIType, Running, Linked, uiVars
<1>3. DiskType' /\ Children'
  BY <1>1, MoveIs DEF SavingInv, DiskType
<1>4. PlayFindsDownloads'
  BY <1>1 DEF PlayFindsDownloads, uiVars
<1> QED
  BY <1>2, <1>3, <1>4 DEF SavingInv

\* Every file of the disk, or of what the journal holds, keeps a first part of
\* what it held.
LEMMA PowerLossIs ==
    ASSUME DiskType, JournalType, PowerLoss
    PROVE  \E back \in {disk, was}, k \in 0..Size :
              /\ disk' \in [Path -> File \cup {None}]
              /\ \A q \in Path :
                    IF back[q] = None THEN disk'[q] = None
                    ELSE disk'[q] = Kept(back[q], k) /\ disk'[q] # None
              /\ was' = disk'
              /\ torn' = (torn \/ moving \/ (showId = "new" /\ back # disk))
<1>1. PICK k \in 0..Size : FilesLost(k)
  BY DEF PowerLoss
<1>2. PICK back \in {disk, was} :
         /\ disk' = [q \in Path |-> Left(back[q], k)]
         /\ was' = disk'
         /\ torn' = (torn \/ moving \/ (showId = "new" /\ back # disk))
  BY <1>1 DEF FilesLost
<1>3. back \in [Path -> File \cup {None}] /\ k \in Nat
  BY SizeAssumption DEF DiskType, JournalType
<1>4. ASSUME NEW q \in Path
      PROVE  /\ disk'[q] \in File \cup {None}
             /\ IF back[q] = None THEN disk'[q] = None
                ELSE disk'[q] = Kept(back[q], k) /\ disk'[q] # None
  <2>1. disk'[q] = IF back[q] = None THEN None ELSE Kept(back[q], k)
    BY <1>2, LeftIs
  <2>2. CASE back[q] = None
    BY <2>1, <2>2
  <2>3. CASE back[q] # None
    <3>1. back[q] \in File
      BY <1>3, <2>3
    <3> QED
      BY <1>3, <2>1, <2>3, <3>1, KeptIs
  <2> QED
    BY <2>2, <2>3
<1>5. disk' \in [Path -> File \cup {None}]
  <2>1. disk' = [q \in Path |-> disk'[q]]
    BY <1>2
  <2> QED
    BY <1>4, <2>1
<1> QED
  BY <1>2, <1>4, <1>5

LEMMA PowerLossSteps ==
    ASSUME SavingInv, JournalType, PowerLoss
    PROVE  SavingInv'
<1>0. UIType /\ DiskType /\ Running /\ PlayFindsDownloads
  BY DEF SavingInv
<1>1. /\ phase' = "down" /\ download' = Off /\ mail' = None /\ job' = None
      /\ moving' = FALSE /\ UNCHANGED <<session, showId, starts>>
      /\ crashes' = crashes + 1 /\ ffmpeg' = [s \in DOMAIN ffmpeg |-> None]
  BY DEF PowerLoss, Gone
<1>2. /\ Off \in [active : BOOLEAN, ep : Episode \cup {None}, id : Ids \cup {None}]
      /\ ~Off.active
  BY DEF Off
<1>3. PICK back \in {disk, was}, k \in 0..Size :
         /\ disk' \in [Path -> File \cup {None}]
         /\ \A q \in Path : IF back[q] = None THEN disk'[q] = None ELSE disk'[q] # None
         /\ torn' = (torn \/ moving \/ (showId = "new" /\ back # disk))
  BY <1>0, PowerLossIs
<1>4. UIType'
  <2>1. crashes' \in Nat
    BY <1>0, <1>1 DEF UIType
  <2>2. torn' \in BOOLEAN
    BY <1>3
  <2> QED
    BY <1>0, <1>1, <1>2, <2>1, <2>2 DEF UIType
<1>5. DiskType' /\ Children' /\ Running' /\ Linked'
  BY <1>0, <1>1, <1>2, <1>3 DEF DiskType, Children, Running, Linked
<1>6. PlayFindsDownloads'
  <2>1. CASE back = disk
    <3>1. Stands
      BY <1>3, <2>1, Paths DEF Stands
    <3>2. torn' = (torn \/ moving)
      BY <1>3, <2>1
    <3> QED
      BY <1>0, <1>1, <3>1, <3>2, FoundStays
  <2>2. CASE back # disk
    BY <1>1, <1>3, <2>2 DEF PlayFindsDownloads
  <2> QED
    BY <2>1, <2>2
<1> QED
  BY <1>4, <1>5, <1>6 DEF SavingInv

\* What a power loss may go back to is the disk as it is, was, or comes to be.
LEMMA WasIs ==
    ASSUME [Next]_vars
    PROVE  was' \in {was, disk, disk'} /\ (outages' # outages => PowerLoss)
<1>1. CASE UNCHANGED vars \/ PowerLoss
  BY <1>1 DEF vars, powerVars, PowerLoss, FilesLost
<1>2. CASE \/ \E e \in Episode, id \in Ids : Press(e, id)
           \/ DownloadDone \/ DownloadFailed \/ Quit \/ Exit \/ Crash \/ Restart
           \/ Rekey \/ MoveEnds
  BY <1>2 DEF Press, DownloadDone, DownloadFailed, Quit, Exit, Crash, Restart, Rekey, MoveEnds,
              powerVars
<1>3. CASE Worker
  BY <1>3 DEF Worker, Keep, KeepRest, Resolve, Fail, Ask, Answer, OutOfRange, AlreadyWhole,
              WriteBlock, Received, Spawn, Cancel, Reap, Sync, Rename, Journaled
<1>4. CASE \E s \in DOMAIN ffmpeg : ChildWrites(s) \/ ChildExits(s)
  BY <1>4 DEF ChildWrites, ChildExits, Keep, KeepRest
<1>5. CASE MoveFiles
  BY <1>5 DEF MoveFiles, Journaled
<1>6. CASE Chapter
  BY <1>6 DEF Chapter, KeepUI, StartFetch, SkipPage, CountMismatch, OpenPage, PageReceived,
              PageFailed, Rotate, SyncPage, SyncPageUnheard, RenamePage, MarkComplete,
              ReaderCrash, powerVars
<1> QED
  BY <1>1, <1>2, <1>3, <1>4, <1>5, <1>6 DEF Next

\* A name once exposed stays so, and few steps expose one.
LEMMA ExposedIs ==
    ASSUME SavingInv, ReadingInv, exposed \subseteq Name \cup PageName, [Next]_vars
    PROVE  /\ exposed \subseteq exposed' /\ exposed' \subseteq Name \cup PageName
           /\ exposed' # exposed => AlreadyWhole \/ MoveFiles \/ SyncPageUnheard
<1>1. CASE UNCHANGED vars \/ PowerLoss
  BY <1>1 DEF vars, powerVars, PowerLoss
<1>2. CASE \/ \E e \in Episode, id \in Ids : Press(e, id)
           \/ DownloadDone \/ DownloadFailed \/ Quit \/ Exit \/ Crash \/ Restart
           \/ Rekey \/ MoveEnds
  BY <1>2 DEF Press, DownloadDone, DownloadFailed, Quit, Exit, Crash, Restart, Rekey, MoveEnds,
              powerVars
<1>3. CASE Worker /\ ~AlreadyWhole
  BY <1>3 DEF Worker, Keep, KeepRest, Resolve, Fail, Ask, Answer, OutOfRange,
              WriteBlock, Received, Spawn, Cancel, Reap, Sync, Rename
<1>4. CASE AlreadyWhole
  <2>1. job.name \in Name /\ exposed' = exposed \cup {job.name}
    BY <1>4, JobIs DEF AlreadyWhole, At, SavingInv
  <2> QED
    BY <1>4, <2>1
<1>5. CASE \E s \in DOMAIN ffmpeg : ChildWrites(s) \/ ChildExits(s)
  BY <1>5 DEF ChildWrites, ChildExits, Keep
<1>6. CASE MoveFiles
  <2>1. PICK S \in IF Held("new") = {} THEN {Movable} ELSE {{q} : q \in Movable} :
           exposed' = exposed \cup
               {InNew(q).name : q \in {q \in S : ~q.part /\ q.name \in exposed}}
    BY <1>6 DEF MoveFiles
  <2>2. S \subseteq Path
    BY <2>1 DEF Movable, Held
  <2>3. \A q \in S : InNew(q).name \in Name
    BY <2>2, NewPath DEF Path
  <2> QED
    BY <1>6, <2>1, <2>3
<1>7. CASE SyncPageUnheard
  <2>1. fetch.i \in Page /\ exposed' = exposed \cup {[page |-> fetch.i]}
    BY <1>7 DEF SyncPageUnheard, FetchAt, ReadingInv, Paged
  <2> QED
    BY <1>7, <2>1 DEF PageName
<1>8. CASE Chapter /\ ~SyncPageUnheard
  BY <1>8 DEF Chapter, StartFetch, SkipPage, CountMismatch, OpenPage, PageReceived,
              PageFailed, Rotate, SyncPage, RenamePage, MarkComplete, ReaderCrash, powerVars
<1> QED
  BY <1>1, <1>2, <1>3, <1>4, <1>5, <1>6, <1>7, <1>8 DEF Next

-----------------------------------------------------------------------------
\* The chapter.

\* The fetch goes on with x, on pages that are as they were or better.
LEMMA FetchGoesOn ==
    ASSUME ReadingInv, NEW x \in Fetch, fetch' = x, UNCHANGED <<page, marker, fetches>>,
           exposed \subseteq exposed', lasting' \in 0..Pages,
           pagePart' \in [Page -> PageFile \cup {None}],
           \A i \in 1..(x.i - 1) : page[i] # None,
           x.pc # "page" => x.i \in Page,
           x.pc \in {"sync", "rename"} => pagePart'[x.i] # None /\ pagePart'[x.i].whole,
           x.pc = "rename" => PageAt(x.i) \in exposed' \/ pagePart'[x.i].synced
    PROVE  ReadingInv'
<1>1. ChapterType'
  BY DEF ReadingInv, ChapterType
<1>2. Paged'
  BY DEF ReadingInv, ChapterType, Paged
<1> QED
  BY <1>1, <1>2 DEF ReadingInv

LEMMA FetchStops ==
    ASSUME ReadingInv, fetch' = None, UNCHANGED <<page, fetches, exposed, lasting>>,
           marker' \in BOOLEAN, marker' => \A i \in Page : page[i] # None,
           pagePart' \in [Page -> PageFile \cup {None}]
    PROVE  ReadingInv'
BY DEF ReadingInv, ChapterType, Paged

LEMMA ChapterSteps ==
    ASSUME ReadingInv, Chapter
    PROVE  ReadingInv'
<1>0. ChapterType /\ Paged /\ Pages \in Nat \ {0}
  BY SizeAssumption DEF ReadingInv
<1>k. lasting \in 0..Pages /\ (UNCHANGED lasting => lasting' \in 0..Pages)
  BY <1>0 DEF ChapterType
<1>f. ASSUME fetch # None
      PROVE  /\ fetch \in Fetch /\ fetch.i \in 1..(Pages + 1) /\ fetch.granted \in 0..Pages
             /\ \A i \in 1..(fetch.i - 1) : page[i] # None
  BY <1>0, <1>f DEF ChapterType, Fetch, Paged
<1>1. CASE StartFetch
  <2> DEFINE x == [pc |-> "page", i |-> 1, again |-> FALSE, rotated |-> FALSE, granted |-> Pages]
  <2>1. x \in Fetch /\ x.pc = "page" /\ x.i = 1
    BY <1>0 DEF Fetch
  <2>2. /\ fetch' = x /\ UNCHANGED <<page, pagePart, marker, lasting, exposed>> /\ fetches' = fetches + 1
    BY <1>1 DEF StartFetch
  <2> HIDE DEF x
  <2> QED
    BY <1>0, <2>1, <2>2 DEF ReadingInv, ChapterType, Paged
<1>2. CASE SkipPage
  <2> DEFINE x == [fetch EXCEPT !.i = @ + 1, !.again = FALSE]
  <2>1. /\ fetch # None /\ fetch.pc = "page" /\ fetch.i <= Pages /\ page[fetch.i] # None
        /\ fetch' = x /\ UNCHANGED <<page, pagePart, marker, lasting, exposed, fetches>>
    BY <1>2 DEF SkipPage, FetchAt
  <2>n. fetch.i + 1 \in 1..(Pages + 1)
    BY <1>0, <1>f, <2>1
  <2>2. x \in Fetch /\ x.pc = "page" /\ x.i = fetch.i + 1
    BY <1>f, <2>1, <2>n DEF Fetch
  <2> HIDE DEF x
  <2>3. \A i \in 1..(x.i - 1) : page[i] # None
    BY <1>f, <2>1, <2>2
  <2> QED
    BY <1>0, <2>1, <2>2, <2>3, <1>k, FetchGoesOn DEF ChapterType
<1>3. CASE CountMismatch \/ ReaderCrash
  BY <1>0, <1>3, FetchStops DEF CountMismatch, ReaderCrash, ChapterType, powerVars, Paged
<1>4. CASE MarkComplete
  <2>1. /\ fetch # None /\ fetch.i > Pages /\ fetch' = None /\ marker'
        /\ UNCHANGED <<page, pagePart, lasting, exposed, fetches>> /\ marker' \in BOOLEAN
    BY <1>4 DEF MarkComplete, FetchAt
  <2>2. ASSUME NEW i \in Page PROVE page[i] # None
    BY <1>0, <1>f, <2>1 DEF Page
  <2> QED
    BY <1>0, <2>1, <2>2, FetchStops DEF ChapterType
<1>5. CASE OpenPage
  <2> DEFINE x == [fetch EXCEPT !.pc = "stream"]
             p == [whole |-> FALSE, synced |-> FALSE]
  <2>1. /\ fetch # None /\ fetch.i <= fetch.granted
        /\ fetch' = x /\ UNCHANGED <<page, marker, lasting, exposed, fetches>>
        /\ pagePart' = [pagePart EXCEPT ![fetch.i] = p]
    BY <1>5 DEF OpenPage, FetchAt
  <2>2. x \in Fetch /\ x.pc = "stream" /\ x.i = fetch.i /\ fetch.i \in Page
    BY <1>0, <1>f, <2>1 DEF Fetch, Page
  <2>3. pagePart' \in [Page -> PageFile \cup {None}]
    BY <1>0, <2>1 DEF ChapterType, PageFile
  <2> HIDE DEF x
  <2> QED
    BY <1>f, <2>1, <2>2, <2>3, <1>k, FetchGoesOn
<1>6. CASE PageReceived
  <2> DEFINE x == [fetch EXCEPT !.pc = "sync"]
             p == [whole |-> TRUE, synced |-> FALSE]
  <2>1. /\ fetch # None /\ fetch.pc = "stream"
        /\ fetch' = x /\ UNCHANGED <<page, marker, lasting, exposed, fetches>>
        /\ pagePart' = [pagePart EXCEPT ![fetch.i] = p]
    BY <1>6 DEF PageReceived, FetchAt
  <2>2. x \in Fetch /\ x.pc = "sync" /\ x.i = fetch.i /\ fetch.i \in Page
    BY <1>0, <1>f, <2>1 DEF Fetch, Paged
  <2>3. p \in PageFile /\ p.whole
    BY DEF PageFile
  <2> HIDE DEF x, p
  <2>4. pagePart' \in [Page -> PageFile \cup {None}] /\ pagePart'[fetch.i] = p
    BY <1>0, <2>1, <2>2, <2>3 DEF ChapterType
  <2> QED
    BY <1>f, <2>1, <2>2, <2>3, <2>4, <1>k, FetchGoesOn, NoneDiffers
<1>7. CASE PageFailed
  <2>1. /\ fetch # None /\ fetch.pc # "page"
        /\ UNCHANGED <<page, marker, lasting, exposed, fetches>>
        /\ pagePart' = [pagePart EXCEPT ![fetch.i] = None]
    BY <1>7 DEF PageFailed, FetchAt
  <2>2. pagePart' \in [Page -> PageFile \cup {None}]
    BY <1>0, <2>1 DEF ChapterType
  <2>3. fetch.i \in Page
    BY <1>0, <2>1 DEF Paged
  <2>4. CASE fetch' = [fetch EXCEPT !.pc = "page", !.again = TRUE]
    <3> DEFINE x == [fetch EXCEPT !.pc = "page", !.again = TRUE]
    <3>1. x \in Fetch /\ x.pc = "page" /\ x.i = fetch.i
      BY <1>f, <2>1 DEF Fetch
    <3> HIDE DEF x
    <3>2. fetch' = x
      BY <2>4 DEF x
    <3> QED
      BY <1>f, <2>1, <2>2, <3>1, <3>2, <1>k, FetchGoesOn
  <2>5. CASE fetch' = [fetch EXCEPT !.pc = "rotate"]
    <3> DEFINE x == [fetch EXCEPT !.pc = "rotate"]
    <3>1. x \in Fetch /\ x.pc = "rotate" /\ x.i = fetch.i
      BY <1>f, <2>1 DEF Fetch
    <3> HIDE DEF x
    <3>2. fetch' = x
      BY <2>5 DEF x
    <3> QED
      BY <1>f, <2>1, <2>2, <2>3, <3>1, <3>2, <1>k, FetchGoesOn
  <2>6. CASE fetch' = None
    BY <1>0, <2>1, <2>2, <2>6, FetchStops DEF ChapterType, Paged
  <2> QED
    BY <1>7, <2>4, <2>5, <2>6 DEF PageFailed
<1>8. CASE Rotate
  <2>1. fetch # None /\ fetch.pc = "rotate" /\ UNCHANGED <<page, pagePart, marker, lasting, exposed, fetches>>
    BY <1>8 DEF Rotate, FetchAt
  <2>2. CASE fetch' = None
    BY <1>0, <2>1, <2>2, FetchStops DEF ChapterType, Paged
  <2>3. CASE \E n \in {Pages, Pages - 1} :
                fetch' = [fetch EXCEPT !.pc = "page", !.again = FALSE, !.rotated = TRUE,
                                       !.granted = n]
    <3> PICK n \in {Pages, Pages - 1} :
           fetch' = [fetch EXCEPT !.pc = "page", !.again = FALSE, !.rotated = TRUE,
                                  !.granted = n]
      BY <2>3
    <3> DEFINE x == [fetch EXCEPT !.pc = "page", !.again = FALSE, !.rotated = TRUE,
                                  !.granted = n]
    <3>1. n \in 0..Pages
      BY <1>0
    <3>2. x \in Fetch /\ x.pc = "page" /\ x.i = fetch.i
      BY <1>f, <2>1, <3>1 DEF Fetch
    <3>3. fetch' = x
      OBVIOUS
    <3> HIDE DEF x
    <3> QED
      BY <1>0, <1>f, <2>1, <3>2, <3>3, <1>k, FetchGoesOn DEF ChapterType
  <2> QED
    BY <1>8, <2>2, <2>3 DEF Rotate
<1>9. CASE SyncPage
  <2> DEFINE x == [fetch EXCEPT !.pc = "rename"]
  <2>1. /\ fetch # None /\ fetch.pc = "sync" /\ fetch.i \in Page
        /\ fetch' = x /\ UNCHANGED <<page, marker, exposed, fetches>>
        /\ lasting' = fetch.i - 1
        /\ pagePart' = [pagePart EXCEPT ![fetch.i].synced = TRUE]
        /\ pagePart[fetch.i] \in PageFile /\ pagePart[fetch.i].whole
    BY <1>0, <1>9 DEF SyncPage, FetchAt, Paged, ChapterType
  <2> DEFINE p == [pagePart[fetch.i] EXCEPT !.synced = TRUE]
  <2>2. x \in Fetch /\ x.pc = "rename" /\ x.i = fetch.i
    BY <1>f, <2>1 DEF Fetch
  <2>3. p \in PageFile /\ p.whole /\ p.synced
    BY <2>1 DEF PageFile
  <2>4. pagePart' = [pagePart EXCEPT ![fetch.i] = p]
    BY <2>1
  <2> HIDE DEF x, p
  <2>5. pagePart' \in [Page -> PageFile \cup {None}] /\ pagePart'[fetch.i] = p
    BY <1>0, <2>1, <2>3, <2>4 DEF ChapterType
  <2>6. lasting' \in 0..Pages
    BY <1>0, <2>1 DEF Page
  <2> QED
    BY <1>f, <2>1, <2>2, <2>3, <2>5, <2>6, FetchGoesOn, NoneDiffers
<1>10. CASE SyncPageUnheard
  <2> DEFINE x == [fetch EXCEPT !.pc = "rename"]
  <2>1. /\ fetch # None /\ fetch.pc = "sync" /\ fetch.i \in Page
        /\ fetch' = x /\ UNCHANGED <<page, pagePart, marker, lasting, fetches>>
        /\ exposed' = exposed \cup {PageAt(fetch.i)}
        /\ pagePart[fetch.i] # None /\ pagePart[fetch.i].whole
    BY <1>0, <1>10 DEF SyncPageUnheard, FetchAt, Paged, ChapterType, PageAt
  <2>2. x \in Fetch /\ x.pc = "rename" /\ x.i = fetch.i
    BY <1>f, <2>1 DEF Fetch
  <2> HIDE DEF x
  <2>3. PageAt(x.i) \in exposed' /\ exposed \subseteq exposed'
    BY <2>1, <2>2
  <2> QED
    BY <1>0, <1>f, <1>k, <2>1, <2>2, <2>3, FetchGoesOn DEF ChapterType
<1>11. CASE RenamePage
  <2> DEFINE x == [fetch EXCEPT !.pc = "page", !.i = @ + 1, !.again = FALSE]
  <2>1. /\ fetch # None /\ fetch.pc = "rename" /\ fetch.i \in Page
        /\ pagePart[fetch.i] # None /\ pagePart[fetch.i].whole
        /\ PageAt(fetch.i) \in exposed \/ pagePart[fetch.i].synced
        /\ fetch' = x /\ UNCHANGED <<marker, lasting, exposed, fetches>>
        /\ page' = [page EXCEPT ![fetch.i] = pagePart[fetch.i]]
        /\ pagePart' = [pagePart EXCEPT ![fetch.i] = None]
    BY <1>0, <1>11 DEF RenamePage, FetchAt, Paged
  <2>n. fetch.i + 1 \in 1..(Pages + 1)
    BY <1>0, <2>1 DEF Page
  <2>2. x \in Fetch /\ x.pc = "page" /\ x.i = fetch.i + 1
    BY <1>f, <2>1, <2>n DEF Fetch
  <2> HIDE DEF x
  <2>3. \A i \in Page : page'[i] = IF i = fetch.i THEN pagePart[fetch.i] ELSE page[i]
    BY <1>0, <2>1 DEF ChapterType
  <2>4. ChapterType'
    BY <1>0, <2>1, <2>2 DEF ChapterType
  <2>5. \A i \in 1..(x.i - 1) : page'[i] # None
    BY <1>0, <1>f, <2>1, <2>2, <2>3 DEF Page
  <2>6. Paged'
    BY <1>0, <2>1, <2>2, <2>3, <2>5 DEF Paged
  <2> QED
    BY <2>4, <2>6 DEF ReadingInv
<1> QED
  BY <1>1, <1>2, <1>3, <1>4, <1>5, <1>6, <1>7, <1>8, <1>9, <1>10, <1>11 DEF Chapter

\* A power loss takes pages back from some page on, and the marker with them.
LEMMA PowerLossPages ==
    ASSUME ReadingInv, PowerLoss
    PROVE  /\ ReadingInv'
           /\ marker' => marker /\ \A i \in Page : page'[i] # None
           /\ UNCHANGED exposed /\ outages' = outages + 1
<1>0. ChapterType /\ Paged /\ Pages \in Nat \ {0}
  BY SizeAssumption DEF ReadingInv
<1>1. PICK k \in 0..Size : ChapterLost(k)
  BY DEF PowerLoss
<1>2. PICK m \in {i \in lasting..Pages : i = 0 \/ page[i] # None} :
         /\ page' = [i \in Page |->
                IF i > m \/ page[i] = None THEN None
                ELSE [whole |-> page[i].whole /\ (page[i].synced \/ k = Size), synced |-> TRUE]]
         /\ pagePart' = [i \in Page |-> None]
         /\ marker' \in {FALSE, marker /\ m = Pages}
         /\ lasting' = m
  BY <1>1 DEF ChapterLost
<1>3. fetch' = None /\ UNCHANGED <<exposed, fetches>> /\ outages' = outages + 1
  BY DEF PowerLoss
<1>4. ASSUME NEW i \in Page
      PROVE  /\ page'[i] \in PageFile \cup {None}
             /\ page'[i] # None => page[i] # None /\ page'[i].synced
                                   /\ (page'[i].whole <=> page[i].whole /\ (page[i].synced \/ k = Size))
             /\ m = Pages /\ page[i] # None => page'[i] # None
  <2>1. page[i] \in PageFile \cup {None}
    BY <1>0 DEF ChapterType
  <2>2. CASE i > m \/ page[i] = None
    BY <1>0, <1>2, <2>2 DEF Page
  <2>3. CASE ~(i > m \/ page[i] = None)
    <3> DEFINE p == [whole |-> page[i].whole /\ (page[i].synced \/ k = Size), synced |-> TRUE]
    <3>1. page[i].whole \in BOOLEAN /\ page[i].synced \in BOOLEAN
      BY <2>1, <2>3 DEF PageFile
    <3>2. p \in PageFile /\ page'[i] = p
      BY <1>2, <2>3, <3>1 DEF PageFile
    <3>3. p # None
      BY <3>2, NoneDiffers
    <3> QED
      BY <2>3, <3>1, <3>2, <3>3
  <2> QED
    BY <2>2, <2>3
<1>5. ChapterType'
  <2>1. page' \in [Page -> PageFile \cup {None}]
    BY <1>2, <1>4
  <2>2. marker \in BOOLEAN /\ lasting \in 0..Pages /\ fetches \in Nat
    BY <1>0 DEF ChapterType
  <2>3. m \in lasting..Pages
    BY <1>2
  <2>4. m \in 0..Pages
    BY <1>0, <2>2, <2>3
  <2>5. marker' \in BOOLEAN
    BY <1>2, <2>2
  <2>6. pagePart' \in [Page -> PageFile \cup {None}]
    BY <1>2
  <2> QED
    BY <1>2, <1>3, <2>1, <2>2, <2>4, <2>5, <2>6 DEF ChapterType
<1>6. marker' => marker /\ m = Pages
  BY <1>2
<1>7. marker' => \A i \in Page : page'[i] # None
  BY <1>0, <1>4, <1>6 DEF Paged
<1>8. ASSUME NEW i \in Page, page'[i] # None
      PROVE  PageAt(i) \in exposed' \/ (page'[i].whole /\ page'[i].synced)
  BY <1>0, <1>3, <1>4, <1>8 DEF Paged
<1>9. Paged'
  BY <1>3, <1>7, <1>8 DEF Paged
<1> QED
  BY <1>3, <1>5, <1>6, <1>7, <1>9 DEF ReadingInv

-----------------------------------------------------------------------------
\* Both invariants together.

LEMMA JournalNext ==
    ASSUME SavingInv, ReadingInv, JournalType, DiskType', [Next]_vars
    PROVE  JournalType'
<1>1. was' \in [Path -> File \cup {None}]
  BY WasIs DEF JournalType, SavingInv, DiskType
<1>2. exposed' \subseteq Name \cup PageName
  BY ExposedIs DEF JournalType
<1>3. outages' \in Nat
  <2>1. outages' = outages \/ outages' = outages + 1
    BY WasIs DEF PowerLoss
  <2> QED
    BY <2>1 DEF JournalType
<1> QED
  BY <1>1, <1>2, <1>3 DEF JournalType

LEMMA SavingNext ==
    ASSUME SavingInv, ReadingInv, JournalType, [Next]_vars
    PROVE  SavingInv' /\ ReadingInv' /\ JournalType'
<1>x. exposed \subseteq exposed'
  BY ExposedIs DEF JournalType
<1>c. ASSUME UNCHANGED chapterVars PROVE ReadingInv'
  <2>1. ChapterType'
    BY <1>c DEF ReadingInv, ChapterType, chapterVars
  <2>2. Paged'
    BY <1>c, <1>x DEF ReadingInv, Paged, chapterVars
  <2> QED
    BY <2>1, <2>2 DEF ReadingInv
<1> SUFFICES SavingInv' /\ ReadingInv'
  <2>1. ASSUME SavingInv' PROVE JournalType'
    BY <2>1, JournalNext DEF SavingInv
  <2> QED
    BY <2>1
<1>1. CASE UNCHANGED vars
  <2>1. UNCHANGED <<uiVars, job, crashes, disk, ffmpeg>> /\ UNCHANGED chapterVars
    BY <1>1 DEF vars
  <2>2. Stands
    BY <2>1 DEF Stands
  <2>3. UIType' /\ Running' /\ Linked' /\ PlayFindsDownloads'
    BY <2>1, <2>2, InterfaceKept
  <2>4. DiskType' /\ Children'
    BY <2>1 DEF SavingInv, DiskType, Children
  <2>5. ReadingInv'
    BY <1>c, <2>1
  <2> QED
    BY <2>3, <2>4, <2>5 DEF SavingInv
<1>2. CASE \/ \E e \in Episode, id \in Ids : Press(e, id)
           \/ DownloadDone \/ DownloadFailed \/ Quit \/ Exit \/ Crash \/ Restart
           \/ Rekey \/ MoveEnds
  <2>1. UNCHANGED chapterVars
    BY <1>2 DEF Press, DownloadDone, DownloadFailed, Quit, Exit, Crash, Restart, Rekey, MoveEnds,
                chapterVars
  <2> QED
    BY <1>2, <1>c, <2>1, InterfaceSteps
<1>3. CASE Worker
  <2>1. UNCHANGED chapterVars
    BY <1>3 DEF Worker, Keep, KeepRest, Resolve, Fail, Ask, Answer, OutOfRange, AlreadyWhole,
                WriteBlock, Received, Spawn, Cancel, Reap, Sync, Rename
  <2> QED
    BY <1>3, <1>c, <2>1, WorkerSteps
<1>4. CASE \E s \in DOMAIN ffmpeg : ChildWrites(s) \/ ChildExits(s)
  <2>1. UNCHANGED chapterVars
    BY <1>4 DEF ChildWrites, ChildExits, Keep, KeepRest
  <2> QED
    BY <1>4, <1>c, <2>1, ChildSteps
<1>5. CASE MoveFiles
  <2>1. UNCHANGED chapterVars
    BY <1>5 DEF MoveFiles
  <2> QED
    BY <1>5, <1>c, <2>1, MoveSteps
<1>6. CASE Chapter
  <2>1. UNCHANGED <<uiVars, job, disk, ffmpeg>> /\ crashes' \in {crashes, crashes + 1}
    BY <1>6 DEF Chapter, KeepUI, StartFetch, SkipPage, CountMismatch, OpenPage, PageReceived,
                PageFailed, Rotate, SyncPage, SyncPageUnheard, RenamePage, MarkComplete,
                ReaderCrash
  <2>2. Stands
    BY <2>1 DEF Stands
  <2>3. UIType' /\ DiskType' /\ Running' /\ Linked' /\ Children'
    BY <2>1 DEF SavingInv, UIType, DiskType, Running, Linked, Children, uiVars
  <2>4. PlayFindsDownloads'
    BY <2>1, <2>2, FoundStays DEF SavingInv, uiVars
  <2> QED
    BY <1>6, <2>3, <2>4, ChapterSteps DEF SavingInv
<1>7. CASE PowerLoss
  BY <1>7, PowerLossSteps, PowerLossPages
<1> QED
  BY <1>1, <1>2, <1>3, <1>4, <1>5, <1>6, <1>7 DEF Next

LEMMA SavingInit == Init => SavingInv /\ ReadingInv /\ JournalType
<1> SUFFICES ASSUME Init PROVE SavingInv /\ ReadingInv /\ JournalType
  OBVIOUS
<1>b. starts \in Nat /\ fetches \in Nat /\ 1 \in 1..(MaxCrashes + 1)
  BY BoundsAssumption DEF Init
<1>o. Off \in [active : BOOLEAN, ep : Episode \cup {None}, id : Ids \cup {None}] /\ ~Off.active
  BY DEF Off
<1>1. UIType
  BY <1>b, <1>o DEF Init, UIType, Ids
<1>2. DiskType /\ Children /\ Linked /\ Running
  BY DEF Init, DiskType, Children, Linked, Running, Off
<1>3. PlayFindsDownloads
  BY DEF Init, PlayFindsDownloads
<1>4. ReadingInv
  <2>1. /\ page = [i \in Page |-> None] /\ pagePart = [i \in Page |-> None]
        /\ marker = FALSE /\ lasting = 0 /\ fetch = None
    BY DEF Init
  <2>2. lasting \in 0..Pages
    BY <2>1, SizeAssumption
  <2>4. ChapterType
    BY <1>b, <2>1, <2>2 DEF ChapterType
  <2>3. Paged
    BY <2>1 DEF Paged
  <2> QED
    BY <2>3, <2>4 DEF ReadingInv
<1>5. JournalType
  BY DEF Init, JournalType
<1> QED
  BY <1>1, <1>2, <1>3, <1>4, <1>5 DEF SavingInv

LEMMA SavingInvariant == Spec => [](SavingInv /\ ReadingInv /\ JournalType)
BY SavingInit, SavingNext, PTL DEF Spec

\* Type correctness of the downloaders.
THEOREM DownloadsAreTyped == Spec => []TypeOK
<1>1. SavingInv /\ ReadingInv /\ JournalType => TypeOK
  BY DEF SavingInv, ReadingInv, TypeOK
<1> QED
  BY <1>1, SavingInvariant, PTL

\* Once the show has its real id, an episode saved under either id is found under
\* that one, for any number of episodes, links, downloads and crashes, unless a
\* crash cut the move short or a power loss undid part of what was done since.
THEOREM DownloadsAreFound == Spec => []PlayFindsDownloads
<1>1. SavingInv => PlayFindsDownloads
  BY DEF SavingInv
<1> QED
  BY <1>1, SavingInvariant, PTL

-----------------------------------------------------------------------------
\* Files are sound.

\* What the links of an episode tell of each other.
LEMMA OneChild ==
    ASSUME OneLink, NEW e \in Episode, NEW l \in Offers[e], l \in Hls
    PROVE  /\ \A m \in Offers[e] : m = l
           /\ Blocks(e) = {l, None}
BY DEF OneLink, Blocks

LEMMA NoChild ==
    ASSUME OneLink, NEW e \in Episode, NEW l \in Offers[e], l \notin Hls
    PROVE  /\ Offers[e] \cap Hls = {} /\ Blocks(e) = Offers[e]
           /\ l \in Ranges => \A m \in Offers[e] : m = l
BY DEF OneLink, Blocks

\* More names exposed, and what is said of a file or a job holds as before.
LEMMA MoreExposed ==
    ASSUME NEW x, NEW y, x \subseteq y
    PROVE  /\ \A q \in Path : \A f : FileOK(q, f, x) => FileOK(q, f, y)
           /\ \A j, f, c : Given(j, f, c, x) => Given(j, f, c, y)
<1>1. ASSUME NEW q \in Path, NEW f, FileOK(q, f, x) PROVE FileOK(q, f, y)
  BY <1>1 DEF FileOK
<1>2. ASSUME NEW j, NEW f, NEW c, Given(j, f, c, x) PROVE Given(j, f, c, y)
  BY <1>2 DEF Given
<1> QED
  BY <1>1, <1>2

LEMMA ChildWriteKeeps ==
    ASSUME OneLink, NEW q \in Path, NEW f \in File, FileOK(q, f, exposed),
           NEW l \in Offers[q.name.ep], l \in Hls, NEW k \in 1..Size
    PROVE  LET g == Write(f, l, k)
           IN  /\ FileOK(q, g, exposed)
               /\ WholeOf(f, l) => WholeOf(g, l) /\ g.durable = f.durable /\ g.blocks = f.blocks
               /\ \A n \in Nat : Begun(f, l, n) => Begun(g, l, n)
               /\ Begun(f, l, k - 1) => Begun(g, l, k)
<1> DEFINE g == Write(f, l, k)
           e == q.name.ep
<1>0. /\ e \in Episode /\ l \in Link /\ k \in Nat \ {0} /\ k <= Size /\ Size \in Nat
      /\ f.durable \in Nat /\ Len(f.blocks) \in Nat /\ f.blocks \in Seq(Link \cup {None})
  BY LinkAssumption, SizeAssumption, LenProperties DEF Path, Name, File
<1>1. /\ g \in File /\ g # None
      /\ Len(g.blocks) = IF k > Len(f.blocks) THEN k ELSE Len(f.blocks)
      /\ \A j \in 1..Len(g.blocks) :
            g.blocks[j] = IF j = k THEN l ELSE IF j <= Len(f.blocks) THEN f.blocks[j] ELSE None
      /\ g.durable = IF k <= f.durable /\ f.blocks[k] # l THEN k - 1 ELSE f.durable
  BY <1>0, WriteIs
<1>2. /\ Blocks(e) = {l, None} /\ \A m \in Offers[e] : m = l
  BY <1>0, OneChild
<1> HIDE DEF g
<1>3. /\ Len(f.blocks) <= Size /\ f.durable <= Len(f.blocks)
      /\ \A j \in 1..Len(f.blocks) : f.blocks[j] \in {l, None}
      /\ ~q.part => f.durable = Size /\ WholeOf(f, l)
  BY <1>0, <1>2 DEF FileOK
<1>4. WholeOf(f, l) => WholeOf(g, l) /\ g.durable = f.durable
  BY <1>0, <1>1, <1>3 DEF WholeOf
<1>5. WholeOf(f, l) => g.blocks = f.blocks
  <2> SUFFICES ASSUME WholeOf(f, l) PROVE g.blocks = f.blocks
    OBVIOUS
  <2>1. Len(g.blocks) = Len(f.blocks) /\ \A j \in 1..Len(g.blocks) : g.blocks[j] = f.blocks[j]
    BY <1>4 DEF WholeOf
  <2>2. g.blocks \in Seq(Link \cup {None})
    BY <1>1 DEF File
  <2> QED
    BY <1>0, <2>1, <2>2, SeqEqual
<1>6. FileOK(q, g, exposed)
  <2>1. Len(g.blocks) <= Size /\ g.durable <= Len(g.blocks)
    BY <1>0, <1>1, <1>3
  <2>2. ASSUME NEW j \in 1..Len(g.blocks) PROVE g.blocks[j] \in Blocks(e)
    <3>1. j <= Len(f.blocks) => f.blocks[j] \in {l, None}
      BY <1>0, <1>1, <1>3, <2>2
    <3> QED
      BY <1>1, <1>2, <2>2, <3>1
  <2>3. ~q.part => g.durable = Size /\ WholeOf(g, l)
    BY <1>3, <1>4
  <2> QED
    BY <2>1, <2>2, <2>3 DEF FileOK
<1>7. ASSUME NEW n \in Nat, Begun(f, l, n) PROVE Begun(g, l, n)
  BY SMTT(60), <1>0, <1>1, <1>7 DEF Begun
<1>8. ASSUME Begun(f, l, k - 1) PROVE Begun(g, l, k)
  <2>1. k <= Len(g.blocks)
    BY <1>0, <1>1
  <2>2. ASSUME NEW j \in 1..k PROVE g.blocks[j] = l
    <3>1. j \in 1..Len(g.blocks)
      BY <1>0, <1>1, <2>1, <2>2
    <3>2. j # k => j \in 1..(k - 1) /\ j <= Len(f.blocks)
      BY <1>0, <1>8, <2>2 DEF Begun
    <3> QED
      BY <1>1, <1>8, <3>1, <3>2 DEF Begun
  <2> QED
    BY <1>1, <2>1, <2>2 DEF Begun
<1> QED
  BY <1>4, <1>5, <1>6, <1>7, <1>8 DEF g

\* The worker's own block, at the end of what it has written.
LEMMA OwnWriteKeeps ==
    ASSUME OneLink, NEW n \in Name, NEW f \in File, FileOK(Part(n), f, exposed),
           NEW l \in Offers[n.ep], l \notin Hls, NEW k \in 1..Size,
           Begun(f, l, k - 1), Len(f.blocks) = k - 1
    PROVE  LET g == Write(f, l, k)
           IN  FileOK(Part(n), g, exposed) /\ Begun(g, l, k) /\ Len(g.blocks) = k
<1> DEFINE g == Write(f, l, k)
<1>0. /\ n.ep \in Episode /\ l \in Link /\ k \in Nat \ {0} /\ k <= Size /\ Size \in Nat
      /\ f.durable \in Nat /\ Len(f.blocks) \in Nat
      /\ Part(n).part /\ Part(n).name = n
  BY LinkAssumption, SizeAssumption, LenProperties, Paths DEF Name, File
<1>1. /\ g \in File /\ g # None
      /\ Len(g.blocks) = k
      /\ \A j \in 1..Len(g.blocks) :
            g.blocks[j] = IF j = k THEN l ELSE IF j <= Len(f.blocks) THEN f.blocks[j] ELSE None
      /\ g.durable = IF k <= f.durable /\ f.blocks[k] # l THEN k - 1 ELSE f.durable
  BY <1>0, WriteIs
<1> HIDE DEF g
<1>2. Begun(g, l, k)
  BY SMTT(60), <1>0, <1>1 DEF Begun
<1>3. FileOK(Part(n), g, exposed)
  <2>1. Len(g.blocks) <= Size /\ g.durable <= Len(g.blocks)
    BY <1>0, <1>1 DEF FileOK
  <2>2. \A j \in 1..Len(g.blocks) : g.blocks[j] \in Blocks(n.ep)
    BY <1>1, <1>2 DEF Begun, Blocks
  <2> QED
    BY <1>0, <2>1, <2>2 DEF FileOK
<1> QED
  BY <1>1, <1>2, <1>3 DEF g

LEMMA EmptyOK == ASSUME NEW n \in Name, NEW l PROVE FileOK(Part(n), Empty, exposed) /\ Begun(Empty, l, 0)
<1>1. Part(n).part /\ Size \in Nat
  BY Paths, SizeAssumption
<1> QED
  BY <1>1, EmptyIs DEF FileOK, Begun

LEMMA KeptOK ==
    ASSUME NEW q \in Path, NEW f \in File, FileOK(q, f, exposed), NEW k \in Nat
    PROVE  FileOK(q, Kept(f, k), exposed)
<1>0. Len(f.blocks) \in Nat /\ Size \in Nat
  BY LenProperties, SizeAssumption DEF File
<1> DEFINE g == Kept(f, k)
<1>1. /\ g \in File /\ Len(g.blocks) <= Len(f.blocks) /\ g.durable = Len(g.blocks)
      /\ \A j \in 1..Len(g.blocks) : g.blocks[j] = f.blocks[j]
      /\ f.durable = Len(f.blocks) => g.blocks = f.blocks
  BY KeptIs
<1>2. Len(g.blocks) \in Nat
  BY <1>1, LenProperties DEF File
<1> HIDE DEF g
<1>3. ~q.part => \/ g.blocks = f.blocks /\ g.durable = Size
                          /\ \E l \in Offers[q.name.ep] : WholeOf(f, l)
                 \/ q.name \in exposed /\ Offers[q.name.ep] \cap Hls = {}
  BY <1>1 DEF FileOK, WholeOf
<1>4. \A j \in 1..Len(g.blocks) : g.blocks[j] \in Blocks(q.name.ep)
  BY <1>0, <1>1, <1>2 DEF FileOK
<1>5. ~q.part => \/ g.durable = Size /\ \E l \in Offers[q.name.ep] : WholeOf(g, l)
                 \/ q.name \in exposed /\ Offers[q.name.ep] \cap Hls = {}
  BY <1>3 DEF WholeOf
<1> QED
  BY <1>0, <1>1, <1>2, <1>3, <1>4, <1>5 DEF FileOK, g

LEMMA SyncedOK ==
    ASSUME NEW n \in Name, NEW f \in File, FileOK(Part(n), f, exposed)
    PROVE  FileOK(Part(n), Synced(f), exposed)
<1>1. Part(n).part /\ Len(f.blocks) \in Nat
  BY Paths, LenProperties DEF File
<1> QED
  BY <1>1, SyncedIs DEF FileOK

LEMMA MovedOK ==
    ASSUME NEW q \in Path, NEW f, NEW x, NEW y, FileOK(q, f, x),
           ~q.part /\ q.name \in x => InNew(q).name \in y
    PROVE  FileOK(InNew(q), f, y)
<1>1. InNew(q).name.ep = q.name.ep /\ (InNew(q).part <=> q.part)
  BY NewPath
<1> QED
  BY <1>1 DEF FileOK

\* A finished part is sound under its final name.
LEMMA FinishedOK ==
    ASSUME NEW n \in Name, NEW f, FileOK(Part(n), f, exposed),
           NEW l \in Offers[n.ep], WholeOf(f, l),
           f.durable = Size \/ (n \in exposed /\ Offers[n.ep] \cap Hls = {})
    PROVE  FileOK(Final(n), f, exposed)
<1>1. Part(n).name = n /\ Final(n).name = n
  BY Paths
<1> QED
  BY <1>1 DEF FileOK

-----------------------------------------------------------------------------
\* Every step keeps the files sound.

\* A step that writes at most the part of the job's own file.
LEMMA FilesKept ==
    ASSUME DiskType, Files, UNCHANGED exposed, NEW n \in Name, NEW f \in File \cup {None},
           disk' = [disk EXCEPT ![Part(n)] = f], f # None => FileOK(Part(n), f, exposed)
    PROVE  Files' /\ disk'[Part(n)] = f
<1>1. /\ disk'[Part(n)] = f
      /\ \A q \in Path : q # Part(n) => disk'[q] = disk[q]
  BY PartWritten
<1> QED
  BY <1>1 DEF Files

LEMMA JobFile ==
    ASSUME SavingInv, Sound, job # None
    PROVE  /\ job \in Job /\ job.name \in Name /\ job.name.ep \in Episode
           /\ Part(job.name) \in Path
           /\ disk[Part(job.name)] \in File \cup {None}
           /\ disk[Part(job.name)] # None => FileOK(Part(job.name), disk[Part(job.name)], exposed)
           /\ Given(job, disk[Part(job.name)], ffmpeg[session], exposed)
           /\ session \in 1..(MaxCrashes + 1)
           /\ Linked
BY JobIs DEF SavingInv, Sound, Files, Jobs, DiskType, Name, UIType

LEMMA JobStepsSound ==
    ASSUME SavingInv, Sound, OneLink, Resolve \/ Ask \/ Received \/ Fail
    PROVE  Sound'
<1> DEFINE f == disk[Part(job.name)]
<1>1. UNCHANGED <<disk, ffmpeg, session, exposed>> /\ job # None /\ Files'
  BY DEF Resolve, Ask, Received, Fail, At, Keep, KeepRest, Sound, Files
<1>2. /\ job \in Job /\ job.name \in Name /\ f \in File \cup {None}
      /\ f # None => FileOK(Part(job.name), f, exposed)
      /\ Given(job, f, ffmpeg[session], exposed)
  BY <1>1, JobFile
<1>3. ASSUME NEW j, job' = j, j.name = job.name, Given(j, f, ffmpeg[session], exposed)
      PROVE  Sound'
  BY <1>1, <1>3 DEF Sound, Jobs
<1>4. CASE Resolve
  <2>1. PICK l : job' = [job EXCEPT !.link = l, !.pc = IF l \in Hls THEN "spawn" ELSE "ask"]
    BY <1>4 DEF Resolve
  <2> DEFINE j == [job EXCEPT !.link = l, !.pc = IF l \in Hls THEN "spawn" ELSE "ask"]
  <2>2. j.name = job.name /\ j.pc \in {"spawn", "ask"}
    BY <1>2 DEF Job
  <2>3. job' = j
    BY <2>1
  <2> HIDE DEF j
  <2> QED
    BY <1>3, <2>2, <2>3 DEF Given
<1>5. CASE Ask
  <2> DEFINE n == Length(Part(job.name))
             j == [job EXCEPT !.pos = n, !.pc = "answer"]
  <2>1. job' = j
    BY <1>5 DEF Ask
  <2>2. j.name = job.name /\ j.pc = "answer" /\ j.pos = n
    BY <1>2 DEF Job
  <2>3. n > 0 => f # None /\ Len(f.blocks) = n
    BY DEF Length
  <2> HIDE DEF j, n
  <2> QED
    BY <1>3, <2>1, <2>2, <2>3 DEF Given
<1>6. CASE Received
  <2> DEFINE j == [job EXCEPT !.pc = "sync"]
  <2>1. job' = j /\ job.pc = "write" /\ job.pos > Size
    BY <1>6 DEF Received, At
  <2>2. j.name = job.name /\ j.pc = "sync" /\ j.link = job.link
    BY <1>2 DEF Job
  <2>3. f # None /\ WholeOf(f, job.link)
    <3>1. job.pos \in Nat /\ Size \in Nat
      BY <1>2, SizeAssumption DEF Job
    <3>2. job.pos - 1 = Size
      BY <1>2, <2>1, <3>1 DEF Given
    <3> QED
      BY <1>2, <2>1, <3>2 DEF Given, Begun, WholeOf
  <2> HIDE DEF j, f
  <2> QED
    BY <1>3, <2>1, <2>2, <2>3 DEF Given
<1>7. CASE Fail
  BY <1>1, <1>7 DEF Fail, Sound, Jobs
<1> QED
  BY <1>4, <1>5, <1>6, <1>7

LEMMA PartStepsSound ==
    ASSUME SavingInv, Sound, OneLink, Answer \/ WriteBlock \/ Sync \/ OutOfRange
    PROVE  Sound'
<1> DEFINE n == job.name
           part == Part(n)
           f == disk[part]
           e == n.ep
<1>1. UNCHANGED <<session, exposed>> /\ job # None /\ DiskType /\ Files
  BY DEF Answer, WriteBlock, Sync, OutOfRange, At, Keep, KeepRest, Sound, SavingInv
<1>2. /\ job \in Job /\ n \in Name /\ e \in Episode /\ f \in File \cup {None}
      /\ f # None => FileOK(part, f, exposed)
      /\ Given(job, f, ffmpeg[session], exposed) /\ Linked
      /\ job.pos \in Nat /\ Size \in Nat
  BY <1>1, JobFile, SizeAssumption DEF Job
<1>3. ASSUME NEW j, job' = j, j.name = n, NEW g \in File, FileOK(part, g, exposed),
             disk' = [disk EXCEPT ![part] = g], UNCHANGED ffmpeg,
             Given(j, g, ffmpeg[session], exposed)
      PROVE  Sound'
  <2>1. Files' /\ disk'[part] = g
    BY <1>1, <1>2, <1>3, FilesKept
  <2> QED
    BY <1>1, <1>3, <2>1 DEF Sound, Jobs
<1>4. CASE Answer
  <2> DEFINE status == IF Ranged THEN 206 ELSE 200
             pos == IF status = 206 THEN job.pos + 1 ELSE 1
             app == Resumes(status)
             j == [job EXCEPT !.pc = "write", !.pos = pos, !.append = app]
             g == IF Resumes(status) /\ f # None THEN f ELSE Empty
  <2>1. job' = j /\ job.pc = "answer" /\ (Ranged => job.pos < Size) /\ UNCHANGED ffmpeg
    BY <1>4 DEF Answer, At
  <2>2. disk' = [disk EXCEPT ![part] = g]
    BY <1>1, <1>4 DEF Answer, DiskType
  <2>3. job.link \in Offers[e] /\ job.link \notin Hls
    BY <1>1, <1>2, <2>1 DEF Linked
  <2>4. j.name = n /\ j.pc = "write" /\ j.pos = pos /\ j.link = job.link
    BY <1>2 DEF Job
  <2>5. g \in File /\ FileOK(part, g, exposed) /\ pos <= Size + 1
        /\ Begun(g, job.link, pos - 1) /\ Len(g.blocks) = pos - 1
    <3>1. CASE Ranged
      <4>1. /\ f # None /\ f \in File /\ Len(f.blocks) = job.pos /\ FileOK(part, f, exposed)
            /\ g = f /\ pos = job.pos + 1
        BY <1>2, <2>1, <3>1 DEF Ranged, Resumes, Given
      <4>2. \A k \in 1..Len(f.blocks) : f.blocks[k] = job.link
        <5>1. Blocks(e) = Offers[e] /\ \A m \in Offers[e] : m = job.link
          BY <1>2, <2>3, <3>1, NoChild DEF Ranged
        <5>2. part.name = n
          BY <1>2, Paths
        <5> QED
          BY <4>1, <5>1, <5>2 DEF FileOK
      <4>3. pos - 1 = job.pos /\ pos <= Size + 1
        BY <1>2, <2>1, <3>1, <4>1
      <4> QED
        BY <1>2, <4>1, <4>2, <4>3 DEF Begun
    <3>2. CASE ~Ranged
      <4>1. g = Empty /\ pos = 1
        BY <3>2 DEF Resumes
      <4>2. pos - 1 = 0 /\ pos <= Size + 1
        BY <1>2, <4>1
      <4>3. FileOK(part, Empty, exposed) /\ Begun(Empty, job.link, 0)
        BY <1>2, EmptyOK
      <4> QED
        BY <4>1, <4>2, <4>3, EmptyIs
    <3> QED
      BY <3>1, <3>2
  <2> HIDE DEF j, g, pos, part
  <2>6. Given(j, g, ffmpeg[session], exposed)
    BY <2>4, <2>5 DEF Given
  <2> QED
    BY <1>3, <2>1, <2>2, <2>4, <2>5, <2>6
<1>5. CASE WriteBlock
  <2> DEFINE at == IF job.append THEN Length(part) + 1 ELSE job.pos
             j == [job EXCEPT !.pos = @ + 1]
             g == Write(f, job.link, job.pos)
  <2>1. /\ job' = j /\ job.pc = "write" /\ f # None /\ job.pos <= Size /\ UNCHANGED ffmpeg
        /\ disk' = [disk EXCEPT ![part] = Write(f, job.link, at)]
    BY <1>5 DEF WriteBlock, At
  <2>2. /\ job.link \in Offers[e] /\ job.link \notin Hls /\ job.pos > 0
        /\ Begun(f, job.link, job.pos - 1) /\ Len(f.blocks) = job.pos - 1
        /\ f \in File /\ FileOK(part, f, exposed)
    BY <1>1, <1>2, <2>1 DEF Linked, Given
  <2>3. at = job.pos
    BY <1>2, <2>1, <2>2 DEF Length
  <2>4. j.name = n /\ j.pc = "write" /\ j.pos = job.pos + 1 /\ j.link = job.link
    BY <1>2, <2>1 DEF Job
  <2>5. FileOK(part, g, exposed) /\ Begun(g, job.link, job.pos) /\ Len(g.blocks) = job.pos
    BY <1>2, <2>1, <2>2, OwnWriteKeeps
  <2>6. g \in File
    BY <1>2, <2>2, WriteIs, LinkAssumption
  <2>7. disk' = [disk EXCEPT ![part] = g]
    BY <2>1, <2>3
  <2> HIDE DEF j, g, at, part
  <2>8. Given(j, g, ffmpeg[session], exposed)
    BY <1>2, <2>1, <2>4, <2>5 DEF Given
  <2> QED
    BY <1>3, <2>1, <2>4, <2>5, <2>6, <2>7, <2>8
<1>6. CASE Sync
  <2> DEFINE j == [job EXCEPT !.pc = "rename"]
             g == Synced(f)
  <2>1. /\ job' = j /\ job.pc = "sync" /\ f # None /\ UNCHANGED ffmpeg
        /\ disk' = [disk EXCEPT ![part] = g]
    BY <1>6 DEF Sync, At
  <2>2. g \in File /\ FileOK(part, g, exposed) /\ g # None /\ g.blocks = f.blocks
        /\ g.durable = Len(f.blocks)
    BY <1>2, <2>1, SyncedIs, SyncedOK
  <2>3. j.name = n /\ j.pc = "rename" /\ j.link = job.link
    BY <1>2 DEF Job
  <2>4. WholeOf(f, job.link)
    BY <1>2, <2>1 DEF Given
  <2> HIDE DEF j, g, part, f
  <2>5. Given(j, g, ffmpeg[session], exposed)
    BY <2>2, <2>3, <2>4 DEF Given, WholeOf
  <2> QED
    BY <1>3, <2>1, <2>2, <2>3, <2>5
<1>7. CASE OutOfRange
  <2>1. disk' = [disk EXCEPT ![part] = None] /\ job' = None
    BY <1>7 DEF OutOfRange
  <2> QED
    BY <1>1, <1>2, <2>1, FilesKept DEF Sound, Jobs
<1> QED
  BY <1>4, <1>5, <1>6, <1>7

LEMMA ChildOfTheJobSound ==
    ASSUME SavingInv, Sound, OneLink, Spawn \/ Cancel \/ Reap
    PROVE  Sound'
<1> DEFINE n == job.name
           part == Part(n)
           f == disk[part]
           c == ffmpeg[session]
<1>1. /\ UNCHANGED <<session, exposed>> /\ job # None /\ DiskType /\ Files /\ Children
  BY DEF Spawn, Cancel, Reap, At, Keep, KeepRest, Sound, SavingInv
<1>2. /\ job \in Job /\ n \in Name /\ f \in File \cup {None}
      /\ f # None => FileOK(part, f, exposed)
      /\ Given(job, f, c, exposed) /\ session \in 1..(MaxCrashes + 1) /\ Size \in Nat
  BY <1>1, JobFile, SizeAssumption
<1>3. CASE Spawn
  <2> DEFINE d == [at |-> part, link |-> job.link, pos |-> 1, st |-> "runs"]
             j == [job EXCEPT !.pc = "wait"]
  <2>1. /\ job' = j /\ ffmpeg' = [ffmpeg EXCEPT ![session] = d]
        /\ disk' = [disk EXCEPT ![part] = Empty] /\ job.pc = "spawn"
    BY <1>3 DEF Spawn, At
  <2>2. j.name = n /\ j.pc = "wait" /\ j.link = job.link
    BY <1>2 DEF Job
  <2>3. Files' /\ disk'[part] = Empty
    BY <1>1, <1>2, <2>1, EmptyOK, EmptyIs, FilesKept
  <2>4. ffmpeg'[session] = d
    BY <1>1, <1>2, <2>1 DEF DiskType
  <2>5. d.at = part /\ d.link = job.link /\ d.pos - 1 = 0 /\ d.st # "ok" /\ d # None
    <3>1. job.link \in Hls
      BY <1>1, <2>1 DEF SavingInv, Linked
    <3>2. d \in Child
      BY <1>2, <3>1, SizeAssumption, Paths DEF Child
    <3> QED
      BY <3>2, NoneDiffers
  <2>6. Begun(Empty, job.link, 0)
    BY <1>2, EmptyOK
  <2> HIDE DEF d, j, part
  <2>7. Given(j, Empty, d, exposed)
    BY <2>2, <2>5, <2>6 DEF Given, part
  <2> QED
    BY <1>1, <2>1, <2>2, <2>3, <2>4, <2>7 DEF Sound, Jobs, part
<1>4. CASE Cancel
  <2>1. ffmpeg' = Termed(session) /\ UNCHANGED <<job, disk>> /\ job.pc = "wait"
    BY <1>4 DEF Cancel, At
  <2>2. c # None
    BY <1>2, <2>1 DEF Given
  <2>3. /\ ffmpeg'[session] # None /\ ffmpeg'[session].at = c.at
        /\ ffmpeg'[session].link = c.link /\ ffmpeg'[session].pos = c.pos
        /\ ffmpeg'[session].st = "ok" => c.st = "ok"
    BY <1>1, <1>2, <2>1, <2>2, TermedIs
  <2> HIDE DEF c
  <2>4. Given(job, f, ffmpeg'[session], exposed)
    BY <1>2, <2>1, <2>3 DEF Given
  <2>5. Files'
    BY <1>1, <2>1 DEF Files
  <2> QED
    BY <1>1, <2>1, <2>4, <2>5 DEF Sound, Jobs
<1>5. CASE Reap
  <2>1. /\ UNCHANGED disk /\ job.pc = "wait" /\ Files'
        /\ \/ c.st = "ok" /\ job' = [job EXCEPT !.pc = "sync"]
           \/ job' = None
    BY <1>1, <1>5 DEF Reap, At, Files
  <2>2. CASE c.st = "ok" /\ job' = [job EXCEPT !.pc = "sync"]
    <3> DEFINE j == [job EXCEPT !.pc = "sync"]
    <3>1. j.name = n /\ j.pc = "sync" /\ j.link = job.link /\ job' = j
      BY <1>2, <2>2 DEF Job
    <3>2. Begun(f, job.link, c.pos - 1) /\ c.pos = Size + 1
      BY <1>2, <2>1, <2>2 DEF Given
    <3>3. c.pos - 1 = Size
      BY <1>2, <3>2
    <3>4. Begun(f, job.link, Size)
      BY <3>2, <3>3
    <3>5. f # None /\ f \in File /\ Len(f.blocks) <= Size /\ Len(f.blocks) \in Nat
      BY <1>2, <3>4, LenProperties DEF Begun, FileOK, File
    <3>6. WholeOf(f, job.link)
      BY <1>2, <3>4, <3>5 DEF Begun, WholeOf
    <3> HIDE DEF j, f
    <3>7. Given(j, f, ffmpeg'[session], exposed)
      BY <3>1, <3>5, <3>6 DEF Given
    <3> QED
      BY <1>1, <2>1, <3>1, <3>7 DEF Sound, Jobs, f
  <2>3. CASE job' = None
    BY <2>1, <2>3 DEF Sound, Jobs
  <2> QED
    BY <2>1, <2>2, <2>3
<1> QED
  BY <1>3, <1>4, <1>5

LEMMA RenameSound ==
    ASSUME SavingInv, Sound, OneLink, Rename
    PROVE  Sound' /\ \E l \in Offers[job.name.ep] :
                        /\ disk'[Final(job.name)] # None
                        /\ WholeOf(disk'[Final(job.name)], l)
                        /\ disk'[Final(job.name)] \in File
<1> DEFINE n == job.name
           f == disk[Part(n)]
<1>1. /\ job # None /\ n \in Name /\ job.pc = "rename" /\ f # None
      /\ disk'[Final(n)] = f /\ disk'[Part(n)] = None
      /\ \A q \in Path \ {Part(n), Final(n)} : disk'[q] = disk[q]
  BY RenameIs DEF SavingInv
<1>2. /\ FileOK(Part(n), f, exposed) /\ Given(job, f, ffmpeg[session], exposed) /\ Linked /\ f \in File
  BY <1>1, JobFile
<1>3. /\ WholeOf(f, job.link) /\ job.link \in Offers[n.ep]
      /\ f.durable = Size \/ (n \in exposed /\ Offers[n.ep] \cap Hls = {})
  BY <1>1, <1>2 DEF Given, Linked
<1>4. FileOK(Final(n), f, exposed)
  BY <1>1, <1>2, <1>3, FinishedOK
<1>6. job' = None /\ UNCHANGED exposed
  BY DEF Rename
<1>5. Files'
  BY <1>1, <1>4, <1>6 DEF Sound, Files
<1> QED
  BY <1>1, <1>2, <1>3, <1>5, <1>6 DEF Sound, Jobs

\* A part that holds every byte of its one link goes to its final name unsynced.
LEMMA AlreadyWholeSound ==
    ASSUME SavingInv, Sound, OneLink, exposed \subseteq exposed', AlreadyWhole
    PROVE  Sound' /\ UNCHANGED disk
<1> DEFINE n == job.name
           f == disk[Part(n)]
           j == [job EXCEPT !.pc = "rename"]
<1>1. /\ job # None /\ job.pc = "answer" /\ Ranged /\ job.pos >= Size /\ job' = j
      /\ exposed' = exposed \cup {n} /\ UNCHANGED <<session, disk, ffmpeg>>
  BY DEF AlreadyWhole, At, KeepRest
<1>2. /\ job \in Job /\ n \in Name /\ n.ep \in Episode /\ f \in File \cup {None}
      /\ f # None => FileOK(Part(n), f, exposed)
      /\ Given(job, f, ffmpeg[session], exposed) /\ Linked
      /\ job.pos \in Nat /\ Size \in Nat /\ Part(n).name = n
  BY <1>1, JobFile, Paths, SizeAssumption DEF Job
<1>3. j.name = n /\ j.pc = "rename" /\ j.link = job.link
  BY <1>2 DEF Job
<1>4. job.link \in Offers[n.ep] /\ job.link \notin Hls /\ job.link \in Ranges /\ job.pos > 0
  BY <1>1, <1>2 DEF Linked, Ranged
<1>5. /\ Offers[n.ep] \cap Hls = {} /\ Blocks(n.ep) = Offers[n.ep]
      /\ \A m \in Offers[n.ep] : m = job.link
  BY <1>2, <1>4, NoChild
<1> HIDE DEF j, f, n
<1>6. f # None /\ Len(f.blocks) = job.pos
  BY <1>1, <1>2, <1>4 DEF Given
<1>7. Len(f.blocks) = Size
  BY <1>1, <1>2, <1>6 DEF FileOK
<1>8. WholeOf(f, job.link)
  BY <1>2, <1>5, <1>6, <1>7 DEF FileOK, WholeOf
<1>9. Given(j, f, ffmpeg[session], exposed')
  BY <1>1, <1>3, <1>5, <1>6, <1>8 DEF Given
<1>10. Files'
  BY <1>1, MoreExposed DEF Sound, Files
<1> QED
  BY <1>1, <1>3, <1>9, <1>10 DEF Sound, Jobs, f, n

\* What a child's write leaves of the file the job counts on.
LEMMA ChildWritesSound ==
    ASSUME SavingInv, Sound, OneLink, NEW s \in DOMAIN ffmpeg, ChildWrites(s)
    PROVE  /\ Sound'
           /\ \A n \in Name : disk[Final(n)] # None =>
                 disk'[Final(n)] # None /\ disk'[Final(n)].blocks = disk[Final(n)].blocks
<1> DEFINE c == ffmpeg[s]
           d == [c EXCEPT !.pos = @ + 1]
<1>0. /\ DiskType /\ Children /\ Files /\ Jobs /\ Linked /\ UIType
      /\ s \in 1..(MaxCrashes + 1) /\ Size \in Nat
      /\ UNCHANGED <<job, session, exposed>>
  BY SizeAssumption DEF SavingInv, Sound, DiskType, ChildWrites, Keep, KeepRest
<1>1. /\ c \in Child /\ c.pos <= Size /\ c.st = "runs"
      /\ ffmpeg' = [ffmpeg EXCEPT ![s] = d]
      /\ c.at = None => disk' = disk
      /\ c.at # None => /\ disk[c.at] \in File
                        /\ disk'[c.at] = Write(disk[c.at], c.link, c.pos)
      /\ \A q \in Path : q # c.at => disk'[q] = disk[q]
      /\ \A q \in Path : disk'[q] = None <=> disk[q] = None
  BY <1>0, ChildWriteIs
<1>2. /\ c # None /\ c.at \in Path \cup {None} /\ c.link \in Hls /\ c.pos \in 1..Size
      /\ c.pos \in Nat
  BY <1>0, <1>1, NoneDiffers DEF Child
<1>3. ASSUME c.at # None
      PROVE  /\ c.at \in Path /\ disk[c.at] # None /\ c.link \in Offers[c.at.name.ep]
             /\ FileOK(c.at, disk[c.at], exposed)
  BY <1>0, <1>2, <1>3 DEF Children, Files
<1>4. ASSUME c.at # None
      PROVE  LET f == disk[c.at]
                 g == disk'[c.at]
             IN  /\ FileOK(c.at, g, exposed)
                 /\ WholeOf(f, c.link) => WholeOf(g, c.link) /\ g.durable = f.durable
                                          /\ g.blocks = f.blocks
                 /\ \A n \in Nat : Begun(f, c.link, n) => Begun(g, c.link, n)
                 /\ Begun(f, c.link, c.pos - 1) => Begun(g, c.link, c.pos)
  BY <1>1, <1>2, <1>3, <1>4, ChildWriteKeeps
<1>5. Files'
  <2> SUFFICES ASSUME NEW q \in Path, disk'[q] # None PROVE FileOK(q, disk'[q], exposed)
    BY <1>0 DEF Files
  <2>1. CASE q = c.at
    BY <1>2, <1>4, <2>1, NoneDiffers
  <2>2. CASE q # c.at
    BY <1>0, <1>1, <2>2 DEF Files
  <2> QED
    BY <2>1, <2>2
<1>6. ASSUME NEW n \in Name, disk[Final(n)] # None
      PROVE  disk'[Final(n)] # None /\ disk'[Final(n)].blocks = disk[Final(n)].blocks
  <2>1. Final(n) \in Path /\ Final(n).name = n /\ ~Final(n).part /\ n.ep \in Episode
    BY Paths DEF Name
  <2>2. CASE Final(n) = c.at
    <3>1. c.at # None /\ c.link \in Offers[n.ep]
      BY <1>3, <2>1, <2>2, NoneDiffers
    <3>2. WholeOf(disk[c.at], c.link)
      <4>1. \A m \in Offers[n.ep] : m = c.link
        BY <1>2, <2>1, <3>1, OneChild
      <4> QED
        BY <1>2, <1>3, <2>1, <2>2, <3>1, <4>1 DEF FileOK
    <3> QED
      BY <1>1, <1>4, <1>6, <2>1, <2>2, <3>1, <3>2
  <2>3. CASE Final(n) # c.at
    BY <1>1, <1>6, <2>1, <2>3
  <2> QED
    BY <2>2, <2>3
<1>7. Jobs'
  <2> SUFFICES ASSUME job # None
               PROVE  Given(job, disk'[Part(job.name)], ffmpeg'[session], exposed)
    BY <1>0 DEF Jobs
  <2> DEFINE n == job.name
             f == disk[Part(n)]
             g == disk'[Part(n)]
             e == ffmpeg[session]
  <2>1. /\ job \in Job /\ n \in Name /\ n.ep \in Episode /\ Part(n) \in Path
        /\ Given(job, f, e, exposed) /\ session \in 1..(MaxCrashes + 1) /\ Part(n).name = n
    BY <1>0, JobFile, Paths
  <2>2. /\ ffmpeg'[session] = IF session = s THEN d ELSE e
        /\ d # None /\ d.at = c.at /\ d.link = c.link /\ d.pos = c.pos + 1 /\ d.st = c.st
    <3>1. ffmpeg'[session] = IF session = s THEN d ELSE e
      BY <1>0, <1>1, <2>1 DEF DiskType
    <3>2. d \in Child /\ d.at = c.at /\ d.link = c.link /\ d.pos = c.pos + 1 /\ d.st = c.st
      BY <1>1, <1>2, SizeAssumption DEF Child
    <3> QED
      BY <3>1, <3>2, NoneDiffers
  <2>3. ASSUME c.at = Part(n)
        PROVE  job.pc \notin {"resolve", "ask", "answer", "write"} => job.link = c.link
    <3>1. c.link \in Offers[n.ep]
      BY <1>3, <2>1, <2>3, NoneDiffers
    <3>2. job.pc # "resolve" => job.link \in Offers[n.ep]
      BY <1>0 DEF Linked
    <3>3. \A m \in Offers[n.ep] : m = c.link
      BY <1>2, <2>1, <3>1, OneChild
    <3> QED
      BY <3>2, <3>3
  <2>4. ASSUME c.at = Part(n)
        PROVE  job.pc \notin {"ask", "answer", "write"}
    <3>1. c.link \in Offers[n.ep]
      BY <1>3, <2>1, <2>4, NoneDiffers
    <3>2. job.pc # "resolve" => job.link \in Offers[n.ep]
      BY <1>0 DEF Linked
    <3>3. \A m \in Offers[n.ep] : m = c.link
      BY <1>2, <2>1, <3>1, OneChild
    <3> QED
      BY <1>0, <1>2, <3>2, <3>3 DEF Linked
  <2>5. c.at # Part(n) => g = f
    BY <1>1, <2>1
  <2>6. CASE job.pc \in {"answer", "write"}
    BY <2>1, <2>4, <2>5, <2>6 DEF Given
  <2>7. CASE job.pc \in {"sync", "rename"}
    <3>1. CASE c.at # Part(n)
      BY <2>1, <2>5, <2>7, <3>1 DEF Given
    <3>2. CASE c.at = Part(n)
      <4>0. c.link \in Offers[n.ep] \cap Hls
        BY <1>2, <1>3, <2>1, <3>2, NoneDiffers
      <4>1. f # None /\ WholeOf(f, c.link) /\ job.link = c.link
            /\ (job.pc = "rename" => f.durable = Size)
        BY <2>1, <2>3, <2>7, <3>2, <4>0 DEF Given
      <4>2. g # None /\ WholeOf(g, c.link) /\ g.durable = f.durable
        BY <1>1, <1>4, <2>1, <3>2, <4>1, NoneDiffers
      <4> QED
        BY <2>7, <4>1, <4>2 DEF Given
    <3> QED
      BY <3>1, <3>2
  <2>8. CASE job.pc = "wait"
    <3>1. /\ e # None /\ e.at = Part(n) /\ e.link = job.link
          /\ e.st = "ok" => e.pos = Size + 1
          /\ Begun(f, job.link, e.pos - 1) /\ e \in Child
      BY <1>0, <2>1, <2>8 DEF Given, DiskType
    <3>2. e.pos - 1 \in Nat
      BY <1>0, <3>1 DEF Child
    <3>3. Begun(g, job.link, e.pos - 1)
      <4>1. CASE c.at = Part(n)
        BY <1>4, <2>1, <2>3, <2>8, <3>1, <3>2, <4>1, NoneDiffers
      <4> QED
        BY <2>5, <3>1, <4>1
    <3>4. CASE session # s
      BY <2>2, <2>8, <3>1, <3>3, <3>4 DEF Given
    <3>5. CASE session = s
      <4>1. e = c /\ d.pos - 1 = c.pos
        BY <1>2, <2>2, <3>5
      <4>2. Begun(g, job.link, c.pos)
        BY <1>4, <2>1, <3>1, <4>1, NoneDiffers
      <4>3. d.st # "ok"
        BY <1>1, <2>2
      <4> QED
        BY <2>2, <2>8, <3>1, <3>5, <4>1, <4>2, <4>3 DEF Given
    <3> QED
      BY <3>4, <3>5
  <2>9. CASE job.pc \in {"resolve", "ask", "spawn"}
    BY <2>9 DEF Given
  <2> QED
    BY <2>1, <2>6, <2>7, <2>8, <2>9 DEF Job
<1> QED
  BY <1>5, <1>6, <1>7 DEF Sound

LEMMA ChildExitsSound ==
    ASSUME SavingInv, Sound, NEW s \in DOMAIN ffmpeg, ChildExits(s)
    PROVE  Sound'
<1> DEFINE c == ffmpeg[s]
<1>0. /\ DiskType /\ Files /\ Jobs /\ s \in 1..(MaxCrashes + 1) /\ Size \in Nat
      /\ UNCHANGED <<job, disk, session, exposed>> /\ c # None /\ c \in Child
  BY SizeAssumption DEF SavingInv, Sound, DiskType, ChildExits, Keep, KeepRest
<1>1. Files'
  BY <1>0 DEF Files
<1>2. Jobs'
  <2> SUFFICES ASSUME job # None
               PROVE  Given(job, disk[Part(job.name)], ffmpeg'[session], exposed)
    BY <1>0 DEF Jobs
  <2> DEFINE f == disk[Part(job.name)]
             e == ffmpeg[session]
  <2>1. Given(job, f, e, exposed) /\ session \in 1..(MaxCrashes + 1)
    BY JobFile
  <2>2. CASE job.pc # "wait"
    BY <2>1, <2>2 DEF Given
  <2>3. CASE job.pc = "wait"
    <3>1. PICK st \in {"ok", "bad"} :
             /\ st = "ok" => c.st = "runs" /\ c.pos > Size
             /\ ffmpeg' = [ffmpeg EXCEPT ![s] =
                           IF s = session /\ At("wait") THEN [@ EXCEPT !.st = st] ELSE None]
      BY DEF ChildExits
    <3>2. CASE s # session
      <4>1. ffmpeg'[session] = e
        BY <1>0, <2>1, <3>1, <3>2 DEF DiskType
      <4> QED
        BY <2>1, <4>1
    <3>3. CASE s = session
      <4> DEFINE d == [c EXCEPT !.st = st]
      <4>1. ffmpeg'[session] = d
        BY <1>0, <2>3, <3>1, <3>3 DEF At, DiskType
      <4>2. d \in Child /\ d.at = c.at /\ d.link = c.link /\ d.pos = c.pos /\ d.st = st
        BY <1>0 DEF Child
      <4>3. st = "ok" => c.pos = Size + 1
        BY <1>0, <3>1 DEF Child
      <4>4. e = c /\ d # None
        BY <3>3, <4>2, NoneDiffers
      <4> HIDE DEF d, c, f
      <4>5. Given(job, f, d, exposed)
        BY <2>1, <2>3, <4>2, <4>3, <4>4 DEF Given
      <4> QED
        BY <4>1, <4>5 DEF f
    <3> QED
      BY <3>2, <3>3
  <2> QED
    BY <2>2, <2>3
<1> QED
  BY <1>1, <1>2 DEF Sound

LEMMA MoveSound ==
    ASSUME SavingInv, Sound, MoveFiles, exposed \subseteq exposed'
    PROVE  Sound'
<1>0. /\ DiskType /\ Children /\ Files /\ Jobs /\ Running /\ UIType /\ moving
      /\ UNCHANGED <<job, session>>
  BY DEF SavingInv, Sound, MoveFiles, uiVars
<1>1. PICK S \in SUBSET Path :
         /\ \A q \in S : /\ q.name.id = "old" /\ disk[q] # None
                         /\ InNew(q) \in Path \ S /\ disk[InNew(q)] = None
         /\ \A q \in S : disk'[InNew(q)] = disk[q] /\ disk'[q] = None
         /\ \A q \in Path \ S : (\A r \in S : InNew(r) # q) => disk'[q] = disk[q]
         /\ \A s \in 1..(MaxCrashes + 1) :
               IF ffmpeg[s] = None THEN ffmpeg'[s] = None
               ELSE Refiled(ffmpeg[s], ffmpeg'[s], FollowedTo(S, Rehomed, ffmpeg[s].at))
         /\ exposed' = exposed \cup
               {InNew(q).name : q \in {q \in S : ~q.part /\ q.name \in exposed}}
  BY <1>0, MoveIs
<1>2. Files'
  <2> SUFFICES ASSUME NEW q \in Path, disk'[q] # None PROVE FileOK(q, disk'[q], exposed')
    BY DEF Files
  <2>1. CASE \E r \in S : InNew(r) = q
    <3> PICK r \in S : InNew(r) = q
      BY <2>1
    <3>1. disk'[q] = disk[r] /\ FileOK(r, disk[r], exposed) /\ r \in Path
      BY <1>0, <1>1 DEF Files
    <3>2. ~r.part /\ r.name \in exposed => InNew(r).name \in exposed'
      BY <1>1
    <3> QED
      BY <3>1, <3>2, MovedOK
  <2>2. CASE \A r \in S : InNew(r) # q
    <3>1. q \notin S
      BY <1>1
    <3>2. disk'[q] = disk[q] /\ FileOK(q, disk[q], exposed)
      BY <1>0, <1>1, <2>2, <3>1 DEF Files
    <3> QED
      BY <3>2, MoreExposed
  <2> QED
    BY <2>1, <2>2
<1>3. Jobs'
  <2> SUFFICES ASSUME job # None
               PROVE  Given(job, disk'[Part(job.name)], ffmpeg'[session], exposed)
    BY <1>0, MoreExposed DEF Jobs
  <2> DEFINE n == job.name
             f == disk[Part(n)]
             c == ffmpeg[session]
  <2>1. /\ Given(job, f, c, exposed) /\ session \in 1..(MaxCrashes + 1) /\ n \in Name
        /\ Part(n) \in Path /\ Part(n).name = n
    BY JobFile, Paths
  <2>2. n.id # "old"
    BY <1>0 DEF Running
  <2>3. Part(n) \notin S
    BY <1>1, <2>1, <2>2
  <2>4. f # None => \A r \in S : InNew(r) # Part(n)
    BY <1>1
  <2>5. f # None => disk'[Part(n)] = f
    BY <1>1, <2>1, <2>3, <2>4
  <2>6. CASE job.pc # "wait"
    BY <2>1, <2>5, <2>6 DEF Given, Begun
  <2>7. CASE job.pc = "wait"
    <3>1. c # None /\ c.at = Part(n) /\ f # None
      BY <2>1, <2>7 DEF Given, Begun
    <3>2. \A r \in S : Rehomed[r] # Part(n)
      BY <2>4, <3>1, ToNew
    <3>3. FollowedTo(S, Rehomed, c.at) = Part(n)
      BY <2>1, <2>3, <3>1, <3>2, NoneDiffers DEF FollowedTo
    <3>4. Refiled(c, ffmpeg'[session], Part(n))
      BY <1>1, <2>1, <3>1, <3>3
    <3> HIDE DEF c, f
    <3> QED
      BY <2>1, <2>5, <2>7, <3>1, <3>4 DEF Given, Refiled
  <2> QED
    BY <2>6, <2>7
<1> QED
  BY <1>2, <1>3 DEF Sound

LEMMA PowerLossSound ==
    ASSUME SavingInv, JournalType, Sound, Backed, PowerLoss
    PROVE  Sound'
<1>0. DiskType /\ Files /\ UNCHANGED exposed
  BY DEF SavingInv, Sound, PowerLoss
<1>1. PICK back \in {disk, was}, k \in 0..Size :
         \A q \in Path : IF back[q] = None THEN disk'[q] = None
                         ELSE disk'[q] = Kept(back[q], k) /\ disk'[q] # None
  BY <1>0, PowerLossIs
<1>2. ASSUME NEW q \in Path, disk'[q] # None
      PROVE  FileOK(q, disk'[q], exposed)
  <2>1. back[q] # None /\ disk'[q] = Kept(back[q], k)
    BY <1>1, <1>2
  <2>2. back[q] \in File
    BY <1>0, <2>1 DEF DiskType, JournalType
  <2>3. FileOK(q, back[q], exposed)
    BY <1>0, <2>1 DEF Files, Backed
  <2>4. k \in Nat
    BY SizeAssumption
  <2> QED
    BY <2>1, <2>2, <2>3, <2>4, KeptOK
<1>3. Files'
  BY <1>0, <1>2 DEF Files
<1>4. job' = None
  BY DEF PowerLoss, Gone
<1> QED
  BY <1>3, <1>4 DEF Sound, Jobs

\* The steps that leave every file and the job's child alone.
LEMMA SoundKept ==
    ASSUME SavingInv, Sound, UNCHANGED disk, exposed \subseteq exposed',
           \/ UNCHANGED <<job, session, ffmpeg>>
           \/ job' = None
           \/ job' # None /\ job'.pc = "resolve"
    PROVE  Sound'
<1>1. Files'
  BY MoreExposed DEF Sound, Files
<1>2. Jobs'
  <2>1. CASE UNCHANGED <<job, session, ffmpeg>>
    BY <2>1, MoreExposed DEF Sound, Jobs
  <2>2. CASE job' = None \/ (job' # None /\ job'.pc = "resolve")
    BY <2>2 DEF Jobs, Given
  <2> QED
    BY <2>1, <2>2
<1> QED
  BY <1>1, <1>2 DEF Sound

LEMMA InterfaceSound ==
    ASSUME SavingInv, Sound,
           \/ \E e \in Episode, id \in Ids : Press(e, id)
           \/ DownloadDone \/ DownloadFailed \/ Quit \/ Exit \/ Crash \/ Restart
           \/ Rekey \/ MoveEnds
    PROVE  Sound' /\ UNCHANGED disk
<1>0. UNCHANGED exposed
  BY DEF Press, DownloadDone, DownloadFailed, Quit, Exit, Crash, Restart, Rekey, MoveEnds,
         powerVars
<1>1. CASE \E e \in Episode, id \in Ids : Press(e, id)
  <2> PICK e \in Episode, id \in Ids : Press(e, id)
    BY <1>1
  <2> DEFINE j == [name |-> [id |-> id, ep |-> e], link |-> None, pc |-> "resolve",
                   pos |-> 0, append |-> FALSE]
  <2>1. j \in Job /\ j.pc = "resolve"
    BY DEF Job, Name
  <2>2. job' = j /\ UNCHANGED disk
    BY DEF Press
  <2>3. j # None
    BY <2>1, NoneDiffers
  <2> HIDE DEF j
  <2> QED
    BY <2>1, <2>2, <2>3, <1>0, SoundKept
<1>2. CASE DownloadDone \/ DownloadFailed \/ Rekey \/ MoveEnds
  BY <1>2, <1>0, SoundKept DEF DownloadDone, DownloadFailed, Rekey, MoveEnds
<1>3. CASE Exit \/ Crash
  BY <1>3, <1>0, SoundKept DEF Exit, Crash, Gone
<1>4. CASE Restart
  <2>1. job = None
    BY <1>4 DEF Restart, SavingInv, Running
  <2> QED
    BY <1>4, <2>1, <1>0, SoundKept DEF Restart
<1>5. CASE Quit
  <2>1. UNCHANGED <<disk, job, session>> /\ (ffmpeg' = ffmpeg \/ ffmpeg' = Termed(session))
    BY <1>5 DEF Quit
  <2>2. CASE ffmpeg' = Termed(session) /\ job # None
    <3> DEFINE f == disk[Part(job.name)]
               c == ffmpeg[session]
    <3>1. Given(job, f, c, exposed) /\ session \in 1..(MaxCrashes + 1) /\ DiskType /\ Children /\ Files'
      BY <1>0, <2>1, <2>2, JobFile DEF SavingInv, Sound, Files
    <3>2. c # None => /\ ffmpeg'[session] # None /\ ffmpeg'[session].at = c.at
                      /\ ffmpeg'[session].link = c.link /\ ffmpeg'[session].pos = c.pos
                      /\ ffmpeg'[session].st = "ok" => c.st = "ok"
      BY <2>1, <2>2, <3>1, TermedIs
    <3> HIDE DEF f, c
    <3>3. Given(job, f, ffmpeg'[session], exposed)
      BY <3>1, <3>2 DEF Given
    <3> QED
      BY <1>0, <2>1, <3>1, <3>3 DEF Sound, Jobs, f
  <2>3. CASE ffmpeg' = ffmpeg \/ job = None
    BY <2>1, <2>3, <1>0, SoundKept
  <2> QED
    BY <2>1, <2>2, <2>3
<1> QED
  BY <1>1, <1>2, <1>3, <1>4, <1>5

LEMMA SoundInit == Init => Sound /\ Backed
BY DEF Init, Sound, Files, Jobs, Backed

\* What each step of Next leaves of the files, and of what is published.
FinalsKept ==
    \A n \in Name :
        IF disk[Final(n)] = None THEN disk'[Final(n)] = None
        ELSE disk'[Final(n)] # None /\ disk'[Final(n)].blocks = disk[Final(n)].blocks

LEMMA FinalsAlone ==
    ASSUME DiskType, \A n \in Name : disk'[Final(n)] = disk[Final(n)]
    PROVE  FinalsKept
BY DEF FinalsKept

\* The worker's steps on its .part leave the final names alone.
LEMMA WorkerFinals ==
    ASSUME SavingInv, Sound, OneLink, exposed \subseteq exposed', Worker
    PROVE  Sound' /\ (FinalsKept \/ Rename)
<1>0. DiskType
  BY DEF SavingInv
<1>p. ASSUME job # None,
             \/ disk' = disk
             \/ \E f : disk' = [disk EXCEPT ![Part(job.name)] = f]
      PROVE  FinalsKept
  <2>1. ASSUME NEW n \in Name PROVE disk'[Final(n)] = disk[Final(n)]
    <3>1. job.name \in Name
      BY <1>0, <1>p, JobIs
    <3>2. Final(n) \in Path /\ Final(n) # Part(job.name)
      <4>1. ~Final(n).part /\ Part(job.name).part
        BY <3>1, Paths
      <4> QED
        BY <4>1, Paths
    <3> QED
      BY <1>0, <1>p, <3>2 DEF DiskType
  <2> QED
    BY <1>0, <2>1, FinalsAlone
<1>1. CASE Resolve \/ Ask \/ Received \/ Fail
  <2>1. job # None /\ disk' = disk
    BY <1>1 DEF Resolve, Ask, Received, Fail, At
  <2> QED
    BY <1>1, <1>p, <2>1, JobStepsSound
<1>2. CASE Answer \/ WriteBlock \/ Sync \/ OutOfRange
  <2>1. job # None
    BY <1>2 DEF Answer, WriteBlock, Sync, OutOfRange, At
  <2>2. CASE Answer
    <3>1. \/ disk' = disk
          \/ disk' = [disk EXCEPT ![Part(job.name)] = Empty]
      BY <2>2 DEF Answer
    <3> QED
      BY <1>2, <1>p, <2>1, <3>1, PartStepsSound
  <2>3. CASE WriteBlock
    <3> DEFINE at == IF job.append THEN Length(Part(job.name)) + 1 ELSE job.pos
    <3>1. disk' = [disk EXCEPT ![Part(job.name)] = Write(disk[Part(job.name)], job.link, at)]
      BY <2>3 DEF WriteBlock
    <3> HIDE DEF at
    <3> QED
      BY <1>2, <1>p, <2>1, <3>1, PartStepsSound
  <2>4. CASE Sync
    <3>1. disk' = [disk EXCEPT ![Part(job.name)] = Synced(disk[Part(job.name)])]
      BY <2>4 DEF Sync
    <3> QED
      BY <1>2, <1>p, <2>1, <3>1, PartStepsSound
  <2>5. CASE OutOfRange
    <3>1. disk' = [disk EXCEPT ![Part(job.name)] = None]
      BY <2>5 DEF OutOfRange
    <3> QED
      BY <1>2, <1>p, <2>1, <3>1, PartStepsSound
  <2> QED
    BY <1>2, <2>2, <2>3, <2>4, <2>5
<1>3. CASE Spawn \/ Cancel \/ Reap
  <2>1. job # None /\ (disk' = disk \/ disk' = [disk EXCEPT ![Part(job.name)] = Empty])
    BY <1>3 DEF Spawn, Cancel, Reap, At
  <2> QED
    BY <1>3, <1>p, <2>1, ChildOfTheJobSound
<1>4. CASE Rename
  BY <1>4, RenameSound
<1>5. CASE AlreadyWhole
  <2>1. job # None
    BY <1>5 DEF AlreadyWhole, At
  <2> QED
    BY <1>5, <1>p, <2>1, AlreadyWholeSound
<1> QED
  BY <1>1, <1>2, <1>3, <1>4, <1>5 DEF Worker

\* Every step keeps the files sound, and only a finished download, a move, a page's
\* rename and a power loss touch a final name.
LEMMA SoundNext ==
    ASSUME SavingInv, ReadingInv, JournalType, Sound, Backed, OneLink, [Next]_vars
    PROVE  /\ Sound'
           /\ \/ PowerLoss
              \/ FinalsKept /\ Chapter
              \/ /\ UNCHANGED <<page, marker>>
                 /\ \/ FinalsKept /\ (AlreadyWhole \/ UNCHANGED exposed)
                    \/ Rename
                    \/ MoveFiles
<1>x. exposed \subseteq exposed'
  BY ExposedIs DEF JournalType
<1>y. exposed' # exposed => AlreadyWhole \/ MoveFiles \/ Chapter
  BY ExposedIs DEF JournalType, Chapter
<1>0. DiskType /\ DOMAIN ffmpeg = 1..(MaxCrashes + 1)
  BY DEF SavingInv, DiskType
<1>f. ASSUME UNCHANGED disk PROVE FinalsKept
  BY <1>0, <1>f, FinalsAlone
<1>1. CASE UNCHANGED vars
  <2>1. UNCHANGED <<disk, job, session, ffmpeg, page, marker, exposed>>
    BY <1>1 DEF vars, uiVars, chapterVars, powerVars
  <2> QED
    BY <1>f, <1>x, <2>1, SoundKept
<1>2. CASE \/ \E e \in Episode, id \in Ids : Press(e, id)
           \/ DownloadDone \/ DownloadFailed \/ Quit \/ Exit \/ Crash \/ Restart
           \/ Rekey \/ MoveEnds
  <2>1. UNCHANGED <<page, marker, exposed>>
    BY <1>2 DEF Press, DownloadDone, DownloadFailed, Quit, Exit, Crash, Restart, Rekey, MoveEnds,
                chapterVars, powerVars
  <2> QED
    BY <1>2, <1>f, <2>1, InterfaceSound
<1>3. CASE Worker
  <2>1. UNCHANGED <<page, marker>> /\ (AlreadyWhole \/ UNCHANGED exposed)
    BY <1>3 DEF Worker, Keep, KeepRest, Resolve, Fail, Ask, Answer, OutOfRange, AlreadyWhole,
                WriteBlock, Received, Spawn, Cancel, Reap, Sync, Rename, chapterVars
  <2> QED
    BY <1>3, <1>x, <2>1, WorkerFinals
<1>4. CASE \E s \in DOMAIN ffmpeg : ChildWrites(s) \/ ChildExits(s)
  <2> PICK s \in DOMAIN ffmpeg : ChildWrites(s) \/ ChildExits(s)
    BY <1>4
  <2>1. UNCHANGED <<page, marker, exposed>>
    BY DEF ChildWrites, ChildExits, Keep, KeepRest, chapterVars
  <2>2. CASE ChildExits(s)
    <3>1. UNCHANGED disk
      BY <2>2 DEF ChildExits
    <3> QED
      BY <1>f, <2>1, <2>2, <3>1, ChildExitsSound
  <2>3. CASE ChildWrites(s)
    <3>1. /\ Sound'
          /\ \A n \in Name : disk[Final(n)] # None =>
                disk'[Final(n)] # None /\ disk'[Final(n)].blocks = disk[Final(n)].blocks
      BY <2>3, ChildWritesSound
    <3>2. \A q \in Path : disk'[q] = None <=> disk[q] = None
      BY <1>0, <2>3, ChildWriteIs DEF SavingInv
    <3> QED
      BY <2>1, <3>1, <3>2, Paths DEF FinalsKept
  <2> QED
    BY <2>2, <2>3
<1>5. CASE MoveFiles
  <2>1. UNCHANGED <<page, marker>>
    BY <1>5 DEF MoveFiles, chapterVars
  <2> QED
    BY <1>5, <1>x, <2>1, MoveSound
<1>6. CASE Chapter
  <2>1. UNCHANGED disk /\ (UNCHANGED <<job, session, ffmpeg>>)
    BY <1>6 DEF Chapter, KeepUI, StartFetch, SkipPage, CountMismatch, OpenPage, PageReceived,
                PageFailed, Rotate, SyncPage, SyncPageUnheard, RenamePage, MarkComplete,
                ReaderCrash, uiVars
  <2> QED
    BY <1>6, <1>f, <1>x, <2>1, SoundKept
<1>7. CASE PowerLoss
  BY <1>7, PowerLossSound
<1> QED
  BY <1>1, <1>2, <1>3, <1>4, <1>5, <1>6, <1>7 DEF Next

LEMMA BackedNext ==
    ASSUME SavingInv, ReadingInv, JournalType, Sound, Backed, Sound', [Next]_vars
    PROVE  Backed'
<1>1. was' \in {was, disk, disk'}
  BY WasIs
<1>2. exposed \subseteq exposed'
  BY ExposedIs DEF JournalType
<1> SUFFICES ASSUME NEW q \in Path, was'[q] # None PROVE FileOK(q, was'[q], exposed')
  BY DEF Backed
<1>3. CASE was' = disk'
  BY <1>3 DEF Sound, Files
<1>4. CASE was' \in {was, disk}
  <2>1. FileOK(q, was'[q], exposed)
    BY <1>4 DEF Sound, Files, Backed
  <2> QED
    BY <1>2, <2>1, MoreExposed
<1> QED
  BY <1>1, <1>3, <1>4

-----------------------------------------------------------------------------
\* The downloaders implement AtomicFiles.

AllNames == Name \cup PageName
Pub == [n \in AllNames |-> Published(n)]
Contents == Whole \cup {<<"page">>}
TwinOf == [n \in AllNames |-> IF n \in Name THEN [n EXCEPT !.id = "new"] ELSE n]

LEMMA NamesDiffer == \A n \in Name : n \notin PageName
<1> SUFFICES ASSUME NEW n \in Name, n \in PageName PROVE FALSE
  OBVIOUS
<1>1. DOMAIN n = {"id", "ep"}
  BY DEF Name
<1>2. DOMAIN n = {"page"}
  BY DEF PageName
<1> QED
  BY <1>1, <1>2

LEMMA TornIs == Torn \notin Contents /\ Torn # None /\ <<"page">> # None
<1>1. ASSUME NEW l \in Link PROVE Torn # [k \in 1..Size |-> l]
  <2> DEFINE c == [k \in 1..Size |-> l]
  <2>1. Torn[1] = "torn" /\ c[1] = l
    BY SizeAssumption DEF Torn
  <2> HIDE DEF c
  <2>2. "torn" # l
    BY TornIsNoLink
  <2> QED
    BY <2>1, <2>2 DEF c
<1>2. Torn # <<"page">>
  BY DEF Torn
<1>3. Torn # None /\ <<"page">> # None
  BY NoneIsNothing
<1> QED
  BY <1>1, <1>2, <1>3 DEF Contents, Whole

\* A file that is the link's from end to end is a whole content.
LEMMA WholeIs ==
    ASSUME NEW f \in File, NEW l \in Link, WholeOf(f, l)
    PROVE  f.blocks \in Whole
<1> DEFINE c == [k \in 1..Size |-> l]
<1>1. Size \in Nat
  BY SizeAssumption
<1>2. c \in Seq(Link \cup {None}) /\ Len(c) = Size /\ \A k \in 1..Size : c[k] = l
  BY <1>1
<1>3. f.blocks \in Seq(Link \cup {None}) /\ Len(f.blocks) = Size
      /\ \A k \in 1..Size : f.blocks[k] = l
  BY DEF WholeOf, File
<1>4. c \in Whole
  BY DEF Whole
<1> HIDE DEF c
<1>5. f.blocks = c
  BY <1>1, <1>2, <1>3, SeqEqual
<1> QED
  BY <1>4, <1>5

LEMMA PubIs ==
    /\ DOMAIN Pub = AllNames /\ DOMAIN Pub' = AllNames
    /\ \A n \in Name :
          /\ Pub[n] = IF disk[Final(n)] = None THEN None
                      ELSE IF disk[Final(n)].blocks \in Whole THEN disk[Final(n)].blocks ELSE Torn
          /\ Pub'[n] = IF disk'[Final(n)] = None THEN None
                       ELSE IF disk'[Final(n)].blocks \in Whole THEN disk'[Final(n)].blocks
                       ELSE Torn
    /\ \A i \in Page :
          /\ PageAt(i) \in PageName /\ PageAt(i) \notin Name
          /\ Pub[PageAt(i)] = IF page[i] = None THEN None
                              ELSE IF page[i].whole THEN <<"page">> ELSE Torn
          /\ Pub'[PageAt(i)] = IF page'[i] = None THEN None
                               ELSE IF page'[i].whole THEN <<"page">> ELSE Torn
    /\ \A n \in PageName : n.page \in Page /\ n = PageAt(n.page)
<1>1. ASSUME NEW i \in Page PROVE PageAt(i) \in PageName /\ PageAt(i).page = i
  BY DEF PageAt, PageName
<1>2. ASSUME NEW n \in PageName PROVE n.page \in Page /\ n = PageAt(n.page)
  BY DEF PageAt, PageName
<1>3. ASSUME NEW i \in Page PROVE PageAt(i) \notin Name
  BY <1>1, NamesDiffer
<1> QED
  BY <1>1, <1>2, <1>3 DEF Pub, AllNames, Published

LEMMA PubPages ==
    ASSUME UNCHANGED page
    PROVE  \A n \in PageName : Pub'[n] = Pub[n]
BY PubIs

LEMMA PubFinals ==
    ASSUME FinalsKept
    PROVE  \A n \in Name : Pub'[n] = Pub[n]
BY PubIs DEF FinalsKept

LEMMA PubSame ==
    ASSUME \A n \in AllNames : Pub'[n] = Pub[n]
    PROVE  Pub' = Pub
BY DEF Pub

\* One name is given its content.
LEMMA PublishStep ==
    ASSUME NEW n \in AllNames, NEW c \in Contents, UNCHANGED <<marker, exposed, outages>>,
           Pub'[n] = c, \A m \in AllNames : m # n => Pub'[m] = Pub[m]
    PROVE  Promise!Next
<1>1. Pub' = [Pub EXCEPT ![n] = c]
  BY DEF Pub
<1>2. Promise!Publish(n)
  BY <1>1 DEF Promise!Publish, Pub, Contents, AllNames
<1> QED
  BY <1>2 DEF Promise!Next, AllNames

\* One name is published, or will be, without a sync.
LEMMA UnsyncedStep ==
    ASSUME NEW n \in AllNames, UNCHANGED <<Pub, marker, outages>>, exposed' = exposed \cup {n}
    PROVE  Promise!Next
<1>1. Promise!Unsynced(n)
  BY DEF Promise!Unsynced, Pub, AllNames
<1> QED
  BY <1>1 DEF Promise!Next, AllNames

\* The names of S are moved to their twins.
LEMMA MoveStep ==
    ASSUME NEW S \in SUBSET AllNames, UNCHANGED <<marker, outages>>,
           \A n \in S : TwinOf[n] # n /\ Pub[n] # None /\ Pub[TwinOf[n]] = None,
           \A n \in AllNames :
              Pub'[n] = IF n \in S THEN None
                        ELSE IF \E m \in S : TwinOf[m] = n
                             THEN Pub[CHOOSE m \in S : TwinOf[m] = n]
                             ELSE Pub[n],
           exposed' = exposed \cup {TwinOf[n] : n \in S \cap exposed}
    PROVE  Promise!Next
<1>1. Pub' = [n \in AllNames |->
                 IF n \in S THEN None
                 ELSE IF \E m \in S : TwinOf[m] = n
                      THEN Pub[CHOOSE m \in S : TwinOf[m] = n]
                      ELSE Pub[n]]
  BY DEF Pub
<1>2. Promise!Move(S)
  BY <1>1 DEF Promise!Move, Pub, TwinOf, AllNames
<1>3. S \in SUBSET {n \in AllNames : TwinOf[n] # n /\ Pub[n] # None}
  OBVIOUS
<1> QED
  BY <1>2, <1>3 DEF Promise!Next, AllNames, TwinOf, Pub

LEMMA SealStep ==
    ASSUME \A i \in Page : Pub[PageAt(i)] # None, marker', UNCHANGED <<Pub, exposed, outages>>
    PROVE  Promise!Next
<1>1. \A n \in PageName : Pub[n] # None
  BY PubIs
<1>2. Promise!Seal
  BY <1>1 DEF Promise!Seal, Pub, AllNames
<1> QED
  BY <1>2 DEF Promise!Next

\* Names are back at nothing or at a whole content, unless they are exposed.
LEMMA OutageStep ==
    ASSUME outages' = outages + 1, UNCHANGED exposed,
           \A n \in AllNames : Pub'[n] \in Contents \cup {None, Torn},
           \A n \in AllNames : Pub'[n] = Torn => n \in exposed,
           marker' => marker /\ \A n \in PageName : Pub'[n] # None
    PROVE  Promise!Next
<1>1. Pub' \in [AllNames -> Contents \cup {None, Torn}]
  BY DEF Pub
<1>2. Promise!Outage
  BY <1>1 DEF Promise!Outage, Pub, AllNames, Contents
<1> QED
  BY <1>2 DEF Promise!Next

\* A finished download gives its name a whole file.
LEMMA RenamePublishes ==
    ASSUME SavingInv, Sound, OneLink, Rename, UNCHANGED <<page, marker, outages>>
    PROVE  Promise!Next
<1> DEFINE n == job.name
           f == disk'[Final(n)]
<1>1. n \in Name /\ \A q \in Path \ {Part(n), Final(n)} : disk'[q] = disk[q]
  BY RenameIs DEF SavingInv
<1>2. PICK l \in Offers[n.ep] : f # None /\ WholeOf(f, l) /\ f \in File
  BY RenameSound
<1>3. l \in Link
  BY <1>1, LinkAssumption DEF Name
<1>4. f.blocks \in Whole
  BY <1>2, <1>3, WholeIs
<1>5. Pub'[n] = f.blocks
  BY <1>1, <1>2, <1>4, PubIs
<1>6. ASSUME NEW m \in AllNames, m # n PROVE Pub'[m] = Pub[m]
  <2>1. CASE m \in Name
    <3>1. Final(m) # Final(n) /\ Final(m) # Part(n) /\ Final(m) \in Path
      BY <1>1, <1>6, <2>1, Paths
    <3> QED
      BY <1>1, <2>1, <3>1, PubIs
  <2>2. CASE m \in PageName
    BY <2>2, PubPages
  <2> QED
    BY <1>6, <2>1, <2>2 DEF AllNames
<1>7. f.blocks \in Contents /\ n \in AllNames /\ UNCHANGED exposed
  BY <1>1, <1>4 DEF Contents, AllNames, Rename
<1> HIDE DEF n, f
<1> QED
  BY <1>5, <1>6, <1>7, PublishStep

\* The files that follow their show leave free names behind, for free ones.
LEMMA MovePublishes ==
    ASSUME SavingInv, MoveFiles, UNCHANGED <<page, marker, outages>>
    PROVE  Promise!Next
<1>1. PICK S \in SUBSET Path :
         /\ \A q \in S : /\ q.name.id = "old" /\ disk[q] # None
                         /\ InNew(q) \in Path \ S /\ disk[InNew(q)] = None
         /\ \A q \in S : disk'[InNew(q)] = disk[q] /\ disk'[q] = None
         /\ \A q \in Path \ S : (\A r \in S : InNew(r) # q) => disk'[q] = disk[q]
         /\ exposed' = exposed \cup
               {InNew(q).name : q \in {q \in S : ~q.part /\ q.name \in exposed}}
  BY MoveIs DEF SavingInv
<1> DEFINE T == {n \in Name : Final(n) \in S}
           New(n) == [n EXCEPT !.id = "new"]
<1>0. DiskType /\ T \in SUBSET AllNames
  BY DEF SavingInv, AllNames
<1>2. ASSUME NEW n \in T
      PROVE  /\ n \in Name /\ TwinOf[n] = New(n) /\ New(n) \in Name /\ New(n) # n
             /\ Final(New(n)) = InNew(Final(n)) /\ n.id = "old"
             /\ disk[Final(n)] # None /\ disk[Final(New(n))] = None
             /\ disk'[Final(New(n))] = disk[Final(n)] /\ disk'[Final(n)] = None
  <2>1. n \in Name /\ Final(n) \in S /\ Final(n) \in Path /\ Final(n).name = n /\ ~Final(n).part
    BY Paths
  <2>2. n.id = "old" /\ disk[Final(n)] # None /\ disk[InNew(Final(n))] = None
        /\ disk'[InNew(Final(n))] = disk[Final(n)] /\ disk'[Final(n)] = None
    BY <1>1, <2>1
  <2>3. New(n) \in Name /\ New(n) # n /\ TwinOf[n] = New(n)
    BY <2>1, <2>2 DEF TwinOf, AllNames, Name, Ids
  <2>4. InNew(Final(n)) \in Path /\ ~InNew(Final(n)).part /\ InNew(Final(n)).name = New(n)
    BY <2>1, NewPath
  <2>5. InNew(Final(n)) = Final(New(n))
    BY <2>4, PathIs
  <2> QED
    BY <2>1, <2>2, <2>3, <2>5
<1>3. ASSUME NEW m \in T, NEW n \in T, New(m) = New(n) PROVE m = n
  <2>1. m \in [id : Ids, ep : Episode] /\ n \in [id : Ids, ep : Episode]
        /\ m.id = "old" /\ n.id = "old"
    BY <1>2 DEF Name
  <2>2. New(m).ep = m.ep /\ New(n).ep = n.ep
    BY <2>1
  <2> QED
    BY <1>3, <2>1, <2>2
<1>4. ASSUME NEW n \in Name, n \notin T, \A m \in T : New(m) # n
      PROVE  disk'[Final(n)] = disk[Final(n)]
  <2>1. Final(n) \in Path \ S /\ Final(n).name = n /\ ~Final(n).part
    BY <1>4, Paths
  <2>2. ASSUME NEW r \in S PROVE InNew(r) # Final(n)
    <3> SUFFICES ASSUME InNew(r) = Final(n) PROVE FALSE
      OBVIOUS
    <3>1. r \in Path /\ r.name \in Name /\ ~r.part
      BY <2>1, NewPath, PathIs
    <3>2. r = Final(r.name) /\ n = New(r.name)
      BY <2>1, <3>1, NewPath, PathIs
    <3> QED
      BY <1>4, <3>1, <3>2
  <2> QED
    BY <1>1, <2>1, <2>2
<1>5. \A n \in T : TwinOf[n] # n /\ Pub[n] # None /\ Pub[TwinOf[n]] = None
  <2> TAKE n \in T
  <2>1. disk[Final(n)].blocks # None
    <3>1. n \in Name /\ disk[Final(n)] # None
      BY <1>2
    <3>2. disk[Final(n)] \in File
      BY <1>0, <3>1, Paths DEF DiskType
    <3> QED
      BY <3>2, NoneDiffers DEF File
  <2> HIDE DEF T, New
  <2> QED
    BY <1>2, <2>1, PubIs, TornIs
<1>6. ASSUME NEW n \in AllNames
      PROVE  Pub'[n] = IF n \in T THEN None
                       ELSE IF \E m \in T : TwinOf[m] = n
                            THEN Pub[CHOOSE m \in T : TwinOf[m] = n]
                            ELSE Pub[n]
  <2>t. \A m \in T : TwinOf[m] = New(m) /\ New(m) \in Name /\ m \in Name
    BY <1>2
  <2>1. CASE n \in T
    BY <1>2, <2>1, PubIs
  <2>2. CASE n \notin T /\ \E m \in T : TwinOf[m] = n
    <3>1. PICK m \in T : TwinOf[m] = n
      BY <2>2
    <3>2. (CHOOSE x \in T : TwinOf[x] = n) = m
      BY <1>3, <2>t, <3>1
    <3>3. n \in Name /\ n = New(m) /\ m \in Name
      BY <2>t, <3>1
    <3>4. disk'[Final(n)] = disk[Final(m)] /\ disk[Final(m)] # None
      BY <1>2, <3>3
    <3>5. Pub'[n] = Pub[m]
      BY <3>3, <3>4, PubIs
    <3> HIDE DEF T, New
    <3> QED
      BY <2>2, <3>2, <3>5
  <2>3. CASE n \notin T /\ ~\E m \in T : TwinOf[m] = n
    <3>1. CASE n \in Name
      <4>1. disk'[Final(n)] = disk[Final(n)]
        BY <1>4, <2>3, <2>t, <3>1
      <4> HIDE DEF T, New
      <4> QED
        BY <2>3, <3>1, <4>1, PubIs
    <3>2. CASE n \in PageName
      <4>1. Pub'[n] = Pub[n]
        BY <3>2, PubPages
      <4> HIDE DEF T, New
      <4> QED
        BY <2>3, <4>1
    <3> QED
      BY <1>6, <3>1, <3>2 DEF AllNames
  <2> QED
    BY <2>1, <2>2, <2>3
<1>7. exposed' = exposed \cup {TwinOf[n] : n \in T \cap exposed}
  <2>t. ASSUME NEW n \in T
        PROVE  /\ Final(n) \in S /\ ~Final(n).part /\ Final(n).name = n
               /\ InNew(Final(n)).name = TwinOf[n]
    <3>1. /\ n \in Name /\ Final(n) \in S /\ TwinOf[n] = New(n) /\ New(n) \in Name
          /\ Final(New(n)) = InNew(Final(n))
      BY <1>2
    <3> HIDE DEF New, T
    <3>2. Final(New(n)).name = New(n)
      BY <3>1, Paths
    <3> QED
      BY <3>1, <3>2, Paths
  <2>1. ASSUME NEW n \in T, n \in exposed
        PROVE  TwinOf[n] \in exposed'
    <3>1. Final(n) \in S /\ ~Final(n).part /\ Final(n).name = n /\ InNew(Final(n)).name = TwinOf[n]
      BY <2>t
    <3> HIDE DEF New, T
    <3> QED
      BY <1>1, <2>1, <3>1
  <2>2. ASSUME NEW q \in S, ~q.part, q.name \in exposed
        PROVE  q.name \in T /\ InNew(q).name = TwinOf[q.name]
    <3>1. q \in Path /\ q.name \in Name /\ q = Final(q.name)
      BY <2>2, PathIs
    <3>2. q.name \in T
      BY <3>1
    <3>3. InNew(Final(q.name)).name = TwinOf[q.name]
      BY <2>t, <3>2
    <3> HIDE DEF New, T
    <3> QED
      BY <3>1, <3>2, <3>3
  <2> QED
    BY <1>1, <2>1, <2>2
<1> HIDE DEF T, New
<1> QED
  BY <1>0, <1>5, <1>6, <1>7, MoveStep

\* The chapter: a page is published whole, and the seal waits for all of them.
LEMMA ChapterPublishes ==
    ASSUME SavingInv, ReadingInv, FinalsKept, Chapter, UNCHANGED outages
    PROVE  [Promise!Next]_<<Pub, marker, exposed, outages>>
<1>0. ChapterType /\ Paged
  BY DEF ReadingInv
<1>1. CASE \/ StartFetch \/ SkipPage \/ CountMismatch \/ OpenPage \/ PageReceived
           \/ PageFailed \/ Rotate \/ SyncPage \/ ReaderCrash
  <2>1. UNCHANGED <<page, marker, exposed>>
    BY <1>1 DEF StartFetch, SkipPage, CountMismatch, OpenPage, PageReceived, PageFailed, Rotate,
                SyncPage, ReaderCrash, powerVars
  <2>2. Pub' = Pub
    BY <2>1, PubPages, PubFinals, PubSame DEF AllNames
  <2> QED
    BY <2>1, <2>2
<1>2. CASE RenamePage
  <2> DEFINE i == fetch.i
             p == pagePart[i]
  <2>1. /\ fetch # None /\ fetch.pc = "rename" /\ UNCHANGED <<marker, exposed>>
        /\ page' = [page EXCEPT ![i] = p]
    BY <1>2 DEF RenamePage, FetchAt
  <2>2. i \in Page /\ p # None /\ p.whole
    BY <1>0, <2>1 DEF Paged
  <2>3. page'[i] = p /\ \A j \in Page : j # i => page'[j] = page[j]
    BY <1>0, <2>1, <2>2 DEF ChapterType
  <2> HIDE DEF i, p
  <2>4. Pub'[PageAt(i)] = <<"page">>
    BY <2>2, <2>3, PubIs
  <2>5. ASSUME NEW m \in AllNames, m # PageAt(i) PROVE Pub'[m] = Pub[m]
    <3>1. CASE m \in Name
      BY <3>1, PubFinals
    <3>2. CASE m \in PageName
      <4>1. m.page \in Page /\ m = PageAt(m.page) /\ m.page # i
        BY <2>5, <3>2, PubIs
      <4>2. page'[m.page] = page[m.page]
        BY <2>3, <4>1
      <4> QED
        BY <4>1, <4>2, PubIs
    <3> QED
      BY <2>5, <3>1, <3>2 DEF AllNames
  <2>6. PageAt(i) \in AllNames /\ <<"page">> \in Contents
    BY <2>2, PubIs DEF AllNames, Contents
  <2> QED
    BY <2>1, <2>4, <2>5, <2>6, PublishStep
<1>3. CASE MarkComplete
  <2>1. fetch # None /\ fetch.i > Pages /\ marker' /\ UNCHANGED <<page, exposed>>
    BY <1>3 DEF MarkComplete, FetchAt
  <2>2. Pub' = Pub
    BY <2>1, PubPages, PubFinals, PubSame DEF AllNames
  <2>3. ASSUME NEW i \in Page PROVE Pub[PageAt(i)] # None
    <3>1. fetch.i \in Nat /\ Pages \in Nat
      BY <1>0, <2>1, SizeAssumption DEF ChapterType, Fetch
    <3>2. i \in 1..(fetch.i - 1)
      BY <2>1, <3>1 DEF Page
    <3>3. page[i] # None
      BY <1>0, <2>1, <3>2 DEF Paged
    <3> QED
      BY <3>3, PubIs, TornIs
  <2> QED
    BY <2>1, <2>2, <2>3, SealStep
<1>4. CASE SyncPageUnheard
  <2>1. /\ UNCHANGED <<page, marker>> /\ exposed' = exposed \cup {PageAt(fetch.i)}
        /\ fetch # None /\ fetch.pc = "sync"
    BY <1>4 DEF SyncPageUnheard, FetchAt, PageAt
  <2>2. PageAt(fetch.i) \in AllNames
    BY <1>0, <2>1, PubIs DEF Paged, AllNames
  <2>3. Pub' = Pub
    BY <2>1, PubPages, PubFinals, PubSame DEF AllNames
  <2> QED
    BY <2>1, <2>2, <2>3, UnsyncedStep
<1> QED
  BY <1>1, <1>2, <1>3, <1>4 DEF Chapter

\* A power loss tears no file but the exposed ones, and the marker does not
\* outlive a page.
LEMMA PowerLossPublishes ==
    ASSUME SavingInv, ReadingInv, Sound', SavingInv', ReadingInv', PowerLoss
    PROVE  Promise!Next
<1>1. /\ marker' => marker /\ \A i \in Page : page'[i] # None
      /\ UNCHANGED exposed /\ outages' = outages + 1
  BY PowerLossPages
<1>2. ASSUME NEW n \in Name
      PROVE  Pub'[n] \in Contents \cup {None, Torn} /\ (Pub'[n] = Torn => n \in exposed)
  <2>1. Final(n) \in Path /\ Final(n).name = n /\ ~Final(n).part /\ n.ep \in Episode
    BY Paths DEF Name
  <2>2. CASE disk'[Final(n)] = None
    BY <2>2, PubIs, TornIs
  <2>3. CASE disk'[Final(n)] # None
    <3> DEFINE f == disk'[Final(n)]
    <3>1. f \in File /\ FileOK(Final(n), f, exposed)
      BY <1>1, <2>1, <2>3 DEF SavingInv, DiskType, Sound, Files
    <3>2. Pub'[n] = IF f.blocks \in Whole THEN f.blocks ELSE Torn
      BY <2>3, PubIs
    <3> HIDE DEF f
    <3>3. CASE \E l \in Offers[n.ep] : WholeOf(f, l)
      <4>1. f.blocks \in Whole
        BY <2>1, <3>1, <3>3, WholeIs, LinkAssumption
      <4> QED
        BY <3>2, <4>1, TornIs DEF Contents
    <3>4. CASE n \in exposed
      BY <3>2, <3>4 DEF Contents
    <3> QED
      BY <2>1, <3>1, <3>3, <3>4 DEF FileOK
  <2> QED
    BY <2>2, <2>3
<1>3. ASSUME NEW n \in PageName
      PROVE  /\ Pub'[n] \in Contents \cup {None, Torn} /\ (Pub'[n] = Torn => n \in exposed)
             /\ (page'[n.page] # None => Pub'[n] # None)
  <2>1. n.page \in Page /\ n = PageAt(n.page)
    BY PubIs
  <2>2. page'[n.page] # None => PageAt(n.page) \in exposed' \/ page'[n.page].whole
    BY <2>1 DEF ReadingInv, Paged
  <2>3. Pub'[n] = IF page'[n.page] = None THEN None
                  ELSE IF page'[n.page].whole THEN <<"page">> ELSE Torn
    BY <2>1, PubIs
  <2> QED
    BY <1>1, <2>1, <2>2, <2>3, TornIs DEF Contents
<1>4. marker' => marker /\ \A n \in PageName : Pub'[n] # None
  BY <1>1, <1>3, PubIs
<1> QED
  BY <1>1, <1>2, <1>3, <1>4, OutageStep DEF AllNames

LEMMA PromiseInit == Init => Promise!Init
<1> SUFFICES ASSUME Init PROVE Promise!Init
  OBVIOUS
<1>1. ~marker /\ marker = FALSE /\ exposed = {} /\ outages = 0 /\ \A q \in Path : disk[q] = None
  BY DEF Init
<1>2. \A i \in Page : page[i] = None
  BY DEF Init
<1>3. ASSUME NEW n \in AllNames PROVE Published(n) = None
  <2>1. CASE n \in Name
    BY <1>1, <2>1, Paths DEF Published
  <2>2. CASE n \in PageName
    BY <1>2, <2>2, NamesDiffer, PubIs DEF Published
  <2> QED
    BY <1>3, <2>1, <2>2 DEF AllNames
<1> QED
  BY <1>1, <1>3 DEF Promise!Init, AllNames

LEMMA PromiseNext ==
    ASSUME SavingInv, ReadingInv, JournalType, Sound, Backed, OneLink, [Next]_vars
    PROVE  /\ Sound' /\ Backed'
           /\ [Promise!Next]_<<Pub, marker, exposed, outages>>
<1>1. Sound' /\ Backed' /\ SavingInv' /\ ReadingInv'
  BY SoundNext, BackedNext, SavingNext
<1>2. CASE PowerLoss
  BY <1>1, <1>2, PowerLossPublishes
<1>3. CASE ~PowerLoss
  <2>1. UNCHANGED outages
    BY <1>3, WasIs
  <2>2. CASE FinalsKept /\ Chapter
    BY <1>1, <2>1, <2>2, ChapterPublishes
  <2>3. CASE FinalsKept /\ UNCHANGED <<page, marker>> /\ (AlreadyWhole \/ UNCHANGED exposed)
    <3>1. Pub' = Pub
      BY <2>3, PubPages, PubFinals, PubSame DEF AllNames
    <3>2. CASE UNCHANGED exposed
      BY <1>1, <2>1, <2>3, <3>1, <3>2
    <3>3. CASE AlreadyWhole
      <4>1. job.name \in AllNames /\ exposed' = exposed \cup {job.name}
        BY <3>3, JobIs DEF AlreadyWhole, At, SavingInv, AllNames
      <4> QED
        BY <1>1, <2>1, <2>3, <3>1, <4>1, UnsyncedStep
    <3> QED
      BY <2>3, <3>2, <3>3
  <2>4. CASE Rename /\ UNCHANGED <<page, marker>>
    BY <1>1, <2>1, <2>4, RenamePublishes
  <2>5. CASE MoveFiles /\ UNCHANGED <<page, marker>>
    BY <1>1, <2>1, <2>5, MovePublishes
  <2> QED
    BY <1>3, <2>2, <2>3, <2>4, <2>5, SoundNext
<1> QED
  BY <1>2, <1>3

\* The downloaders keep the promise of AtomicFiles, for any number of episodes,
\* links, blocks, pages, attempts, crashes and power losses, as long as an episode
\* that may be resumed, or written by a child left behind, has one link only: what
\* is found under a final name is one whole file, unless a power loss followed a
\* publication whose sync was not made (download.cpp, a 206 without a body) or
\* failed unheard (pages.cpp), and the chapter is marked only while every page is
\* there.
THEOREM PublishesWholeFiles == ASSUME OneLink PROVE Spec => PublishesAtomically
<1>1. Init => Promise!Init /\ SavingInv /\ ReadingInv /\ JournalType /\ Sound /\ Backed
  BY PromiseInit, SavingInit, SoundInit
<1>2. SavingInv /\ ReadingInv /\ JournalType /\ Sound /\ Backed /\ [Next]_vars
      => /\ SavingInv' /\ ReadingInv' /\ JournalType' /\ Sound' /\ Backed'
         /\ [Promise!Next]_<<Pub, marker, exposed, outages>>
  BY OneLink, SavingNext, PromiseNext
<1>3. <<Pub, marker, exposed, outages>>
      = <<[n \in Name \cup PageName |-> Published(n)], marker, exposed, outages>>
  BY DEF Pub, AllNames
<1> QED
  BY <1>1, <1>2, <1>3, PTL DEF Spec, PublishesAtomically, Promise!Spec, Pub, AllNames
=============================================================================
