---------------------------- MODULE MangaSources ----------------------------
(***************************************************************************)
(* The five sources of manga (manga/mangadex, weebcentral, dynasty,        *)
(* mangahub, nhentai): the requests each makes to search, to page through  *)
(* a ranking, to list a manga's chapters and to resolve a chapter to its   *)
(* pages, and what it makes of the replies.  How ids, names and addresses  *)
(* are spelt and vetted is left out, but that a bad one costs the chapter; *)
(* so are covers and titles.  One call runs at a time.                     *)
(***************************************************************************)
EXTENDS Fetch, Sequences, SequencesExt

CONSTANTS
    None,
    Limit,         \* kFeedLimit, kRankingLimit, kWcSearchLimit, kMhRankingPage
    MaxFeedPages,  \* kMaxFeedPages
    Window,        \* kListWindow
    MaxUploads,    \* bound: uploads of the manga's chapters on its site at first
    MaxRanked,     \* bound: manga in a ranking
    MaxChanges     \* bound: changes of the site beside the calls

VARIABLES
    source,    \* the source that is asked
    site,      \* its site: whether it knows the manga, its uploads, one chapter's pages
    held,      \* nhentai's process-wide state: the fingerprint, the servers, the turn
    call,      \* the call under way and what it has gathered
    answer     \* the last call's answer

vars == <<source, site, held, call, answer>>

Adult == "nhentai"
SourceKey == {"mangadex", "weebcentral", "dynasty", "mangahub", Adult}

\* An upload of a chapter: its number, when it was published, and whether its
\* pages can be read here (not a link elsewhere, not empty).
Upload == {u \in [num : 1..2, at : 1..2, readable : BOOLEAN] : u.readable \/ u.at = 2}
Readable(S) == {u \in S : u.readable}
Uploads == Range(site.feed)

At(s, place) == source = s /\ call # None /\ call.at = place
Go(c) == call' = c /\ UNCHANGED <<source, site, held, answer>>
Moves(c) == Go([c EXCEPT !.tried = FALSE])

\* A call ends.  What was due of it, whether the cap on pages left some of it
\* unread, and what stood in for the site's word in it, if anything did, is kept to
\* judge the answer.
Answered(out, v, taken) ==
    /\ call' = None
    /\ answer' = [out |-> out, value |-> v, due |-> call.due, offset |-> call.offset,
                  cut |-> call.fetched + 1 = MaxFeedPages
                            /\ call.offset + Limit < Len(site.feed),
                  taken |-> taken]
Taking(taken, out, v) == Answered(out, v, taken) /\ UNCHANGED <<source, site, held>>
Ends(out, v) == Taking(None, out, v)
Fail(kind) == Ends("error", kind)

-----------------------------------------------------------------------------
(* One request *)

\* mangahub's host wants a browser; nhentai is shown one once it has asked for it.
Fingerprint ==
    IF source = "mangahub" \/ (source = Adult /\ held.fingerprinted) THEN "Chrome" ELSE "None"

\* What may come with 200 in place of an answer: mangahub has one address for
\* everything, and throttles with an answer that is null.
Odd == {"junk", "challenge", "keyless"} \cup IF source = "mangahub" THEN {"throttled"} ELSE {}
Got(there) ==
    {fetch(r, "Any2xx", Fingerprint) : r \in Replies(there \/ source = "mangahub", Odd)}

\* A rate limit is waited out once.
Waits(f) == f.kind = "RateLimited" /\ ~call.tried
\* A block of nhentai's plain handshake is met with a browser's, for good; that
\* answer stands.
Escalates(f) == source = Adult /\ f.kind = "Forbidden" /\ ~held.fingerprinted

\* weebcentral: a challenge page is a block, not the site's.
Blocked(f) == source = "weebcentral" /\ f.body = "challenge"
\* mangahub: null, because the errors beside it speak of a rate limit.
Throttled(f) == source = "mangahub" /\ f.body = "throttled"

\* `odd' is what is made of a reply that is none of these, and not the site's.
Get(f, next, odd) ==
    IF Waits(f) THEN Go([call EXCEPT !.tried = TRUE])
    ELSE IF Escalates(f)
    THEN /\ held' = [held EXCEPT !.fingerprinted = TRUE]
         /\ call' = [call EXCEPT !.tried = TRUE]
         /\ UNCHANGED <<source, site, answer>>
    ELSE IF f.kind # "Ok" THEN Fail(f.kind)
    ELSE IF Blocked(f) THEN Fail("Forbidden")
    ELSE IF Throttled(f) THEN Fail("RateLimited")
    ELSE IF f.body # "site" THEN odd
    ELSE next

Asks(s, place, there, next) ==
    At(s, place) /\ \E f \in Got(there) : Get(f, next, Fail("Decode"))

\* A page is scanned for what it lists, whatever page it is.
Scans(s, place, there, next, none) ==
    At(s, place) /\ \E f \in Got(there) : Get(f, next, none)

\* JSON with rows but without their number is taken for the last of them.
Counts(s, place, there, next, last) ==
    At(s, place) /\ \E f \in Got(there) :
        Get(f, next, Fail("Decode") \/ (f.body = "keyless" /\ last))

-----------------------------------------------------------------------------
(* Searches and rankings *)

Known == IF site.known THEN {"manga"} ELSE {}
\* mangahub's rows that are not marked safe are hidden.
SafeRows == IF site.safe THEN Known ELSE {}

MangaDexSearch == Asks("mangadex", "search", TRUE, Ends("hits", Known))
WeebCentralSearch ==
    Scans("weebcentral", "search", TRUE, Ends("hits", Known), Taking("page", "hits", {}))
DynastySearch ==
    Scans("dynasty", "search", TRUE, Ends("hits", Known), Taking("page", "hits", {}))
MangaHubSearch == Asks("mangahub", "search", TRUE, Ends("hits", SafeRows))
\* nhentai asks for its servers next, if it does not know them.
NhentaiSearch ==
    Asks(Adult, "search", TRUE,
         IF held.cdn = None THEN Moves([call EXCEPT !.at = "prime", !.found = Known])
         ELSE Ends("hits", Known))

RowsHere == IF call.offset + Limit <= site.ranked THEN Limit
        ELSE IF call.offset < site.ranked THEN site.ranked - call.offset ELSE 0
Ranked(has_next) == Ends("ranking", [rows |-> RowsHere, has_next |-> has_next])
LastRanked(taken, rows) == Taking(taken, "ranking", [rows |-> rows, has_next |-> FALSE])

\* The total is the site's, up to the window that may be asked for; weebcentral
\* takes a full page to have another one after it.
MangaDexRanking ==
    Counts("mangadex", "ranking", TRUE,
           Ranked(call.offset + Limit < site.ranked /\ call.offset + 2 * Limit <= Window),
           LastRanked("keyless", RowsHere))
WeebCentralRanking ==
    IF call # None /\ call.kind = "TopRated"
    THEN At("weebcentral", "ranking") /\ Fail("Unsupported")
    ELSE Scans("weebcentral", "ranking", TRUE, Ranked(RowsHere >= Limit), LastRanked("page", 0))
MangaHubRanking ==
    IF call # None /\ call.kind = "TopRated"
    THEN At("mangahub", "ranking") /\ Fail("Unsupported")
    ELSE Counts("mangahub", "ranking", TRUE, Ranked(call.offset + Limit < site.ranked),
                LastRanked("keyless", RowsHere))
NoRanking == source \in {"dynasty", Adult} /\ At(source, "ranking") /\ Fail("Unsupported")

Searches ==
    \/ MangaDexSearch \/ WeebCentralSearch \/ DynastySearch \/ MangaHubSearch \/ NhentaiSearch
    \/ MangaDexRanking \/ WeebCentralRanking \/ MangaHubRanking \/ NoRanking

-----------------------------------------------------------------------------
(* The list of chapters *)

\* Of the uploads of a number the newest, and of equally new ones the first read.
dedupe_chapters(S) ==
    {u \in S : \A v \in S : v.num = u.num => v.at <= u.at}

\* One page of mangadex's feed, without what cannot be read here.
parse_feed(offset) ==
    Readable({site.feed[i] : i \in (1..Len(site.feed)) \cap (offset + 1)..(offset + Limit)})

\* Where the next page of the list starts, or None.
next_offset(offset, total, fetched) ==
    IF fetched >= MaxFeedPages \/ offset + Limit >= total THEN None ELSE offset + Limit

\* Any page's failure is the list's.
MangaDexChapters ==
    LET all == call.found \cup parse_feed(call.offset)
        to == next_offset(call.offset, Len(site.feed), call.fetched + 1)
    IN  Counts("mangadex", "chapters", site.known,
               IF to = None THEN Ends("chapters", dedupe_chapters(all))
               ELSE Moves([call EXCEPT !.offset = to, !.fetched = @ + 1, !.found = all]),
               Taking("keyless", "chapters", dedupe_chapters(all)))

\* The others list a manga with one request.  A number's uploads are all kept by
\* weebcentral and dynasty; mangahub answers null for a manga it does not know.
WeebCentralChapters ==
    Scans("weebcentral", "chapters", site.known, Ends("chapters", Uploads),
          Taking("page", "chapters", {}))
DynastyChapters ==
    Asks("dynasty", "chapters", site.known, Ends("chapters", Uploads))
MangaHubChapters ==
    Asks("mangahub", "chapters", site.known,
         IF site.known THEN Ends("chapters", dedupe_chapters(Uploads)) ELSE Fail("Http"))
\* A gallery is its own one chapter.
NhentaiChapters == Asks(Adult, "chapters", site.known, Ends("chapters", Uploads))

Chapters ==
    \/ MangaDexChapters \/ WeebCentralChapters \/ DynastyChapters \/ MangaHubChapters
    \/ NhentaiChapters

-----------------------------------------------------------------------------
(* The pages of a chapter *)

\* One bad name fails the whole set ("a page gap is worse than a failed
\* chapter"), and a set without pages is no set.
PageSet(n) == IF site.badName \/ n = 0 THEN Fail("Decode") ELSE Ends("pages", n)

\* mangadex: the compressed pages if they are asked for and there are any, but
\* none without the full ones.
parse_at_home ==
    IF site.pages = 0 THEN 0 ELSE IF call.saver /\ site.saver > 0 THEN site.saver ELSE site.pages

MangaDexPages == Asks("mangadex", "pages", site.known, PageSet(parse_at_home))
\* The images of another page would be the chapter's.
WeebCentralPages ==
    Scans("weebcentral", "pages", site.known, PageSet(site.pages),
          Fail("Decode") \/ Taking("page", "pages", 1))
DynastyPages == Asks("dynasty", "pages", site.known, PageSet(site.pages))
MangaHubPages ==
    Asks("mangahub", "pages", site.known, IF site.known THEN PageSet(site.pages) ELSE Fail("Http"))

\* ensure_cdn: nhentai's servers are learnt once, by a search (whose rows do not
\* wait for them to be had) or by the first chapter.
Learns(n) ==
    /\ held' = [held EXCEPT !.cdn = n]
    /\ IF call.op = "search" THEN Answered("hits", call.found, None)
       ELSE call' = [call EXCEPT !.at = "pages", !.tried = FALSE] /\ UNCHANGED answer
    /\ UNCHANGED <<source, site>>

EnsureCdn ==
    /\ At(Adult, "prime")
    /\ \E f \in Got(TRUE), servers \in 0..2 :
          LET missed == f.kind # "Ok" \/ f.body # "site" \/ servers = 0
          IN  IF missed /\ ~Waits(f) /\ ~Escalates(f) /\ call.op = "search"
                THEN Ends("hits", call.found)
              ELSE Get(f, IF servers = 0 THEN Fail("Decode") ELSE Learns(servers), Fail("Decode"))

\* Each resolution takes the next server's turn.
NhentaiPages ==
    Asks(Adult, "pages", site.known,
         IF site.badName \/ site.pages = 0 THEN Fail("Decode")
         ELSE /\ held' = [held EXCEPT !.turn = (@ + 1) % held.cdn]
              /\ Answered("pages", site.pages, None)
              /\ UNCHANGED <<source, site>>)

ChapterPages ==
    \/ MangaDexPages \/ WeebCentralPages \/ DynastyPages \/ MangaHubPages
    \/ EnsureCdn \/ NhentaiPages

-----------------------------------------------------------------------------
First(op) == IF op = "pages" /\ source = Adult /\ held.cdn = None THEN "prime" ELSE op

Ask(op, kind, page, saver) ==
    /\ call = None
    /\ call' = [op |-> op, at |-> First(op), kind |-> kind, saver |-> saver,
                offset |-> (page - 1) * Limit, fetched |-> 0, found |-> {}, tried |-> FALSE,
                due |-> IF op = "chapters" THEN dedupe_chapters(Readable(Uploads)) ELSE {}]
    /\ answer' = None
    /\ UNCHANGED <<source, site, held>>

\* The site changes beside a call: a chapter is uploaded, in the order of the
\* numbers, or one is taken down: then later ones move into the part that was
\* read, and nothing is due of the list.  Only mangadex's takes several requests.
Changes(feed) ==
    /\ site' = [site EXCEPT !.feed = feed, !.changes = @ + 1]
    /\ call' = IF Len(feed) < Len(site.feed) THEN [call EXCEPT !.due = {}] ELSE call
    /\ UNCHANGED <<source, held, answer>>

InOrder(s) == \A i \in DOMAIN s : \A j \in DOMAIN s : i < j => s[i].num <= s[j].num

SiteChanges ==
    /\ At("mangadex", "chapters") /\ site.known /\ site.changes < MaxChanges
    /\ \/ \E u \in Upload, i \in 1..(Len(site.feed) + 1) :
             LET feed == InsertAt(site.feed, i, u) IN InOrder(feed) /\ Changes(feed)
       \/ \E i \in DOMAIN site.feed : Changes(RemoveAt(site.feed, i))

Feeds == {s \in UNION {[1..n -> Upload] : n \in 0..MaxUploads} : InOrder(s)}

\* A gallery has one chapter; the ways a site can differ that a source has no
\* question about stay as they are.
Init ==
    /\ source \in SourceKey
    /\ \E known \in BOOLEAN, safe \in BOOLEAN, feed \in Feeds, pages \in 0..2,
          badName \in BOOLEAN, ranked \in 0..MaxRanked :
          /\ \E saver \in {0, pages} :
                /\ source # "mangadex" => saver = 0
                /\ site = [known |-> known, safe |-> safe, feed |-> feed, pages |-> pages,
                           saver |-> saver, badName |-> badName, ranked |-> ranked,
                           changes |-> 0]
          /\ feed # <<>> => known
          /\ ~safe => source = "mangahub"
          /\ source = Adult /\ known => Len(feed) = 1
          /\ source # "mangadex" => Readable(Range(feed)) = Range(feed)
          \* One thing at a time is out of the ordinary.
          /\ ranked # 0 => feed = <<>> /\ pages = 0
          /\ pages # 2 \/ badName => Len(feed) <= 1
    /\ held = [fingerprinted |-> FALSE, cdn |-> None, turn |-> 0]
    /\ call = None /\ answer = None

Next ==
    \/ \E op \in {"search", "chapters"} : Ask(op, None, 1, FALSE)
    \/ \E kind \in {"Popular", "TopRated"}, page \in 1..3 : Ask("ranking", kind, page, FALSE)
    \/ \E saver \in BOOLEAN : Ask("pages", None, 1, saver)
    \/ Searches \/ Chapters \/ ChapterPages
    \/ SiteChanges

Spec == Init /\ [][Next]_vars

-----------------------------------------------------------------------------
\* Properties.

\* What may stand in for the site's word that there is nothing, or no more: a page
\* that is not the site's, JSON without the number of its rows.
Unheard ==
    {<<"weebcentral", out, "page">> : out \in {"hits", "ranking", "chapters", "pages"}}
    \cup {<<"dynasty", "hits", "page">>, <<"mangadex", "ranking", "keyless">>,
          <<"mangadex", "chapters", "keyless">>, <<"mangahub", "ranking", "keyless">>}

\* An answer the site was heard for is whole or an error.  A chapter list ("the
\* full deduped chapter list", manga/source.hpp:98) has every number that could be
\* read when it was asked for, in the newest upload, however many pages the list
\* took and whatever was uploaded meanwhile - unless a chapter was taken down while
\* the pages were read, or the pages ran out first; a chapter resolves to all its
\* pages; a ranking that says it ends has ended; a search that finds nothing was of
\* a manga the site has not, or hides.  Unheard, an answer may be short
\* in the ways of `Unheard' and in no other.
WholeAnswers ==
    answer # None /\ answer.out # "error" =>
        IF answer.taken # None
          THEN <<source, answer.out, answer.taken>> \in Unheard
          ELSE CASE answer.out = "hits" -> answer.value = {} => ~site.known \/ ~site.safe
                 [] answer.out = "ranking" ->
                       answer.value.has_next \/ answer.offset + Limit >= site.ranked
                           \/ answer.offset + 2 * Limit > Window
                 [] answer.out = "chapters" ->
                       answer.cut \/ \A u \in answer.due :
                           \E v \in answer.value : v.num = u.num /\ v.at >= u.at
                 [] answer.out = "pages" -> answer.value \in {site.pages, site.saver} \ {0}
=============================================================================
