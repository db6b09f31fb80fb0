------------------------------ MODULE Sources ------------------------------
(* The seven sources of episodes (senshi, anidbapp, animehub, megaplay,       *)
(* hianime, anibd, anilibria): the requests each makes to search, to list the *)
(* episodes of a show and to resolve one of them to a stream, and what it     *)
(* makes of the replies.  A reply's data is a fact about the site; how it is  *)
(* spelt, sealed and guarded against bad addresses is left out, and so are    *)
(* covers, titles, the choice of a quality and single rows that cannot be     *)
(* read, which are skipped.  One call runs at a time.                         *)
EXTENDS Fetch, Sequences, SequencesExt

CONSTANTS
    None,
    Servers,       \* bound: servers, players and cards a page lists
    MaxNumber      \* bound: the site's episode numbers

VARIABLES
    source,    \* the source that is asked
    site,      \* its site: whether it knows the show, and the show's episodes
    keys,      \* the key senshi and megaplay hold for the process
    call,      \* the call under way and what it has learnt
    answer,    \* the last call's answer
    listed     \* history: the last listing, label -> the site's number

vars == <<source, site, keys, call, answer, listed>>

Track == {"sub", "dub"}
Number == 1..MaxNumber

Sorted(S) == SetToSortSeq(S, <)
\* The site's episodes of one track; what is dubbed is a prefix of the episodes.
Stock(t) ==
    IF t = "sub" THEN site.eps
    ELSE {n \in site.eps : \E i \in 1..site.dubs : Sorted(site.eps)[i] = n}

\* Labels and what they name; only anidbapp's labels are not the numbers.
Labelled(S, offset) == [l \in {n - offset : n \in S} |-> l + offset]

At(s, place) == source = s /\ call # None /\ call.at = place
\* What a page of the site says; another one says nothing.
Says(f, fact) == f.body = "site" /\ fact

Go(c) == call' = c /\ UNCHANGED <<source, site, keys, answer, listed>>
To(place) == Go([call EXCEPT !.at = place])

\* A call ends.  A listing is remembered, to compare what is played with it; and
\* so is what stood in for the site's data in the answer, if anything did.
Answers(out, v, taken) ==
    /\ call' = None
    /\ answer' = [op |-> call.op, track |-> call.track, label |-> call.label,
                  stock |-> call.stock, known |-> call.known,
                  out |-> out, value |-> v, taken |-> taken]
    /\ listed' = IF out = "list" THEN v ELSE listed
    /\ UNCHANGED <<source, site, keys>>
Ends(out, v) == Answers(out, v, call.taken)
Fail(kind) == Ends("error", kind)

\* Nothing found, for want of the site's word: the question was not asked, or
\* the reply had none of what it asks for.
Without(what) ==
    IF call.op = "search" THEN Answers("hits", {}, what)
    ELSE IF call.op = "episodes" THEN Answers("list", Labelled({}, 0), what)
    ELSE Fail("Decode")

\* Most requests are checked alike: a failure ends the call, and so does JSON that
\* does not parse or has not what was asked for.
Json(f, next) ==
    IF f.kind # "Ok" THEN Fail(f.kind) ELSE IF f.body # "site" THEN Fail("Decode") ELSE next
\* Some readers take JSON without it as `none'; two of them want a page in it, but
\* take any page.
Lax(f, next, none) ==
    IF f.kind = "Ok" /\ f.body = "keyless"
      THEN none \/ (source \in {"hianime", "animehub"} /\ Fail("Decode"))
      ELSE Json(f, next)
\* A page is scanned for rows, and one that is not the site's has none.
Scan(f, next) ==
    IF f.kind # "Ok" THEN Fail(f.kind) ELSE IF f.body # "site" THEN Without("page") ELSE next
\* One that is looked through for a link must have it.
Page(f, fact, next) ==
    IF f.kind # "Ok" THEN Fail(f.kind) ELSE IF Says(f, fact) THEN next ELSE Fail("Decode")

Browser == IF source = "anidbapp" THEN "Chrome" ELSE "None"
Data(there) == {fetch(r, "Any2xx", Browser) : r \in Replies(there, {"junk", "keyless"})}
Html(there) == {fetch(r, "Any2xx", Browser) : r \in Replies(there, {"junk", "challenge"})}

Hits == IF site.known THEN {"show"} ELSE {}
Link(n) == [ep |-> n, track |-> call.track]

-----------------------------------------------------------------------------
(* senshi (senshi.cpp) *)

SenshiSearch ==
    /\ At("senshi", "search")
    /\ \E f \in Data(TRUE) : Lax(f, Ends("hits", Hits), Without("keyless"))

parse_episodes(S) == Labelled({n \in S : n > 0}, 0)

SenshiEpisodes ==
    /\ At("senshi", "list")
    /\ \E f \in Data(site.known) : Json(f, Ends("list", parse_episodes(Stock("sub"))))

\* pick_embed: the first of the rows that score best for the track; a row
\* without the track's name does not score.
pick_embed(n) == {t \in Track : n \in Stock(t) /\ t = call.track}

\* A row with a remote id is opened by the site's runtime under Node, or by the
\* older endpoint with the bundle's key; a row without one carries its stream.
SenshiEmbeds ==
    /\ At("senshi", "embeds")
    /\ \E f \in Data(call.label \in site.eps) :
          Json(f, IF pick_embed(call.label) = {} THEN Fail("Decode")
                  ELSE IF site.odd /\ site.node THEN To("runtime")
                  ELSE IF keys = "none" THEN To("bundle")
                  ELSE IF site.odd THEN To("sources") ELSE To("cap"))

\* bundle_key: the site's page, its index script, the watch page's script; the
\* first miss lands on the key built in.  Either is kept for the process.
SenshiBundle ==
    /\ At("senshi", "bundle")
    /\ \E scripts \in 0..3 :
          /\ keys' = IF scripts = 3 THEN "live" ELSE "baked"
          /\ call' = [call EXCEPT !.at = IF site.odd THEN "sources" ELSE "cap"]
    /\ UNCHANGED <<source, site, answer, listed>>

SenshiRuntime ==
    /\ At("senshi", "runtime")
    /\ \E kind \in {"Ok", "Network", "Decode"} :
          IF kind = "Ok" THEN To("cap") ELSE Fail(kind)

\* sources_get and parse_sources: its stream, or an answer without one.
SenshiSources ==
    /\ At("senshi", "sources")
    /\ \E f \in Data(TRUE), stream \in BOOLEAN :
          Json(f, IF stream THEN To("cap") ELSE Fail("Decode"))

\* cap_variant: whatever its one request comes to, there is a stream to play.
SenshiCap ==
    /\ At("senshi", "cap")
    /\ IF call.track = "sub" /\ ~site.odd
         THEN Go([call EXCEPT !.at = "subtitle", !.left = 4])
         ELSE Ends("link", Link(call.label))

\* fetch_subtitle: four tries at the sidecar, then none.
SenshiSubtitle ==
    /\ At("senshi", "subtitle")
    /\ \E f \in Data(TRUE) :
          IF f.body = "site" \/ call.left = 1 THEN Ends("link", Link(call.label))
          ELSE Go([call EXCEPT !.left = @ - 1])

Senshi ==
    \/ SenshiSearch \/ SenshiEpisodes \/ SenshiEmbeds \/ SenshiBundle
    \/ SenshiRuntime \/ SenshiSources \/ SenshiCap \/ SenshiSubtitle

-----------------------------------------------------------------------------
(* anidbapp (anidbapp.cpp) *)

\* page_get: a challenge served with 200 is a block, not an answer.
Unblocked(f, next) ==
    IF f.kind # "Ok" THEN Fail(f.kind)
    ELSE IF f.body = "challenge" THEN Fail("Forbidden") ELSE next

\* A query that is too short is not asked.
AniDbSearch ==
    /\ At("anidbapp", "search")
    /\ \/ Without("unasked")
       \/ \E f \in Html(TRUE) :
             Unblocked(f, Scan(f, IF Hits = {} THEN Ends("hits", {})
                                  ELSE \E n \in 1..Servers :
                                          Go([call EXCEPT !.at = "ids", !.left = n])))

\* probe_ids, of each card: a block ends the search, another failure costs the
\* card its ids.
AniDbProbe ==
    /\ At("anidbapp", "ids")
    /\ \E f \in Html(TRUE) :
          IF f.kind = "Forbidden" \/ f.body = "challenge" THEN Fail("Forbidden")
          ELSE IF call.left = 1 THEN Ends("hits", {"show"})
          ELSE Go([call EXCEPT !.left = @ - 1])

\* A series' later seasons count on from the earlier ones; labels start at 1.
base_offset(S) == IF S = {} THEN 0 ELSE Sorted(S)[1] - 1

\* Mutant: the label is taken for the site's number.
RawNumber(label, S) == label
SiteNumber(label, S) == label + base_offset(S)

AniDbEpisodes ==
    /\ At("anidbapp", "list")
    /\ \E f \in Data(site.known) :
          Lax(f, IF call.op = "resolve" THEN
                    IF SiteNumber(call.label, site.eps) \in site.eps
                      THEN Go([call EXCEPT !.at = "languages",
                                           !.num = SiteNumber(call.label, site.eps)])
                      ELSE Fail("Decode")
                 ELSE IF call.track = "sub"
                      THEN Ends("list", Labelled(site.eps, base_offset(site.eps)))
                 ELSE IF site.eps = {} THEN Ends("list", Labelled({}, 0))
                 ELSE Go([call EXCEPT !.at = "first", !.list = Sorted(site.eps)]),
              Without("keyless"))

\* The languages of one episode: resolve wants its own track's row.
AniDbLanguages ==
    /\ At("anidbapp", "languages")
    /\ \E f \in Data(TRUE) :
          Json(f, IF call.num \in Stock(call.track) THEN To("embed") ELSE Fail("Decode"))

AniDbEmbed ==
    /\ At("anidbapp", "embed")
    /\ \E f \in Html(TRUE) :
          Unblocked(f, Page(f, TRUE, Ends("link", Link(call.num))))

\* dub_prefix: the first episode, the last, then by halves to the last dubbed one;
\* a reply without the languages says that the episode is not dubbed.
HasDub(f, k) == Says(f, call.list[k] \in Stock("dub"))
Taken(f) == IF f.body = "site" THEN call.taken ELSE f.body

\* Both sources that bisect list what they have found.
Firsts(f, k) ==
    LET S == {call.list[i] : i \in 1..k}
    IN  Answers("list", Labelled(S, IF source = "anidbapp" THEN call.list[1] - 1 ELSE 0),
                Taken(f))

ProbeFirst(f) ==
    IF ~HasDub(f, 1) THEN Firsts(f, 0)
    ELSE IF Len(call.list) = 1 THEN Firsts(f, 1) ELSE To("last")
ProbeLast(f) ==
    IF HasDub(f, Len(call.list)) THEN Firsts(f, Len(call.list))
    ELSE IF Len(call.list) = 2 THEN Firsts(f, 1)
    ELSE Go([call EXCEPT !.at = "mid", !.lo = 1, !.hi = Len(call.list), !.taken = Taken(f)])
ProbeMid(f) ==
    LET mid == call.lo + (call.hi - call.lo) \div 2
        lo == IF HasDub(f, mid) THEN mid ELSE call.lo
        hi == IF HasDub(f, mid) THEN call.hi ELSE mid
    IN  IF hi - lo > 1 THEN Go([call EXCEPT !.lo = lo, !.hi = hi, !.taken = Taken(f)])
        ELSE Firsts(f, lo)

Dubs(s) ==
    \E f \in Data(TRUE) :
       \/ At(s, "first") /\ Lax(f, ProbeFirst(f), ProbeFirst(f))
       \/ At(s, "last") /\ Lax(f, ProbeLast(f), ProbeLast(f))
       \/ At(s, "mid") /\ Lax(f, ProbeMid(f), ProbeMid(f))
AniDbDubs == Dubs("anidbapp")

AniDbApp ==
    \/ AniDbSearch \/ AniDbProbe \/ AniDbEpisodes \/ AniDbLanguages \/ AniDbEmbed
    \/ AniDbDubs

-----------------------------------------------------------------------------
(* hianime (hianime.cpp) *)

HianimeSearch ==
    /\ At("hianime", "search")
    /\ \E f \in Html(TRUE) : Scan(f, Ends("hits", Hits))

HianimeEpisodes ==
    /\ At("hianime", "list")
    /\ \E f \in Data(site.known) :
          Lax(f, IF call.op = "resolve"
                   THEN IF call.label \in site.eps THEN To("servers") ELSE Fail("Decode")
                 ELSE IF call.track = "sub" THEN Ends("list", Labelled(site.eps, 0))
                 ELSE IF site.eps = {} THEN Ends("list", Labelled({}, 0))
                 ELSE Go([call EXCEPT !.at = "first", !.list = Sorted(site.eps)]),
              Without("keyless"))

HianimeDubs == Dubs("hianime")

\* find_zokoanime_hash: the server's row of the wanted track.
HianimeServers ==
    /\ At("hianime", "servers")
    /\ \E f \in Data(TRUE) :
          Json(f, IF call.label \in Stock(call.track) THEN To("embed") ELSE Fail("Decode"))

HianimeEmbed ==
    /\ At("hianime", "embed")
    /\ \E f \in Html(TRUE) : Page(f, TRUE, Ends("link", Link(call.label)))

Hianime ==
    HianimeSearch \/ HianimeEpisodes \/ HianimeDubs \/ HianimeServers \/ HianimeEmbed

-----------------------------------------------------------------------------
(* anilibria (anilibria.cpp): one voice track for both translations *)

\* An empty query is not asked.
AniLibriaSearch ==
    /\ At("anilibria", "search")
    /\ Without("unasked") \/ \E f \in Data(TRUE) : Json(f, Ends("hits", Hits))

\* fetch_release: a release blocked for this place is a block, not an absence.
Release(f, next) ==
    Lax(f, IF site.odd THEN Fail("Forbidden") ELSE next, Without("keyless"))

AniLibriaRelease ==
    /\ At("anilibria", "list")
    /\ \E f \in Data(site.known) :
          Release(f, IF call.op = "episodes" THEN Ends("list", Labelled(site.eps, 0))
                     ELSE IF call.label \in site.eps
                     THEN Ends("link", [ep |-> call.label, track |-> "voice"])
                     ELSE Fail("Decode"))

-----------------------------------------------------------------------------
(* anibd (anibd.cpp): keyed by the AniList id, no search *)

\* The labels are those of every group; a link is looked for in the track's own.
episode_labels == Labelled(Stock("sub") \cup Stock("dub"), 0)
find_link(n) == n \in Stock(call.track)

AniBdCatalog ==
    /\ At("anibd", "list")
    /\ \E f \in Data(TRUE) :
          Json(f, IF call.op = "episodes" THEN Ends("list", episode_labels)
                  ELSE IF find_link(call.label) THEN To("players") ELSE Fail("Decode"))

AniBdPlayers ==
    /\ At("anibd", "players")
    /\ \E f \in Data(TRUE), n \in 0..Servers :
          Json(f, IF n = 0 THEN Fail("Decode")
                  ELSE Go([call EXCEPT !.at = "player", !.left = n]))

\* A player that fails, or shows no stream, leaves the next one to try.
AniBdPlayer ==
    /\ At("anibd", "player")
    /\ \E f \in Html(TRUE) :
          IF Says(f, TRUE) THEN Ends("link", Link(call.label))
          ELSE IF call.left = 1 THEN Fail("Decode")
          ELSE Go([call EXCEPT !.left = @ - 1])

AniBd == AniBdCatalog \/ AniBdPlayers \/ AniBdPlayer

-----------------------------------------------------------------------------
(* megaplay (megaplay.cpp): keyed by the MyAnimeList id, no search, no list *)

\* labels: as many as the caller's hint says, once episode 1 is there.
MegaPlayEpisodes ==
    /\ At("megaplay", "list")
    /\ \E f \in Html(TRUE), hint \in Number :
          Scan(f, Ends("list", Labelled(IF 1 \in Stock("sub") THEN 1..hint ELSE {}, 0)))

MegaPlayEmbed ==
    /\ At("megaplay", "embed")
    /\ \E f \in Html(TRUE) :
          Page(f, call.label \in Stock(call.track), To("sources"))

\* The envelope's script is fetched for the first sealed answer.
MegaPlaySources ==
    /\ At("megaplay", "sources")
    /\ \E f \in Data(TRUE) :
          Json(f, IF site.odd /\ keys = "none" THEN To("script") ELSE To("cues"))

\* envelope: any miss lands on the pair built in; either is kept.
MegaPlayScript ==
    /\ At("megaplay", "script")
    /\ \E f \in Html(TRUE) : keys' = IF Says(f, TRUE) THEN "live" ELSE "baked"
    /\ call' = [call EXCEPT !.at = "cues"]
    /\ UNCHANGED <<source, site, answer, listed>>

\* map_sources may find no stream; the subtitle probes never cost one.
MegaPlayCues ==
    /\ At("megaplay", "cues")
    /\ Ends("link", Link(call.label)) \/ Fail("Decode")

MegaPlay ==
    \/ MegaPlayEpisodes \/ MegaPlayEmbed \/ MegaPlaySources \/ MegaPlayScript
    \/ MegaPlayCues

-----------------------------------------------------------------------------
(* animehub (animehub.cpp): the dubbed show is a show of its own *)

\* A query with no letter or digit of ASCII is not asked.
AnimeHubSearch ==
    /\ At("animehub", "search")
    /\ Without("unasked") \/ \E f \in Html(TRUE) : Scan(f, Ends("hits", Hits))

\* The grid of a show that is not there answers with a server error; so may the
\* grid of one that is.
Grid ==
    IF Stock(call.track) # {} THEN Data(TRUE)
    ELSE {f \in Data(FALSE) : f.status # 404}

AnimeHubEpisodes ==
    /\ At("animehub", "list")
    /\ \E f \in Grid :
          IF f.kind = "Server" /\ call.track = "dub" THEN To("page")
          ELSE Lax(f, Ends("list", Labelled(Stock(call.track), 0)), Without("keyless"))

\* Mutant: whatever is wrong with the show's page, there is no dub.
NoPage(f) == f.kind # "Ok"
NoSuchShow(f) == f.kind = "Http" /\ f.status = 404

\* A dub that failed at the grid: its page tells whether there is such a show.
AnimeHubPage ==
    /\ At("animehub", "page")
    /\ \E f \in Html(Stock("dub") # {}) :
          IF NoSuchShow(f) THEN Ends("list", Labelled({}, 0)) ELSE Fail("Server")

AnimeHubFilm ==
    /\ At("animehub", "film")
    /\ \E f \in Grid, n \in 1..Servers :
          Json(f, IF call.label \in Stock(call.track)
                    THEN Go([call EXCEPT !.at = "info", !.left = n])
                    ELSE Fail("Decode"))

\* resolve_on: three requests at each server; the last server's failure is told.
NextServer(kind) ==
    IF call.left = 1 THEN Fail(kind) ELSE Go([call EXCEPT !.at = "info", !.left = @ - 1])
OnServer(f, next) ==
    IF f.kind # "Ok" THEN NextServer(f.kind)
    ELSE IF f.body # "site" THEN NextServer("Decode") ELSE next

AnimeHubServer ==
    \/ At("animehub", "info") /\ \E f \in Data(TRUE) : OnServer(f, To("embed"))
    \/ At("animehub", "embed") /\ \E f \in Html(TRUE) : OnServer(f, To("player"))
    \/ At("animehub", "player") /\ \E f \in Html(TRUE) :
          OnServer(f, Ends("link", Link(call.label)))

AnimeHub ==
    AnimeHubSearch \/ AnimeHubEpisodes \/ AnimeHubPage \/ AnimeHubFilm \/ AnimeHubServer

-----------------------------------------------------------------------------
\* What each call asks first; anibd and megaplay have no search.
First(op) ==
    IF op = "search" THEN "search"
    ELSE IF op = "episodes" THEN "list"
    ELSE CASE source = "senshi" -> "embeds"
           [] source = "animehub" -> "film"
           [] source = "megaplay" -> "embed"
           [] OTHER -> "list"

Searches == source \notin {"anibd", "megaplay"}

Ask(op, track, label) ==
    /\ call = None
    /\ op = "resolve" => listed # None /\ label \in DOMAIN listed
    /\ op = "search" => Searches
    /\ call' = [op |-> op, track |-> track, label |-> label, at |-> First(op),
                stock |-> Stock(track), known |-> site.known,
                num |-> 0, list |-> <<>>, lo |-> 0, hi |-> 0, left |-> 0, taken |-> None]
    /\ answer' = None
    /\ UNCHANGED <<source, site, keys, listed>>

\* The site changes beside: a first or a next episode, or the dub of one.
Grows ==
    /\ \/ \E n \in Number :
             /\ site.known /\ n \notin site.eps /\ \A m \in site.eps : m < n
             /\ site.eps # {} => n - 1 \in site.eps
             /\ source # "anidbapp" /\ site.eps = {} => n = 1
             /\ site' = [site EXCEPT !.eps = @ \cup {n}]
       \/ site.dubs < Len(Sorted(site.eps)) /\ site' = [site EXCEPT !.dubs = @ + 1]
    /\ UNCHANGED <<source, keys, call, answer, listed>>

\* `odd' is what each site has a second form of: senshi's rows with a remote id,
\* megaplay's sealed answers, a release of anilibria blocked for this place.
Sites(s) ==
    {[known |-> k, eps |-> S, dubs |-> d, odd |-> o, node |-> n] :
        k \in BOOLEAN,
        S \in {a..b : a \in IF s = "anidbapp" THEN 1..2 ELSE {1}, b \in 0..MaxNumber},
        d \in 0..MaxNumber, o \in BOOLEAN, n \in BOOLEAN}

Init ==
    /\ source \in {"senshi", "anidbapp", "hianime", "anilibria", "anibd", "megaplay", "animehub"}
    /\ site \in Sites(source)
    /\ site.eps # {} => site.known
    /\ site.dubs <= Len(Sorted(site.eps))
    /\ site.odd => source \in {"senshi", "megaplay", "anilibria"}
    /\ site.node => source = "senshi"
    /\ keys = "none" /\ call = None /\ answer = None /\ listed = None

Next ==
    \/ \E op \in {"search", "episodes"}, t \in Track : Ask(op, t, 0)
    \/ \E t \in Track, l \in Number : Ask("resolve", t, l)
    \/ Senshi \/ AniDbApp \/ Hianime \/ AniLibriaSearch \/ AniLibriaRelease
    \/ AniBd \/ MegaPlay \/ AnimeHub
    \/ Grows

Spec == Init /\ [][Next]_vars

-----------------------------------------------------------------------------
\* Properties.

Numbers == {answer.value[l] : l \in DOMAIN answer.value}

\* What may stand in for the site's word that there is nothing, or no more: a page
\* that is not the site's, JSON without what was asked for, a query not asked.
Unheard ==
    {<<"senshi", "search", "keyless">>,
     <<"anidbapp", "search", "unasked">>, <<"anidbapp", "search", "page">>,
     <<"anidbapp", "episodes", "keyless">>,
     <<"hianime", "search", "page">>, <<"hianime", "episodes", "keyless">>,
     <<"anilibria", "search", "unasked">>, <<"anilibria", "episodes", "keyless">>,
     <<"megaplay", "episodes", "page">>,
     <<"animehub", "search", "unasked">>, <<"animehub", "search", "page">>,
     <<"animehub", "episodes", "keyless">>}

\* An answer the site was heard for is the whole truth or an error, however many
\* requests it took and whatever was added meanwhile: a search that finds nothing,
\* and a listing, say what the site had when it was asked (megaplay's length is the
\* caller's).  Heard or not, nothing is listed that the site has not; and a site
\* is taken to have nothing unheard in the ways of `Unheard' and in no other.
HonestAnswers ==
    answer # None /\ answer.out \in {"hits", "list"} =>
        /\ answer.taken = None =>
              CASE answer.out = "hits" -> answer.value = {} => ~answer.known
                [] source = "megaplay" -> Numbers = {} => answer.stock = {}
                [] OTHER -> answer.stock \subseteq Numbers
        /\ answer.taken # None => <<source, answer.op, answer.taken>> \in Unheard
        /\ answer.out = "list" /\ source # "megaplay" => Numbers \subseteq site.eps

\* provider.hpp:134: "Ok(empty) = authoritative NOT STOCKED (mark absence);
\* cannot-answer MUST be an error".  A listing is empty only if the site has no
\* episode of the track (megaplay.cpp:527 names its own rule: a page without the
\* id is the site's word).  The code violates it.
EmptyIsNotStocked ==
    answer # None /\ answer.out = "list" /\ source # "megaplay" /\ answer.stock # {}
        => Numbers # {}

\* What a label resolves to is the episode the listing gave that label, in the
\* track that was asked for, however the list was fetched again meanwhile.
PlaysWhatIsListed ==
    answer # None /\ answer.out = "link" =>
        /\ answer.label \in DOMAIN listed /\ answer.value.ep = listed[answer.label]
        /\ answer.value.track \in {answer.track, "voice"}
=============================================================================
