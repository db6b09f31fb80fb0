---------------------------- MODULE EpisodeWalk ----------------------------
(***************************************************************************)
(* How the interface finds a source for a show: the resolve walk over the  *)
(* providers (resolve.cpp, tui/resolve_transport.cpp), the pre-warm of its *)
(* siblings (tui/prewarm.cpp) and the play continuation that hops to a     *)
(* sibling when a play fails (tui/app.cpp), over the store's bindings,     *)
(* absences, pins, routes and cached listings (store.cpp).                 *)
(*                                                                         *)
(* The interface thread runs every handler; fetches, searches and probes   *)
(* run on detached workers and answer through the queue.  A worker whose   *)
(* generation was bumped since is not `live': a counter that only grows is *)
(* current for the last worker and for no other.                           *)
(*                                                                         *)
(* One translation track; episodes are left out: a grid is the listing     *)
(* that was fetched for a show, on a provider, under a provider-side id.   *)
(***************************************************************************)
EXTENDS Naturals, FiniteSets, Sequences

CONSTANTS Shows, Providers, Ids,
          Registry,     \* the providers in construction order
          GlobalPref,   \* config preferred_provider; None = unset
          Key,          \* Key[show][provider]: the id it derives, or None
          Hits,         \* Hits[show][provider]: ids its search may match best
          None,
          MaxGestures,  \* bound: user gestures, CLI runs and restarts
          MaxExpiries   \* bound: cached answers that go out of date

ASSUME RegistryAssumption ==
  /\ None \notin Shows \cup Providers \cup Ids
  /\ Registry \in Seq(Providers)
  /\ \A p \in Providers : \E i \in DOMAIN Registry : Registry[i] = p
  /\ \A i, k \in DOMAIN Registry : Registry[i] = Registry[k] => i = k
  /\ GlobalPref \in Providers \cup {None}

ASSUME SitesAssumption ==
  /\ Key \in [Shows -> [Providers -> Ids \cup {None}]]
  /\ Hits \in [Shows -> [Providers -> SUBSET Ids]]

ASSUME BoundsAssumption == MaxGestures \in Nat /\ MaxExpiries \in Nat

VARIABLES
  db,      \* the store: bindings, absences, pins, routes, cached listings
  s,       \* EpisodeSession
  jobs,    \* workers whose answer has not been handled
  warm,    \* PrewarmState::run_, or None
  play,    \* App::play, or None when no play is active
  cont,    \* App::play_continuation, or None
  log,     \* history: what was asked since the last gesture, what was forced
  gestures, expiries

vars == <<db, s, jobs, warm, play, cont, log, gestures, expiries>>

-----------------------------------------------------------------------------
(* State *)

OrNone(S) == S \cup {None}

Listing == [show : Shows, provider : Providers, id : Ids]

\* A walk's provider snapshot and the positions it has not tried yet.
Walk == [origin : {"fallback", "flip", "forced"}, order : Seq(Providers),
         left : SUBSET Nat, sweep : BOOLEAN]

Store == [bind   : [Shows -> [Providers -> OrNone(Ids)]],
          absent : [Shows -> SUBSET Providers],
          cache  : [Shows -> [Providers -> OrNone(Ids)]],
          pin    : [Shows -> OrNone(Providers)],
          route  : [Shows -> OrNone(Providers)]]

Session == [show : OrNone(Shows), serving : OrNone(Providers),
            id : OrNone(Ids), listing : OrNone(Listing),
            noSource : BOOLEAN, loading : BOOLEAN, mint : BOOLEAN,
            walk : OrNone(Walk), aim : OrNone(Providers)]

Job == [kind : {"fetch", "search", "probe"}, show : Shows,
        provider : Providers, id : OrNone(Ids), live : BOOLEAN]

\* A run that waits out its gap still has a provider to probe.
Warm == {run \in [show : Shows, todo : SUBSET Providers, out : BOOLEAN,
                  yielding : BOOLEAN] :
           run.out \/ (run.todo # {} /\ ~run.yielding)}

Play == [show : Shows, provider : Providers, up : BOOLEAN]

Continuation == [show : Shows, tried : SUBSET Providers]

Log == [asks : [Providers -> 0..2], passed : SUBSET Providers,
        forced : [Shows -> 0..2]]

\* None stands for the lack of a walk, a run, a play or a continuation.
ASSUME NoneIsNothing ==
  None \notin Walk /\ None \notin Warm /\ None \notin Play /\ None \notin Continuation

TypeOK ==
  /\ db \in Store
  /\ s \in Session
  /\ jobs \subseteq Job
  /\ warm \in OrNone(Warm)
  /\ play \in OrNone(Play)
  /\ cont \in OrNone(Continuation)
  /\ log \in Log
  /\ gestures \in 0..MaxGestures
  /\ expiries \in 0..MaxExpiries

\* EpisodeSession::reset, then for_id_ (None: nothing open yet).
Blank(show) ==
  [show |-> show, serving |-> None, id |-> None, listing |-> None,
   noSource |-> FALSE, loading |-> FALSE, mint |-> FALSE, walk |-> None,
   aim |-> None]

NothingAsked == [p \in Providers |-> 0]

Init ==
  /\ db = [bind   |-> [x \in Shows |-> [p \in Providers |-> None]],
           absent |-> [x \in Shows |-> {}],
           cache  |-> [x \in Shows |-> [p \in Providers |-> None]],
           pin    |-> [x \in Shows |-> None],
           route  |-> [x \in Shows |-> None]]
  /\ s = Blank(None)
  /\ jobs = {}
  /\ warm = None /\ play = None /\ cont = None
  /\ log = [asks |-> NothingAsked, passed |-> {},
            forced |-> [x \in Shows |-> 0]]
  /\ gestures = 0 /\ expiries = 0

\* What a handler of the session reads and rewrites.
World == [db |-> db, s |-> s, jobs |-> jobs, log |-> log]

Becomes(w) == db' = w.db /\ s' = w.s /\ jobs' = w.jobs /\ log' = w.log

-----------------------------------------------------------------------------
(* The store *)

Bound(d, show, p) == d.bind[show][p] # None

\* bind_provider: takes the edge from any other show, clears the absence.
WithBinding(d, show, p, id) ==
  [d EXCEPT
     !.bind = [x \in Shows |->
                 [d.bind[x] EXCEPT
                    ![p] = IF x = show THEN id ELSE IF @ = id THEN None ELSE @]],
     !.absent[show] = @ \ {p}]

WithAbsence(d, show, p) == [d EXCEPT !.absent[show] = @ \cup {p}]

Owners(d, p, id) == {x \in Shows : d.bind[x][p] = id}

-----------------------------------------------------------------------------
(* The engine: resolve.cpp *)

EffectivePref(d, show) ==
  IF d.pin[show] # None THEN d.pin[show] ELSE GlobalPref

\* Registry order with the preferred provider moved to the front.
Ordered(pref) ==
  IF pref = None THEN Registry
  ELSE LET k == CHOOSE i \in DOMAIN Registry : Registry[i] = pref
       IN  [i \in DOMAIN Registry |->
              IF i = 1 THEN pref
              ELSE IF i <= k THEN Registry[i - 1] ELSE Registry[i]]

First(S) == CHOOSE k \in S : \A i \in S : k <= i

WalkOver(origin, order, burned, sweep) ==
  [origin |-> origin, order |-> order, sweep |-> sweep,
   left |-> {i \in DOMAIN order : order[i] \notin burned}]

Fallback(d, show, burned) ==
  WalkOver("fallback", Ordered(EffectivePref(d, show)), burned, FALSE)

PinFlip(target) == WalkOver("flip", <<target>>, {}, FALSE)

ForcedPreferred(pref) == WalkOver("forced", <<pref>>, {}, FALSE)

ContinueOverAll(w) == WalkOver("fallback", Ordered(w.order[1]), {}, TRUE)

\* The law a forced walk ends by: every other provider, bindings first.
Continue(w) == WalkOver("fallback", Ordered(w.order[1]), {w.order[1]}, TRUE)

Swept(d, show, w) ==
  IF w.sweep THEN {i \in w.left : Bound(d, show, w.order[i])} ELSE {}

\* A fresh absence is skipped unless the walk is manual or has a binding.
Probed(d, show, w) ==
  {i \in w.left : \/ Bound(d, show, w.order[i])
                  \/ w.origin # "fallback"
                  \/ w.order[i] \notin d.absent[show]}

HasHop(d, show, w) == Probed(d, show, w) # {}

Choice(d, show, w) ==
  First(IF Swept(d, show, w) # {} THEN Swept(d, show, w)
                                  ELSE Probed(d, show, w))

Advanced(d, show, w) ==
  LET k == Choice(d, show, w)
  IN  [w EXCEPT !.sweep = FALSE,
                !.left = IF Swept(d, show, w) # {} THEN @ \ {k}
                         ELSE {i \in @ : i > k}]

-----------------------------------------------------------------------------
(* The transport: EpisodeSession *)

SupersededNone(J) == J

\* Bumping the session's generation.
Superseded(J) ==
  {IF j.kind = "probe" THEN j ELSE [j EXCEPT !.live = FALSE] : j \in J}

Asked(l, p) == [l EXCEPT !.asks[p] = IF @ < 2 THEN @ + 1 ELSE @]

Fire(w, kind, p, id, mint) ==
  [w EXCEPT !.s.mint = mint, !.s.loading = TRUE,
            !.jobs = Superseded(@) \cup
                     {[kind |-> kind, show |-> w.s.show, provider |-> p,
                       id |-> id, live |-> TRUE]}]

FireFetch(w, p, id, mint) == Fire(w, "fetch", p, id, mint)

FireSearch(w, p) == Fire(w, "search", p, None, FALSE)

ListingOf(show, p, id) == [show |-> show, provider |-> p, id |-> id]

\* The one landing point: it ends the walk, from the network or the cache.
Land(w, p, id, listing) ==
  [w EXCEPT !.s.noSource = FALSE, !.s.loading = FALSE, !.s.serving = p,
            !.s.id = id, !.s.listing = listing, !.s.walk = None,
            !.s.aim = None]

\* Paint a bound provider from the cache, else fetch its listing.
OpenBound(w, p) ==
  LET id     == w.db.bind[w.s.show][p]
      cached == w.db.cache[w.s.show][p]
  IN  IF cached # None THEN Land(w, p, id, ListingOf(w.s.show, p, cached))
                       ELSE FireFetch(w, p, id, FALSE)

\* Try one provider: its binding, else its key, else its search.
Try(w, p) ==
  LET v   == [w EXCEPT !.log = Asked(@, p)]
      key == Key[w.s.show][p]
  IN  IF Bound(w.db, w.s.show, p) THEN OpenBound(v, p)
      ELSE IF key # None THEN FireFetch(v, p, key, TRUE)
      ELSE FireSearch(v, p)

Hop(w) ==
  LET k == Choice(w.db, w.s.show, w.s.walk)
      skipped == IF Swept(w.db, w.s.show, w.s.walk) # {} THEN {}
                 ELSE {w.s.walk.order[i] : i \in {i \in w.s.walk.left : i < k}}
  IN  Try([w EXCEPT !.s.walk = Advanced(w.db, w.s.show, @),
                    !.log.passed = @ \cup skipped],
          w.s.walk.order[k])

NoSource(w) ==
  IF w.s.serving = None THEN [w EXCEPT !.s.noSource = TRUE] ELSE w

\* A flip that finds nothing keeps the pin and the grid; any other dead end
\* gives up, and says so when there is no grid.
Exhausted(w) ==
  LET idle == [w EXCEPT !.s.walk = None, !.s.aim = None, !.s.loading = FALSE,
                        !.log.passed = @ \cup {w.s.walk.order[i] :
                                               i \in w.s.walk.left}]
  IN  IF w.s.walk.origin = "flip" THEN idle ELSE NoSource(idle)

Proceed(w) ==
  IF HasHop(w.db, w.s.show, w.s.walk) THEN Hop(w) ELSE Exhausted(w)

AdvanceOneWalk(w) == IF w.s.walk = None THEN NoSource(w) ELSE Proceed(w)

AdvanceWalk(w) ==
  IF w.s.walk = None THEN NoSource(w)
  ELSE IF w.s.walk.origin = "forced" /\ ~HasHop(w.db, w.s.show, w.s.walk)
       THEN Proceed([w EXCEPT !.s.walk = Continue(@), !.s.aim = None])
       ELSE Proceed(w)

FailOver(w, p) ==
  AdvanceWalk(IF w.s.walk # None THEN w
              ELSE [w EXCEPT !.s.walk = Fallback(w.db, w.s.show, {p})])

\* classify_open: a binding anywhere, else a key anywhere, else a search walk.
EngageClassify(w) ==
  LET order == Ordered(EffectivePref(w.db, w.s.show))
      held  == {i \in DOMAIN order : Bound(w.db, w.s.show, order[i])}
      keyed == {i \in DOMAIN order : Key[w.s.show][order[i]] # None}
  IN  IF held # {} THEN Try(w, order[First(held)])
      ELSE IF keyed # {} THEN Try(w, order[First(keyed)])
      ELSE AdvanceWalk([w EXCEPT !.s.walk = Fallback(w.db, w.s.show, {})])

\* The preferred re-route: the stamp is written, then the provider is forced.
EngageForced(w) ==
  LET v == [w EXCEPT !.db.route[w.s.show] = GlobalPref,
                     !.log.forced[w.s.show] = IF @ < 2 THEN @ + 1 ELSE @]
  IN  IF \/ Bound(w.db, w.s.show, GlobalPref)
         \/ Key[w.s.show][GlobalPref] # None
      THEN Try(v, GlobalPref)
      ELSE AdvanceWalk([v EXCEPT !.s.aim = GlobalPref,
                                 !.s.walk = ForcedPreferred(GlobalPref)])

Engage(w, show) ==
  LET v == [w EXCEPT !.s = Blank(show), !.jobs = Superseded(@),
                     !.log.asks = NothingAsked, !.log.passed = {}]
  IN  IF w.db.pin[show] # None \/ GlobalPref = None THEN EngageClassify(v)
      ELSE IF w.db.route[show] # GlobalPref THEN EngageForced(v)
      ELSE IF Bound(w.db, show, GlobalPref) THEN Try(v, GlobalPref)
      ELSE EngageClassify(v)

\* Already answered, loading or given up: opening the show again does nothing.
Held(show) ==
  s.show = show /\ (s.loading \/ s.serving # None \/ s.noSource)

StaleIfIdle(j) == ~s.loading

IsStale(j) == ~j.live \/ s.show # j.show

-----------------------------------------------------------------------------
(* The play continuation *)

\* maybe_continue_play, with the play and the continuation it finds.
Continues(w, pl, c) ==
  IF pl # None \/ c = None THEN play' = pl /\ cont' = c
  ELSE IF w.s.show # c.show \/ w.s.noSource THEN play' = pl /\ cont' = None
  ELSE IF w.s.loading \/ w.s.serving = None THEN play' = pl /\ cont' = c
  ELSE IF w.s.serving \in c.tried THEN play' = pl /\ cont' = None
  ELSE \/ /\ play' = [show |-> c.show, provider |-> w.s.serving, up |-> FALSE]
          /\ cont' = c
       \/ play' = pl /\ cont' = None    \* the episode is not on this source

-----------------------------------------------------------------------------
(* Gestures *)

Gesture == gestures < MaxGestures /\ gestures' = gestures + 1

\* PrewarmState::cancel
Yielded ==
  IF warm # None /\ warm.out THEN [warm EXCEPT !.yielding = TRUE] ELSE None

Open(show) ==
  /\ Gesture
  /\ warm' = Yielded
  /\ Becomes(IF Held(show) THEN World ELSE Engage(World, show))
  /\ UNCHANGED <<play, cont, expiries>>

\* unpinned, then each provider in turn, then unpinned.
NextPin(pin) ==
  LET at == IF pin = None THEN 0
            ELSE CHOOSE i \in DOMAIN Registry : Registry[i] = pin
  IN  IF at + 1 \in DOMAIN Registry THEN Registry[at + 1] ELSE None

CyclePin ==
  /\ Gesture
  /\ warm' = Yielded
  /\ LET next   == NextPin(db.pin[s.show])
         pinned == [World EXCEPT !.db.pin[s.show] = next]
     IN  Becomes(IF s.show = None \/ s.loading \/ s.serving = None THEN World
                 ELSE IF next \in {None, s.serving} THEN pinned
                 ELSE AdvanceWalk([pinned EXCEPT
                        !.s.aim = next, !.s.walk = PinFlip(next),
                        !.log.asks = NothingAsked, !.log.passed = {}]))
  /\ UNCHANGED <<play, cont, expiries>>

\* Enter on a cell of the grid.
PlayFocused ==
  /\ Gesture
  /\ play = None /\ s.serving # None
  /\ play' = [show |-> s.show, provider |-> s.serving, up |-> FALSE]
  /\ cont' = None
  /\ log' = [log EXCEPT !.asks = [NothingAsked EXCEPT ![s.serving] = 1],
                        !.passed = {}]
  /\ UNCHANGED <<db, s, jobs, warm, expiries>>

-----------------------------------------------------------------------------
(* Answers to the session *)

Answered(w, j) == [w EXCEPT !.jobs = @ \ {j}]

Heard(w, j) == [Answered(w, j) EXCEPT !.s.loading = FALSE]

\* Every episode event, stale or not, gives the continuation its chance.
Rides(w) ==
  /\ Becomes(w)
  /\ Continues(w, play, cont)
  /\ UNCHANGED <<warm, gestures, expiries>>

Dropped(j) == IsStale(j) /\ Rides(Answered(World, j))

\* A listing: bind it if it was minted, cache it, land it.
Listed(w, j) ==
  LET d == IF w.s.mint THEN WithBinding(w.db, j.show, j.provider, j.id)
                       ELSE w.db
  IN  Land([w EXCEPT !.db = [d EXCEPT !.cache[j.show][j.provider] = j.id],
                     !.s.mint = FALSE],
           j.provider, j.id, ListingOf(j.show, j.provider, j.id))

\* An empty listing: not stocked there.
NotStocked(w, j) ==
  FailOver([w EXCEPT !.db = WithAbsence(@, j.show, j.provider),
                     !.s.mint = FALSE], j.provider)

EpisodesDone(j) ==
  /\ j.kind = "fetch"
  /\ \/ Dropped(j)
     \/ ~IsStale(j) /\ Rides(Listed(Heard(World, j), j))
     \/ ~IsStale(j) /\ Rides(NotStocked(Heard(World, j), j))

EpisodesError(j) ==
  /\ j.kind = "fetch" /\ ~IsStale(j)
  /\ Rides(FailOver(Heard(World, j), j.provider))

\* A search: its best match is fetched; a miss or an error moves the walk on.
SearchDone(j) ==
  /\ j.kind = "search"
  /\ \/ Dropped(j)
     \/ /\ ~IsStale(j)
        /\ \E id \in Hits[j.show][j.provider] :
             Rides(FireFetch(Heard(World, j), j.provider, id, TRUE))
     \/ ~IsStale(j) /\ Rides(AdvanceWalk(Heard(World, j)))

-----------------------------------------------------------------------------
(* Pre-warm *)

\* candidates: what is neither bound nor known to be absent.
Unchecked(show) ==
  {p \in Providers : ~Bound(db, show, p) /\ p \notin db.absent[show]}

NextCandidate(todo) ==
  Registry[First({i \in DOMAIN Registry : Registry[i] \in todo})]

\* Send the next probe of a run.
Spawned(run) == [run EXCEPT !.todo = @ \ {NextCandidate(run.todo)}, !.out = TRUE]

Probe(run) ==
  [kind |-> "probe", show |-> run.show, provider |-> NextCandidate(run.todo),
   id |-> None, live |-> TRUE]

\* PrewarmState::fire; time spacing and the ring only make it do nothing.
FireWarm(show) ==
  LET run == [show |-> show, todo |-> Unchecked(show), out |-> FALSE,
              yielding |-> FALSE]
  IN  /\ warm = None /\ Unchecked(show) # {}
      /\ warm' = Spawned(run)
      /\ jobs' = jobs \cup {Probe(run)}

AddToLibrary(show) ==
  /\ Gesture
  /\ (play # None => play.up) /\ ~s.loading /\ s.walk = None /\ s.aim = None
  /\ FireWarm(show)
  /\ UNCHANGED <<db, s, play, cont, log, expiries>>

\* A position of the running play: mpv is up.
PositionUpdate ==
  /\ play # None
  /\ play' = [play EXCEPT !.up = TRUE]
  /\ \/ UNCHANGED <<warm, jobs>>
     \/ s.show = play.show /\ ~s.loading /\ FireWarm(play.show)
  /\ UNCHANGED <<db, s, cont, log, gestures, expiries>>

\* The run after a probe came home: over, or waiting out the gap.
Home(run) ==
  IF run = None \/ run.yielding \/ run.todo = {} THEN None
  ELSE [run EXCEPT !.out = FALSE]

MintAny(j, id) ==
  IF warm # None THEN WithBinding(db, j.show, j.provider, id) ELSE db

\* A find is bound only if no other show holds that edge.
MintFound(j, id) ==
  IF warm # None /\ Owners(db, j.provider, id) \subseteq {j.show}
  THEN WithBinding(db, j.show, j.provider, id) ELSE db

ProbeFinds(j) ==
  IF Key[j.show][j.provider] # None THEN {Key[j.show][j.provider]}
                                    ELSE Hits[j.show][j.provider]

PrewarmResult(j) ==
  /\ j.kind = "probe"
  /\ jobs' = jobs \ {j}
  /\ warm' = Home(warm)
  /\ \/ \E id \in ProbeFinds(j) : db' = MintFound(j, id)
     \/ db' = IF warm # None THEN WithAbsence(db, j.show, j.provider) ELSE db
     \/ UNCHANGED db
  /\ UNCHANGED <<s, play, cont, log, gestures, expiries>>

\* The gap is over: the next probe.
PrewarmTick ==
  /\ warm # None /\ ~warm.out
  /\ warm' = Spawned(warm)
  /\ jobs' = jobs \cup {Probe(warm)}
  /\ UNCHANGED <<db, s, play, cont, log, gestures, expiries>>

-----------------------------------------------------------------------------
(* Plays *)

PlayDone ==
  /\ play # None
  /\ play' = None /\ cont' = None
  /\ UNCHANGED <<db, s, jobs, warm, log, gestures, expiries>>

\* play_fail_over: only when no fetch and no walk is under way.
PlayFailOver(w, burned) ==
  IF w.s.loading \/ w.s.walk # None THEN w
  ELSE AdvanceWalk([w EXCEPT !.s.walk = Fallback(w.db, w.s.show, burned),
                             !.s.aim = None])

Burned ==
  [show |-> play.show,
   tried |-> {play.provider} \cup
             (IF cont # None /\ cont.show = play.show THEN cont.tried ELSE {})]

\* A failed play starts the count of what is asked anew: what it burned, once.
FailureSeen ==
  [World EXCEPT !.log.passed = {},
                !.log.asks = [p \in Providers |->
                                IF p \in Burned.tried THEN 1 ELSE 0]]

\* The source failed under the play: hop past every source it burned.
PlaySourceFails ==
  /\ play # None
  /\ IF s.show = play.show /\ s.serving = play.provider
     THEN LET w == PlayFailOver(FailureSeen, Burned.tried)
          IN  Becomes(w) /\ Continues(w, None, Burned)
     ELSE Becomes(World) /\ play' = None /\ cont' = None
  /\ UNCHANGED <<warm, gestures, expiries>>

\* mpv is missing or crashed: no source can help.
PlayerFails ==
  /\ play # None
  /\ play' = None /\ cont' = None
  /\ UNCHANGED <<db, s, jobs, warm, log, gestures, expiries>>

-----------------------------------------------------------------------------
(* Time, another process, restart *)

Expires ==
  /\ expiries < MaxExpiries /\ expiries' = expiries + 1
  /\ \E show \in Shows, p \in Providers :
       \/ /\ p \in db.absent[show]
          /\ db' = [db EXCEPT !.absent[show] = @ \ {p}]
       \/ /\ db.cache[show][p] # None
          /\ db' = [db EXCEPT !.cache[show][p] = None]
  /\ UNCHANGED <<s, jobs, warm, play, cont, log, gestures>>

\* `shigoku play' binds the hit its user picked.
CliBind ==
  /\ Gesture
  /\ \E show \in Shows, p \in Providers : \E id \in Hits[show][p] :
       db' = WithBinding(db, show, p, id)
  /\ UNCHANGED <<s, jobs, warm, play, cont, log, expiries>>

Restart ==
  /\ Gesture
  /\ s' = Blank(None) /\ jobs' = {}
  /\ warm' = None /\ play' = None /\ cont' = None
  /\ log' = [log EXCEPT !.asks = NothingAsked, !.passed = {}]
  /\ UNCHANGED <<db, expiries>>

-----------------------------------------------------------------------------

Next ==
  \/ \E show \in Shows : Open(show) \/ AddToLibrary(show)
  \/ CyclePin
  \/ PlayFocused
  \/ \E j \in jobs : \/ EpisodesDone(j) \/ EpisodesError(j)
                     \/ SearchDone(j) \/ PrewarmResult(j)
  \/ PrewarmTick
  \/ PositionUpdate \/ PlayDone \/ PlaySourceFails \/ PlayerFails
  \/ Expires \/ CliBind \/ Restart

Spec == Init /\ [][Next]_vars

-----------------------------------------------------------------------------
(* Properties *)

SessionJobs == {j \in jobs : j.kind # "probe"}

\* A grid was asked for the show that is open and on the provider it is played
\* from, however answers of older opens and walks arrive
\* (resolve_transport.cpp, is_stale).
GridIsOfTheOpenShow ==
  s.serving # None => /\ s.listing.show = s.show
                      /\ s.listing.provider = s.serving

\* The loading mark is up exactly while one answer it waits for is on its way:
\* if none were, the show could never be opened again (engage holds it), nor a
\* pin be cycled, nor a failed play rescued.
LoadingIsAnswered ==
  s.loading <=> Cardinality({j \in SessionJobs : j.live}) = 1

\* A walk is never left behind: it would hold play_fail_over and the pre-warm
\* off for as long as the show is open.
WalkIsMoving == (s.walk # None \/ s.aim # None) => s.loading

\* An armed continuation with no play has an answer to ride on, so it is taken
\* up or retired and never fires out of the blue.
ContinuationRides == (cont # None /\ play = None) => SessionJobs # {}

\* Whatever the interface shows as under way has a worker that will end it: the
\* loading mark, the walk and the continuation (resolve_transport.cpp,
\* maybe_continue_play).
NothingIsStranded == LoadingIsAnswered /\ WalkIsMoving /\ ContinuationRides

\* From an opening, a pin flip or a failed play on, no provider is tried twice:
\* through forced walks, their continuation and failed fetches; and the walk of
\* a failed play asks no provider a play of this continuation failed on.
NoProviderTwice == \A p \in Providers : log.asks[p] <= 1

\* A show is forced to the preferred provider once, whatever interrupts the
\* probe: another show, a dead end, a restart.
ForcedOnce == \A show \in Shows : log.forced[show] <= 1

\* No site is asked more than it has to be (resolve.cpp, Walk; engage_forced).
AsksOnce == NoProviderTwice /\ ForcedOnce

\* "No source" is said only after every provider was tried or skipped for a
\* fresh absence.
NoSourceIsHonest ==
  s.noSource => \A p \in Providers : log.asks[p] > 0 \/ p \in log.passed

\* A probe's find never takes an edge from another show.
WarmNeverSteals ==
  [][\A j \in jobs \ jobs' : j.kind = "probe" =>
       \A show \in Shows \ {j.show} : db'.bind[show] = db.bind[show]]_vars
=============================================================================
