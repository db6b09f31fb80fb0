-------------------------- MODULE EpisodeWalkProofs --------------------------
(* Theorems about EpisodeWalk for any shows, any registry of providers, any  *)
(* keys and search answers and any bounds.  The handlers of the interface    *)
(* thread are functions on a world (store, session, workers, history); the   *)
(* lemmas say what each of them makes of a world, and the theorems follow    *)
(* from what holds of the world between two handlers.                        *)
EXTENDS EpisodeWalk, FiniteSetTheorems, WellFoundedInduction, TLAPS

Worlds == [db : Store, s : Session, jobs : SUBSET Job, log : Log]

Live(J)    == {j \in J : j.kind # "probe" /\ j.live}
Waiting(J) == {j \in J : j.kind # "probe"}
Probes(J)  == {j \in J : j.kind = "probe"}

\* What every world of the interface thread has in common, in the middle of a
\* handler too.
Plain(w) ==
    /\ w \in Worlds
    /\ \A p \in Providers : w.log.asks[p] <= 1
    /\ w.s.serving # None => /\ w.s.show \in Shows
                             /\ w.s.listing.show = w.s.show
                             /\ w.s.listing.provider = w.s.serving

Covered(w, p) == w.log.asks[p] > 0 \/ p \in w.log.passed

\* A walk that has providers to try has asked none of them; a fallback walk
\* without a grid has every other one behind it, and a forced walk has asked
\* nobody but the provider it is forced to.
WalkFits(w) ==
    LET k == w.s.walk IN
    /\ \A i, j \in DOMAIN k.order : k.order[i] = k.order[j] => i = j
    /\ k.left \subseteq DOMAIN k.order
    /\ \A i \in k.left : w.log.asks[k.order[i]] = 0 /\ k.order[i] # w.s.serving
    /\ k.origin = "flip" => w.s.serving # None /\ DOMAIN k.order = {1}
    /\ k.origin = "forced" =>
         /\ w.s.serving = None /\ DOMAIN k.order = {1}
         /\ \A p \in Providers \ {k.order[1]} : w.log.asks[p] = 0
         /\ 1 \in k.left \/ w.log.asks[k.order[1]] > 0
    /\ k.origin = "fallback" /\ w.s.serving = None =>
         \A p \in Providers : Covered(w, p) \/ \E i \in k.left : k.order[i] = p

\* Only the walk, the provider that serves and the log are looked at.
LEMMA WalkFitsKept ==
    ASSUME NEW w, NEW v, WalkFits(w),
           v.s.walk = w.s.walk, v.s.serving = w.s.serving, v.log = w.log
    PROVE  WalkFits(v)
BY DEF WalkFits, Covered

\* What it says of the providers a walk has to try.
LEMMA LeftUntried ==
    ASSUME NEW w, WalkFits(w), NEW i \in w.s.walk.left
    PROVE  /\ i \in DOMAIN w.s.walk.order
           /\ w.s.walk.order[i] # w.s.serving
           /\ w.log.asks[w.s.walk.order[i]] = 0
BY DEF WalkFits

\* And what it asks of a walk through the registry.
LEMMA RegistryWalkFits ==
    ASSUME NEW w, w.s.walk.origin \notin {"flip", "forced"},
           \A i, j \in DOMAIN w.s.walk.order :
               w.s.walk.order[i] = w.s.walk.order[j] => i = j,
           w.s.walk.left \subseteq DOMAIN w.s.walk.order,
           \A i \in w.s.walk.left : /\ w.log.asks[w.s.walk.order[i]] = 0
                                    /\ w.s.walk.order[i] # w.s.serving,
           w.s.serving = None =>
             \A p \in Providers :
                 Covered(w, p) \/ \E i \in w.s.walk.left : w.s.walk.order[i] = p
    PROVE  WalkFits(w)
BY DEF WalkFits

\* In the middle of a handler: no answer is awaited.
Ready(w) ==
    /\ Plain(w)
    /\ w.s.show \in Shows /\ ~w.s.loading /\ ~w.s.noSource
    /\ Live(w.jobs) = {}
    /\ w.s.walk # None => WalkFits(w)

\* Between two handlers: the answer that is awaited, if any, is the session's.
Awaited(w, j) ==
    /\ Live(w.jobs) = {j} /\ j.show = w.s.show /\ w.s.show \in Shows
    /\ j.kind = "fetch" => j.id \in Ids
    /\ IF w.s.walk # None
       THEN WalkFits(w) /\ (w.s.walk.origin # "fallback" => w.s.walk.left = {})
       ELSE /\ j.kind = "fetch" /\ w.s.serving = None /\ w.s.aim = None
            /\ w.log.asks[j.provider] > 0
            /\ \A p \in Providers \ {j.provider} : w.log.asks[p] = 0

Sound(w) ==
    /\ Plain(w)
    /\ IF w.s.loading
       THEN ~w.s.noSource /\ \E j \in w.jobs : Awaited(w, j)
       ELSE /\ Live(w.jobs) = {} /\ w.s.walk = None /\ w.s.aim = None
            /\ w.s.show = None \/ w.s.serving # None \/ w.s.noSource
    /\ w.s.noSource => w.s.serving = None /\ \A p \in Providers : Covered(w, p)

-----------------------------------------------------------------------------
\* Orders of providers.

\* The first of a nonempty set of positions is one of them, before the others.
LEMMA FirstIsLeast ==
    ASSUME NEW S, S \subseteq Nat, S # {}
    PROVE  First(S) \in S /\ \A i \in S : First(S) <= i
<1>1. PICK k \in S : \A i \in S : ~(<<i, k>> \in OpToRel(<, Nat))
  BY NatLessThanWellFounded, WFMin
<1>2. \A i \in S : k <= i
  <2> SUFFICES ASSUME NEW i \in S, ~(k <= i) PROVE FALSE
    OBVIOUS
  <2>1. i \in Nat /\ k \in Nat /\ i < k
    OBVIOUS
  <2>2. <<i, k>> \in OpToRel(<, Nat)
    BY <2>1 DEF OpToRel
  <2> QED
    BY <1>1, <2>2
<1> QED
  BY <1>1, <1>2 DEF First

\* The registry names every provider once, and so does every order made of it.
LEMMA OrderIsPermutation ==
    ASSUME NEW pref \in OrNone(Providers)
    PROVE  /\ Ordered(pref) \in Seq(Providers)
           /\ \A i, j \in DOMAIN Ordered(pref) :
                Ordered(pref)[i] = Ordered(pref)[j] => i = j
           /\ \A p \in Providers : \E i \in DOMAIN Ordered(pref) : Ordered(pref)[i] = p
<1>0. /\ Registry \in Seq(Providers)
      /\ \A p \in Providers : \E i \in DOMAIN Registry : Registry[i] = p
      /\ \A i, j \in DOMAIN Registry : Registry[i] = Registry[j] => i = j
      /\ None \notin Providers
  BY RegistryAssumption
<1>1. CASE pref = None
  BY <1>0, <1>1 DEF Ordered
<1>2. CASE pref # None
  <2> DEFINE k == CHOOSE i \in DOMAIN Registry : Registry[i] = pref
             n == Len(Registry)
             o == [i \in DOMAIN Registry |->
                     IF i = 1 THEN pref
                     ELSE IF i <= k THEN Registry[i - 1] ELSE Registry[i]]
  <2>1. Ordered(pref) = o /\ pref \in Providers
    BY <1>2 DEF Ordered, OrNone
  <2>2. k \in DOMAIN Registry /\ Registry[k] = pref
    BY <1>0, <2>1
  <2>3. n \in Nat /\ DOMAIN Registry = 1..n /\ \A i \in 1..n : Registry[i] \in Providers
    BY <1>0
  <2> HIDE DEF k, n
  <2>4. \A i \in 1..n : o[i] = IF i = 1 THEN pref
                               ELSE IF i <= k THEN Registry[i - 1] ELSE Registry[i]
    BY <2>3
  <2>5. DOMAIN o = 1..n
    BY <2>3
  <2> HIDE DEF o
  <2>6. o \in Seq(Providers)
    <3>1. \A i \in 1..n : o[i] \in Providers
      BY <2>1, <2>2, <2>3, <2>4
    <3>2. o = [i \in 1..n |-> o[i]]
      BY <2>3 DEF o
    <3> QED
      BY <2>3, <3>1, <3>2
  <2>7. ASSUME NEW i \in 1..n, NEW j \in 1..n, o[i] = o[j], i < j PROVE FALSE
    <3>1. o[j] = IF j <= k THEN Registry[j - 1] ELSE Registry[j]
      BY <2>3, <2>4, <2>7
    <3>2. CASE i = 1
      <4>1. Registry[k] = IF j <= k THEN Registry[j - 1] ELSE Registry[j]
        BY <2>2, <2>3, <2>4, <2>7, <3>1, <3>2
      <4> QED
        BY <1>0, <2>2, <2>3, <2>7, <3>2, <4>1
    <3>3. CASE i # 1
      <4>1. o[i] = IF i <= k THEN Registry[i - 1] ELSE Registry[i]
        BY <2>4, <3>3
      <4> QED
        BY SMTT(60), <1>0, <2>2, <2>3, <2>7, <3>1, <3>3, <4>1
    <3> QED
      BY <3>2, <3>3
  <2>8. \A i, j \in 1..n : o[i] = o[j] => i = j
    <3> SUFFICES ASSUME NEW i \in 1..n, NEW j \in 1..n, o[i] = o[j] PROVE i = j
      OBVIOUS
    <3>1. i < j \/ j < i \/ i = j
      BY <2>3
    <3> QED
      BY <2>7, <3>1
  <2>9. ASSUME NEW p \in Providers PROVE \E i \in 1..n : o[i] = p
    <3>1. PICK i \in 1..n : Registry[i] = p
      BY <1>0, <2>3
    <3>2. CASE i = k
      BY <2>2, <2>3, <2>4, <3>1, <3>2
    <3>3. CASE i < k
      <4>1. i + 1 \in 1..n /\ i + 1 # 1 /\ i + 1 <= k /\ (i + 1) - 1 = i
        BY <2>2, <2>3, <3>3
      <4>2. o[i + 1] = Registry[i]
        BY <2>4, <4>1
      <4> QED
        BY <3>1, <4>1, <4>2
    <3>4. CASE i > k
      <4>1. i # 1 /\ ~(i <= k)
        BY <2>2, <2>3, <3>4
      <4>2. o[i] = Registry[i]
        BY <2>4, <4>1
      <4> QED
        BY <3>1, <4>2
    <3> QED
      BY <2>2, <2>3, <3>2, <3>3, <3>4
  <2> QED
    BY <2>1, <2>5, <2>6, <2>8, <2>9
<1> QED
  BY <1>1, <1>2

-----------------------------------------------------------------------------
\* What firing and landing make of a world.

\* What a handler of the walk leaves as it was.
Follows(w, v) ==
    /\ v.db = w.db /\ v.s.show = w.s.show /\ v.log.forced = w.log.forced
    /\ Probes(v.jobs) = Probes(w.jobs)
    /\ Waiting(w.jobs) # {} => Waiting(v.jobs) # {}
    /\ v.s.walk # None =>
         /\ v.s.serving = w.s.serving
         /\ w.s.walk # None /\ w.s.serving # None => v.s.walk.origin = w.s.walk.origin

\* Raising the session's generation leaves no answer awaited and every probe alone.
LEMMA SupersededIs ==
    ASSUME NEW J \in SUBSET Job
    PROVE  /\ Superseded(J) \in SUBSET Job
           /\ Live(Superseded(J)) = {}
           /\ Probes(Superseded(J)) = Probes(J)
           /\ Waiting(J) # {} => Waiting(Superseded(J)) # {}
<1> DEFINE Dead(j) == IF j.kind = "probe" THEN j ELSE [j EXCEPT !.live = FALSE]
<1>1. \A j \in J : Dead(j) \in Job /\ Dead(j).kind = j.kind
                   /\ (j.kind # "probe" => ~Dead(j).live) /\ (j.kind = "probe" => Dead(j) = j)
  BY DEF Job
<1>2. Superseded(J) = {Dead(j) : j \in J}
  BY DEF Superseded
<1> HIDE DEF Dead
<1>3. Probes(Superseded(J)) = Probes(J)
  BY <1>1, <1>2 DEF Probes
<1>4. Waiting(J) # {} => Waiting(Superseded(J)) # {}
  BY <1>1, <1>2 DEF Waiting
<1> QED
  BY <1>1, <1>2, <1>3, <1>4 DEF Live

\* The worker that is fired.
Worker(w, kind, p, id) ==
    [kind |-> kind, show |-> w.s.show, provider |-> p, id |-> id, live |-> TRUE]

Asking == {"fetch", "search"}
Flag   == BOOLEAN

\* What a fired worker makes of a world.
Fired(w, kind, p, id, v) ==
    /\ v \in Worlds /\ v.db = w.db /\ v.log = w.log
    /\ v.s.loading /\ v.s.show = w.s.show /\ v.s.serving = w.s.serving
    /\ v.s.listing = w.s.listing /\ (v.s.noSource <=> w.s.noSource)
    /\ v.s.walk = w.s.walk /\ v.s.aim = w.s.aim
    /\ Worker(w, kind, p, id) \in v.jobs
    /\ Live(v.jobs) = {Worker(w, kind, p, id)}
    /\ Probes(v.jobs) = Probes(w.jobs)

\* begin_resolve: after a request the session awaits that answer and no other.
LEMMA FireIs ==
    ASSUME NEW w, w \in Worlds, w.s.show \in Shows, NEW kind \in Asking,
           NEW p \in Providers, NEW id \in OrNone(Ids), NEW mint \in Flag,
           NEW v, v = Fire(w, kind, p, id, mint)
    PROVE  Fired(w, kind, p, id, v)
<1> DEFINE j == Worker(w, kind, p, id)
<1>1. v = [w EXCEPT !.s = [@ EXCEPT !.mint = mint, !.loading = TRUE],
                    !.jobs = Superseded(@) \cup {j}]
  BY DEF Fire, Worker, Worlds, Session
<1>2. j \in Job /\ j.kind # "probe" /\ j.live
  BY DEF Job, Worker, Asking
<1>3. w.s \in Session /\ w.jobs \in SUBSET Job
  BY DEF Worlds
<1> HIDE DEF j
<1>4. /\ v.db = w.db /\ v.log = w.log
      /\ v.s = [w.s EXCEPT !.mint = mint, !.loading = TRUE]
      /\ v.jobs = Superseded(w.jobs) \cup {j}
  BY <1>1 DEF Worlds
<1>5. /\ v.s \in Session
      /\ v.s.loading /\ v.s.show = w.s.show /\ v.s.serving = w.s.serving
      /\ v.s.listing = w.s.listing /\ (v.s.noSource <=> w.s.noSource)
      /\ v.s.walk = w.s.walk /\ v.s.aim = w.s.aim
  BY <1>3, <1>4 DEF Session, Flag
<1>6. v \in Worlds
  BY <1>1, <1>2, <1>3, <1>4, <1>5, SupersededIs DEF Worlds
<1>7. Live(v.jobs) = {j} /\ Probes(v.jobs) = Probes(w.jobs)
  BY <1>2, <1>3, <1>4, SupersededIs DEF Live, Probes
<1> QED
  BY <1>4, <1>5, <1>6, <1>7 DEF Fired, j

\* When a fetch or a search may be fired: by a walk, or for the one provider
\* that was tried outright.
Allowed(w, kind, p) ==
    IF w.s.walk # None
    THEN w.s.walk.origin # "fallback" => w.s.walk.left = {}
    ELSE /\ kind = "fetch" /\ w.s.serving = None /\ w.s.aim = None
         /\ w.log.asks[p] > 0
         /\ \A q \in Providers \ {p} : w.log.asks[q] = 0

\* An answer is awaited once a fetch or a search is fired.
LEMMA FireIsSound ==
    ASSUME NEW w, Ready(w), NEW kind \in Asking, NEW p \in Providers,
           NEW id \in OrNone(Ids), NEW mint \in Flag,
           kind = "fetch" => id \in Ids, Allowed(w, kind, p),
           NEW v, v = Fire(w, kind, p, id, mint)
    PROVE  Sound(v) /\ Follows(w, v)
<1> DEFINE j == Worker(w, kind, p, id)
<1>0. w \in Worlds /\ w.s \in Session /\ w.s.show \in Shows
  BY DEF Ready, Plain, Worlds
<1>f. Fired(w, kind, p, id, v)
  BY <1>0, FireIs
<1>1. /\ v \in Worlds /\ v.db = w.db /\ v.log = w.log
      /\ v.s.loading /\ v.s.show = w.s.show /\ v.s.serving = w.s.serving
      /\ v.s.listing = w.s.listing /\ (v.s.noSource <=> w.s.noSource)
      /\ v.s.walk = w.s.walk /\ v.s.aim = w.s.aim
      /\ j \in v.jobs /\ Live(v.jobs) = {j}
      /\ Probes(v.jobs) = Probes(w.jobs)
  BY <1>f DEF Fired
<1>2. j.kind = kind /\ j.show = w.s.show /\ j.provider = p /\ j.id = id
  BY DEF Worker
<1> HIDE DEF j
<1>4. Plain(v)
  BY <1>1 DEF Ready, Plain
<1>5. w.s.walk # None => WalkFits(v)
  BY <1>1, WalkFitsKept DEF Ready
<1>6. Awaited(v, j)
  BY <1>0, <1>1, <1>2, <1>5 DEF Awaited, Allowed
<1>7. Sound(v)
  BY <1>1, <1>4, <1>6 DEF Sound, Ready
<1>8. Waiting(v.jobs) # {}
  BY <1>1, <1>2 DEF Waiting, Asking
<1> QED
  BY <1>1, <1>7, <1>8 DEF Follows

\* A landing ends the walk.
LEMMA LandIsSound ==
    ASSUME NEW w, Plain(w), w.s.show \in Shows, Live(w.jobs) = {},
           NEW p \in Providers, NEW id \in OrNone(Ids), NEW l \in Ids,
           NEW v, v = Land(w, p, id, ListingOf(w.s.show, p, l))
    PROVE  Sound(v) /\ Follows(w, v) /\ v.s.walk = None /\ v.jobs = w.jobs
<1> DEFINE g == ListingOf(w.s.show, p, l)
<1>0. w \in Worlds /\ w.s \in Session
  BY DEF Plain, Worlds
<1>1. g \in Listing /\ g.show = w.s.show /\ g.provider = p
  BY DEF ListingOf, Listing
<1>2. v = [w EXCEPT !.s = [@ EXCEPT !.noSource = FALSE, !.loading = FALSE, !.serving = p,
                                    !.id = id, !.listing = g, !.walk = None,
                                    !.aim = None]]
  BY <1>0 DEF Land, Worlds
<1> HIDE DEF g
<1>3. /\ v.db = w.db /\ v.log = w.log /\ v.jobs = w.jobs
      /\ v.s = [w.s EXCEPT !.noSource = FALSE, !.loading = FALSE, !.serving = p,
                           !.id = id, !.listing = g, !.walk = None, !.aim = None]
  BY <1>0, <1>2 DEF Worlds
<1>4. /\ ~v.s.noSource /\ ~v.s.loading /\ v.s.serving = p /\ v.s.listing = g
      /\ v.s.walk = None /\ v.s.aim = None /\ v.s.show = w.s.show
  BY <1>0, <1>3 DEF Session
<1>5. v.s \in Session
  BY ZenonT(60), <1>0, <1>1, <1>3 DEF Session, OrNone
<1>6. v \in Worlds
  BY <1>0, <1>2, <1>3, <1>5 DEF Worlds
<1>7. p # None
  BY RegistryAssumption
<1>8. Plain(v)
  BY <1>1, <1>3, <1>4, <1>6 DEF Plain
<1>9. Sound(v)
  BY <1>3, <1>4, <1>7, <1>8 DEF Sound
<1> QED
  BY <1>3, <1>4, <1>9 DEF Follows

-----------------------------------------------------------------------------
\* Asking a provider, and hopping to the next one of a walk.

Asks(l, p, m) ==
    /\ m \in Log /\ m.forced = l.forced /\ m.passed = l.passed
    /\ m.asks[p] = 1
    /\ \A q \in Providers \ {p} : m.asks[q] = l.asks[q]

\* A provider that had not been asked has then been asked once.
LEMMA AskedIs ==
    ASSUME NEW l \in Log, NEW p \in Providers, l.asks[p] = 0, NEW m, m = Asked(l, p)
    PROVE  Asks(l, p, m)
<1> DEFINE a == [l.asks EXCEPT ![p] = IF l.asks[p] < 2 THEN l.asks[p] + 1 ELSE l.asks[p]]
<1>1. m = [l EXCEPT !.asks = a]
  BY DEF Asked
<1>2. l.asks \in [Providers -> 0..2]
  BY DEF Log
<1>4. a = [l.asks EXCEPT ![p] = 1]
  BY <1>2
<1>5. a \in [Providers -> 0..2]
  BY <1>2, <1>4
<1> HIDE DEF a
<1>3. m.forced = l.forced /\ m.passed = l.passed /\ m.asks = a
  BY <1>1 DEF Log
<1>6. m \in Log
  BY <1>1, <1>3, <1>5 DEF Log
<1> QED
  BY <1>2, <1>3, <1>4, <1>6 DEF Asks

\* A world in which only the history of what was asked was rewritten.
Noted(w, v) ==
    /\ v \in Worlds /\ v.db = w.db /\ v.s = w.s /\ v.jobs = w.jobs

\* Asking a provider that the walk still owed leaves a sound world.
LEMMA TryIsSound ==
    ASSUME NEW u, NEW p \in Providers, u \in Worlds, u.log.asks[p] = 0,
           NEW w, w = [u EXCEPT !.log = Asked(@, p)],
           Ready(w),
           u.s.walk # None => Allowed(w, "search", p),
           u.s.walk = None =>
             /\ Allowed(w, "fetch", p)
             /\ Bound(u.db, u.s.show, p) \/ Key[u.s.show][p] # None,
           NEW v, v = Try(u, p)
    PROVE  Sound(v) /\ Follows(w, v)
<1>1. Noted(u, w)
  <2>1. Asked(u.log, p) \in Log
    BY AskedIs DEF Worlds, Asks
  <2> QED
    BY <2>1 DEF Noted, Worlds
<1>2. /\ w \in Worlds /\ w.db \in Store /\ w.s \in Session /\ w.s.show \in Shows
      /\ Live(w.jobs) = {} /\ Plain(w)
  BY DEF Ready, Plain, Worlds
<1>3. w.db = u.db /\ w.s = u.s
  BY <1>1 DEF Noted
<1> DEFINE id == w.db.bind[w.s.show][p]
           cached == w.db.cache[w.s.show][p]
           key == Key[w.s.show][p]
<1>4. id \in OrNone(Ids) /\ cached \in OrNone(Ids)
  BY <1>2 DEF Store
<1>5. key \in OrNone(Ids)
  BY <1>2, SitesAssumption DEF OrNone
<1>6. v = IF Bound(w.db, w.s.show, p) THEN OpenBound(w, p)
          ELSE IF key # None THEN FireFetch(w, p, key, TRUE)
          ELSE FireSearch(w, p)
  BY <1>3 DEF Try
<1>7. Allowed(w, "fetch", p)
  BY <1>3 DEF Allowed
<1>8. "fetch" \in Asking /\ "search" \in Asking /\ TRUE \in Flag /\ FALSE \in Flag
      /\ None \in OrNone(Ids)
  BY DEF Asking, Flag, OrNone
<1>9. CASE Bound(w.db, w.s.show, p) /\ cached # None
  <2>1. cached \in Ids
    BY <1>4, <1>9 DEF OrNone
  <2>2. v = Land(w, p, id, ListingOf(w.s.show, p, cached))
    BY <1>6, <1>9 DEF OpenBound
  <2> HIDE DEF id, cached
  <2> QED
    BY ZenonT(60), <1>2, <1>4, <2>1, <2>2, LandIsSound
<1>10. CASE Bound(w.db, w.s.show, p) /\ cached = None
  <2>1. v = Fire(w, "fetch", p, id, FALSE)
    BY <1>6, <1>10 DEF OpenBound, FireFetch
  <2>2. id \in Ids
    BY <1>4, <1>10 DEF Bound, OrNone
  <2> HIDE DEF id, cached
  <2> QED
    BY <1>4, <1>7, <1>8, <2>1, <2>2, FireIsSound
<1>11. CASE ~Bound(w.db, w.s.show, p) /\ key # None
  <2>1. v = Fire(w, "fetch", p, key, TRUE)
    BY <1>6, <1>11 DEF FireFetch
  <2>2. key \in Ids
    BY <1>5, <1>11 DEF OrNone
  <2> HIDE DEF key
  <2> QED
    BY <1>5, <1>7, <1>8, <2>1, <2>2, FireIsSound
<1>12. CASE ~Bound(w.db, w.s.show, p) /\ key = None
  <2>1. v = Fire(w, "search", p, None, FALSE)
    BY <1>6, <1>12 DEF FireSearch
  <2>2. Allowed(w, "search", p)
    BY <1>3, <1>12
  <2> QED
    BY <1>8, <2>1, <2>2, FireIsSound
<1> QED
  BY <1>9, <1>10, <1>11, <1>12

\* A hop picks a position that is left, and leaves behind only what it passed.
Moves(d, show, k, i, a) ==
    /\ i \in k.left
    /\ a \in Walk /\ a.origin = k.origin /\ a.order = k.order
    /\ a.left \subseteq k.left \ {i}
    /\ \A j \in k.left : j = i \/ j \in a.left \/ (Swept(d, show, k) = {} /\ j < i)

\* A hop takes one of the providers left and burns those before it.
LEMMA ChoiceMoves ==
    ASSUME NEW d, NEW show, NEW k \in Walk, HasHop(d, show, k),
           NEW i, i = Choice(d, show, k), NEW a, a = Advanced(d, show, k)
    PROVE  Moves(d, show, k, i, a)
<1> DEFINE S == Swept(d, show, k)
           P == Probed(d, show, k)
           T == IF S # {} THEN S ELSE P
           rest == IF S # {} THEN k.left \ {i} ELSE {j \in k.left : j > i}
<1>1. k.left \in SUBSET Nat
  BY DEF Walk
<1>2. S \subseteq k.left /\ P \subseteq k.left /\ P # {}
  BY DEF Swept, Probed, HasHop
<1>3. i = First(T)
  BY DEF Choice
<1>4. a = [k EXCEPT !.sweep = FALSE, !.left = rest]
  BY DEF Advanced
<1> HIDE DEF S, P
<1>5. T \subseteq Nat /\ T # {} /\ T \subseteq k.left
  BY <1>1, <1>2
<1> HIDE DEF T
<1>6. i \in k.left /\ i \in Nat
  BY <1>1, <1>3, <1>5, FirstIsLeast
<1>7. rest \subseteq k.left \ {i} /\ rest \in SUBSET Nat
  BY <1>1, <1>6
<1>8. \A j \in k.left : j = i \/ j \in rest \/ (S = {} /\ j < i)
  BY <1>1, <1>6
<1> HIDE DEF rest
<1>9. a \in Walk /\ a.origin = k.origin /\ a.order = k.order /\ a.left = rest
  BY <1>4, <1>7 DEF Walk
<1> QED
  BY <1>6, <1>7, <1>8, <1>9 DEF Moves, S

\* The world in the middle of a hop: the walk has moved on, nothing is asked yet.
Passed(w, i, u) ==
    /\ u \in Worlds /\ u.db = w.db /\ u.jobs = w.jobs
    /\ u.s = [w.s EXCEPT !.walk = Advanced(w.db, w.s.show, w.s.walk)]
    /\ u.log.asks = w.log.asks /\ u.log.forced = w.log.forced
    /\ w.log.passed \subseteq u.log.passed
    /\ Swept(w.db, w.s.show, w.s.walk) = {} =>
         \A j \in w.s.walk.left : j < i => w.s.walk.order[j] \in u.log.passed

\* A hop is a try of its choice from a world that has passed the burned ones.
LEMMA HopPasses ==
    ASSUME NEW w, Ready(w), w.s.walk # None, HasHop(w.db, w.s.show, w.s.walk),
           NEW i, i = Choice(w.db, w.s.show, w.s.walk),
           NEW v, v = Hop(w)
    PROVE  \E u : Passed(w, i, u) /\ v = Try(u, w.s.walk.order[i])
<1> DEFINE k == w.s.walk
           skipped == IF Swept(w.db, w.s.show, k) # {} THEN {}
                      ELSE {k.order[j] : j \in {j \in k.left : j < i}}
           a == Advanced(w.db, w.s.show, k)
           ns == [w.s EXCEPT !.walk = a]
           nl == [w.log EXCEPT !.passed = @ \cup skipped]
           u == [w EXCEPT !.s = ns, !.log = nl]
<1>1. /\ w \in Worlds /\ w.s \in Session /\ w.log \in Log /\ k \in Walk
      /\ WalkFits(w)
  BY DEF Ready, Plain, Worlds, Session, OrNone
<1>2. v = Try(u, k.order[i])
  BY DEF Hop
<1>3. skipped \subseteq Providers
  BY <1>1 DEF WalkFits, Walk
<1>4. a \in Walk
  BY <1>1, ChoiceMoves DEF Moves
<1>5. Swept(w.db, w.s.show, k) = {} => \A j \in k.left : j < i => k.order[j] \in skipped
  OBVIOUS
<1> HIDE DEF a, skipped
<1>6. ns \in Session
  BY <1>1, <1>4 DEF Session, OrNone
<1>7. /\ nl \in Log /\ nl.asks = w.log.asks /\ nl.forced = w.log.forced
      /\ nl.passed = w.log.passed \cup skipped
  BY <1>1, <1>3 DEF Log
<1> HIDE DEF ns, nl
<1>8. u \in Worlds /\ u.db = w.db /\ u.jobs = w.jobs /\ u.s = ns /\ u.log = nl
  BY <1>1, <1>6, <1>7 DEF Worlds
<1> HIDE DEF u
<1>9. Passed(w, i, u)
  BY <1>5, <1>7, <1>8 DEF Passed, ns, a
<1> QED
  BY <1>2, <1>9

\* A hop leaves a sound world.
LEMMA HopIsSound ==
    ASSUME NEW w, Ready(w), w.s.walk # None, HasHop(w.db, w.s.show, w.s.walk),
           NEW v, v = Hop(w)
    PROVE  Sound(v) /\ Follows(w, v)
<1> DEFINE k == w.s.walk
           i == Choice(w.db, w.s.show, k)
           p == k.order[i]
           a == Advanced(w.db, w.s.show, k)
<1>0. PICK u : Passed(w, i, u) /\ v = Try(u, p)
  BY HopPasses
<1> DEFINE x == [u EXCEPT !.log = Asked(@, p)]
<1>1. /\ w \in Worlds /\ w.s \in Session /\ w.log \in Log /\ k \in Walk
      /\ WalkFits(w) /\ Plain(w) /\ w.s.show \in Shows
      /\ ~w.s.loading /\ ~w.s.noSource /\ Live(w.jobs) = {}
  BY DEF Ready, Plain, Worlds, Session, OrNone
<1>2. Moves(w.db, w.s.show, k, i, a)
  BY <1>1, ChoiceMoves
<1>3. k.left \subseteq Nat /\ k.order \in Seq(Providers)
  BY <1>1 DEF Walk
<1>4. i \in k.left /\ i \in DOMAIN k.order /\ p \in Providers /\ p # w.s.serving
      /\ w.log.asks[p] = 0
  <2>1. i \in k.left
    BY <1>2 DEF Moves
  <2>2. i \in DOMAIN k.order /\ k.order[i] # w.s.serving /\ w.log.asks[k.order[i]] = 0
    BY <1>1, <2>1, LeftUntried
  <2> QED
    BY <1>3, <2>1, <2>2
<1> HIDE DEF i, a, x
<1>5. /\ u \in Worlds /\ u.db = w.db /\ u.jobs = w.jobs /\ u.log \in Log
      /\ u.s = [w.s EXCEPT !.walk = a]
      /\ u.log.asks = w.log.asks /\ u.log.forced = w.log.forced
      /\ w.log.passed \subseteq u.log.passed
  BY <1>0 DEF Passed, Worlds, a
<1>6. Asks(u.log, p, Asked(u.log, p))
  BY <1>4, <1>5, AskedIs
<1>7. x \in Worlds /\ x.db = u.db /\ x.s = u.s /\ x.jobs = u.jobs
      /\ x.log = Asked(u.log, p)
  BY <1>5, <1>6 DEF x, Worlds, Asks
<1>8. /\ x.s.show = w.s.show /\ x.s.serving = w.s.serving /\ x.s.listing = w.s.listing
      /\ x.s.aim = w.s.aim /\ x.s.walk = a
      /\ (x.s.loading <=> w.s.loading) /\ (x.s.noSource <=> w.s.noSource)
  BY <1>1, <1>5, <1>7 DEF Session
<1>9. /\ x.log.asks[p] = 1 /\ \A q \in Providers \ {p} : x.log.asks[q] = w.log.asks[q]
      /\ w.log.passed \subseteq x.log.passed /\ x.log.forced = w.log.forced
      /\ Swept(w.db, w.s.show, k) = {} =>
           \A j \in k.left : j < i => k.order[j] \in x.log.passed
  BY <1>0, <1>5, <1>6, <1>7 DEF Asks, Passed
<1>10. Plain(x)
  <2>1. \A q \in Providers : w.log.asks[q] <= 1
    BY <1>1 DEF Plain
  <2>2. \A q \in Providers : x.log.asks[q] <= 1
    BY <1>9, <2>1
  <2>3. x.s.serving # None => /\ x.s.show \in Shows /\ x.s.listing.show = x.s.show
                              /\ x.s.listing.provider = x.s.serving
    BY <1>1, <1>8 DEF Plain
  <2> QED
    BY <1>7, <2>2, <2>3 DEF Plain
<1>11. /\ a \in Walk /\ a.origin = k.origin /\ a.order = k.order
       /\ a.left \subseteq k.left \ {i}
       /\ \A j \in k.left : j = i \/ j \in a.left
                           \/ (Swept(w.db, w.s.show, k) = {} /\ j < i)
  BY <1>2 DEF Moves
<1>20. WalkFits(x)
  <2>1. \A j, l \in DOMAIN a.order : a.order[j] = a.order[l] => j = l
    BY <1>1, <1>11 DEF WalkFits
  <2>2. a.left \subseteq DOMAIN a.order
    BY <1>1, <1>11 DEF WalkFits
  <2>3. \A j \in a.left : x.log.asks[a.order[j]] = 0 /\ a.order[j] # x.s.serving
    <3> SUFFICES ASSUME NEW j \in a.left
                 PROVE  x.log.asks[k.order[j]] = 0 /\ k.order[j] # x.s.serving
      BY <1>11
    <3>1. j \in k.left /\ j # i /\ j \in DOMAIN k.order
      BY <1>1, <1>11 DEF WalkFits
    <3>2. k.order[j] \in Providers /\ k.order[j] # p
      BY <1>1, <1>3, <1>4, <3>1 DEF WalkFits
    <3> QED
      BY <1>1, <1>8, <1>9, <3>1, <3>2 DEF WalkFits
  <2>4. a.origin = "flip" => x.s.serving # None /\ DOMAIN a.order = {1}
    BY <1>1, <1>8, <1>11 DEF WalkFits
  <2>5. a.origin = "forced" =>
          /\ x.s.serving = None /\ DOMAIN a.order = {1}
          /\ \A q \in Providers \ {a.order[1]} : x.log.asks[q] = 0
          /\ 1 \in a.left \/ x.log.asks[a.order[1]] > 0
    <3> SUFFICES ASSUME k.origin = "forced"
                 PROVE  /\ x.s.serving = None /\ DOMAIN k.order = {1}
                        /\ \A q \in Providers \ {k.order[1]} : x.log.asks[q] = 0
                        /\ x.log.asks[k.order[1]] > 0
      BY <1>11
    <3>1. DOMAIN k.order = {1} /\ i = 1 /\ x.s.serving = None
      BY <1>1, <1>4, <1>8 DEF WalkFits
    <3>2. \A q \in Providers \ {k.order[1]} : w.log.asks[q] = 0
      BY <1>1 DEF WalkFits
    <3>3. p = k.order[1]
      BY <3>1
    <3> QED
      BY <1>9, <3>1, <3>2, <3>3
  <2>6. a.origin = "fallback" /\ x.s.serving = None =>
          \A q \in Providers : Covered(x, q) \/ \E j \in a.left : a.order[j] = q
    <3> SUFFICES ASSUME k.origin = "fallback", w.s.serving = None, NEW q \in Providers
                 PROVE  Covered(x, q) \/ \E j \in a.left : k.order[j] = q
      BY <1>8, <1>11
    <3>1. Covered(w, q) \/ \E j \in k.left : k.order[j] = q
      BY <1>1 DEF WalkFits
    <3>2. CASE Covered(w, q)
      BY <1>9, <3>2 DEF Covered
    <3>3. CASE \E j \in k.left : k.order[j] = q
      <4>1. PICK j \in k.left : k.order[j] = q
        BY <3>3
      <4>2. CASE j = i
        BY <1>9, <4>1, <4>2 DEF Covered
      <4>3. CASE j \in a.left
        BY <4>1, <4>3
      <4>4. CASE Swept(w.db, w.s.show, k) = {} /\ j < i
        BY <1>9, <4>1, <4>4 DEF Covered
      <4> QED
        BY <1>11, <4>2, <4>3, <4>4
    <3> QED
      BY <3>1, <3>2, <3>3
  <2> QED
    BY <1>8, <2>1, <2>2, <2>3, <2>4, <2>5, <2>6 DEF WalkFits
<1>12. Ready(x)
  BY <1>1, <1>5, <1>7, <1>8, <1>10, <1>20 DEF Ready
<1>13. a # None /\ u.s.walk = a
  BY <1>7, <1>8, <1>11, NoneIsNothing
<1>14. Allowed(x, "search", p)
  <2> SUFFICES ASSUME a.origin # "fallback" PROVE a.left = {}
    BY <1>8, <1>13 DEF Allowed
  <2>1. DOMAIN k.order = {1}
    BY <1>1, <1>11 DEF WalkFits, Walk
  <2> QED
    BY <1>1, <1>4, <1>11, <2>1 DEF WalkFits
<1>15. Sound(v) /\ Follows(x, v)
  BY ZenonT(60), <1>0, <1>4, <1>5, <1>12, <1>13, <1>14, TryIsSound DEF x
<1> QED
  <2>1. /\ v.db = x.db /\ v.s.show = x.s.show /\ v.log.forced = x.log.forced
        /\ Probes(v.jobs) = Probes(x.jobs)
        /\ Waiting(x.jobs) # {} => Waiting(v.jobs) # {}
        /\ v.s.walk # None => v.s.serving = x.s.serving
        /\ v.s.walk # None /\ x.s.walk # None /\ x.s.serving # None =>
             v.s.walk.origin = x.s.walk.origin
    BY <1>15 DEF Follows
  <2>2. x.s.walk.origin = k.origin /\ x.s.walk # None
    BY <1>8, <1>11, <1>13
  <2>3. /\ v.db = w.db /\ v.s.show = w.s.show /\ v.log.forced = w.log.forced
        /\ Probes(v.jobs) = Probes(w.jobs)
        /\ Waiting(w.jobs) # {} => Waiting(v.jobs) # {}
    BY ZenonT(60), <1>5, <1>7, <1>8, <1>9, <2>1
  <2> QED
    BY <1>8, <1>15, <2>1, <2>2, <2>3 DEF Follows

\* A walk with nowhere to hop gives up: it keeps a grid that is there, and says
\* so when there is none.
LEMMA ExhaustedIsSound ==
    ASSUME NEW w, Ready(w), w.s.walk # None, w.s.walk.origin # "forced",
           NEW v, v = Exhausted(w)
    PROVE  Sound(v) /\ Follows(w, v) /\ v.s.walk = None
<1> DEFINE k == w.s.walk
           rest == {k.order[j] : j \in k.left}
           ns == [w.s EXCEPT !.walk = None, !.aim = None, !.loading = FALSE]
           nl == [w.log EXCEPT !.passed = @ \cup rest]
           idle == [w EXCEPT !.s = ns, !.log = nl]
           told == [idle EXCEPT !.s = [@ EXCEPT !.noSource = TRUE]]
<1>1. /\ w \in Worlds /\ w.s \in Session /\ w.log \in Log /\ k \in Walk
      /\ WalkFits(w) /\ Plain(w) /\ w.s.show \in Shows
      /\ ~w.s.noSource /\ Live(w.jobs) = {}
  BY DEF Ready, Plain, Worlds, Session, OrNone
<1>2. idle = [w EXCEPT !.s.walk = None, !.s.aim = None, !.s.loading = FALSE,
                       !.log.passed = @ \cup rest]
  BY <1>1 DEF Worlds, Session, Log
<1>3. v = IF k.origin = "flip" THEN idle ELSE NoSource(idle)
  BY <1>2 DEF Exhausted
<1>4. rest \subseteq Providers
  BY <1>1 DEF WalkFits, Walk
<1> HIDE DEF rest
<1>5. ns \in Session
  BY <1>1 DEF Session, OrNone
<1>6. /\ ns.show = w.s.show /\ ns.serving = w.s.serving /\ ns.listing = w.s.listing
      /\ ns.walk = None /\ ns.aim = None /\ ~ns.loading /\ ~ns.noSource
  BY <1>1 DEF Session
<1>7. nl \in Log /\ nl.asks = w.log.asks /\ nl.forced = w.log.forced
      /\ nl.passed = w.log.passed \cup rest
  BY <1>1, <1>4 DEF Log
<1> HIDE DEF ns, nl
<1>8. /\ idle \in Worlds /\ idle.db = w.db /\ idle.jobs = w.jobs
      /\ idle.s = ns /\ idle.log = nl
  BY <1>1, <1>5, <1>7 DEF Worlds
<1> HIDE DEF idle
<1>9. Plain(idle) /\ Live(idle.jobs) = {}
  BY <1>1, <1>6, <1>7, <1>8 DEF Plain
<1>10. CASE w.s.serving # None
  <2>1. v = idle
    BY <1>3, <1>6, <1>8, <1>10 DEF NoSource
  <2>2. Sound(idle)
    BY <1>6, <1>8, <1>9, <1>10 DEF Sound
  <2> QED
    BY <1>6, <1>7, <1>8, <2>1, <2>2 DEF Follows
<1>11. CASE w.s.serving = None
  <2>1. k.origin = "fallback"
    BY <1>1, <1>11 DEF WalkFits, Walk
  <2>2. v = told
    BY <1>3, <1>6, <1>8, <1>11, <2>1 DEF NoSource
  <2>3. /\ told \in Worlds /\ told.db = w.db /\ told.jobs = w.jobs /\ told.log = nl
        /\ told.s = [ns EXCEPT !.noSource = TRUE]
    <3>1. [ns EXCEPT !.noSource = TRUE] \in Session
      BY <1>5 DEF Session
    <3> QED
      BY <1>8, <3>1 DEF Worlds
  <2> HIDE DEF told
  <2>4. /\ told.s.show = w.s.show /\ told.s.serving = None
        /\ told.s.listing = w.s.listing
        /\ told.s.walk = None /\ told.s.aim = None /\ ~told.s.loading /\ told.s.noSource
    BY <1>5, <1>6, <1>11, <2>3 DEF Session
  <2>5. Plain(told)
    BY <1>1, <1>7, <2>3, <2>4 DEF Plain
  <2>6. \A q \in Providers : Covered(told, q)
    <3> SUFFICES ASSUME NEW q \in Providers PROVE Covered(told, q)
      OBVIOUS
    <3>1. Covered(w, q) \/ \E j \in k.left : k.order[j] = q
      BY <1>1, <1>11, <2>1 DEF WalkFits
    <3>2. Covered(w, q) \/ q \in rest
      BY <3>1 DEF rest
    <3> QED
      BY <1>7, <2>3, <3>2 DEF Covered
  <2>7. Sound(told)
    BY <1>1, <2>3, <2>4, <2>5, <2>6 DEF Sound
  <2> QED
    BY <1>7, <2>2, <2>3, <2>4, <2>7 DEF Follows
<1> QED
  BY <1>10, <1>11

\* Going on with a walk leaves a sound world, the end of the walk included.
LEMMA ProceedIsSound ==
    ASSUME NEW w, Ready(w), w.s.walk # None,
           w.s.walk.origin # "forced" \/ HasHop(w.db, w.s.show, w.s.walk),
           NEW v, v = Proceed(w)
    PROVE  /\ Sound(v) /\ Follows(w, v)
           /\ ~HasHop(w.db, w.s.show, w.s.walk) => v.s.walk = None
<1>1. CASE HasHop(w.db, w.s.show, w.s.walk)
  BY <1>1, HopIsSound DEF Proceed
<1>2. CASE ~HasHop(w.db, w.s.show, w.s.walk)
  BY <1>2, ExhaustedIsSound DEF Proceed
<1> QED
  BY <1>1, <1>2

\* Advancing a walk; a walk that has nothing left and keeps a grid ends.
LEMMA AdvanceIsSound ==
    ASSUME NEW w, Ready(w), w.s.walk # None, NEW v, v = AdvanceWalk(w)
    PROVE  /\ Sound(v) /\ Follows(w, v)
           /\ w.s.walk.left = {} /\ w.s.serving # None => v.s.walk = None
<1> DEFINE k == w.s.walk
           q == k.order[1]
           c == Continue(k)
           ns == [w.s EXCEPT !.walk = c, !.aim = None]
           u == [w EXCEPT !.s = ns]
<1>1. /\ w \in Worlds /\ w.s \in Session /\ w.log \in Log /\ k \in Walk
      /\ WalkFits(w) /\ Plain(w) /\ w.s.show \in Shows
      /\ ~w.s.noSource /\ ~w.s.loading /\ Live(w.jobs) = {}
  BY DEF Ready, Plain, Worlds, Session, OrNone
<1>2. CASE ~(k.origin = "forced" /\ ~HasHop(w.db, w.s.show, k))
  <2>1. v = Proceed(w)
    BY <1>2 DEF AdvanceWalk
  <2>2. k.left = {} => ~HasHop(w.db, w.s.show, k)
    BY DEF HasHop, Probed
  <2> QED
    BY <1>2, <2>1, <2>2, ProceedIsSound
<1>3. CASE k.origin = "forced" /\ ~HasHop(w.db, w.s.show, k)
  <2>1. v = Proceed([w EXCEPT !.s.walk = Continue(@), !.s.aim = None])
    BY <1>3 DEF AdvanceWalk
  <2>2. [w EXCEPT !.s.walk = Continue(@), !.s.aim = None] = u
    BY <1>1 DEF Worlds, Session
  <2>3. k.left = {}
    BY <1>3 DEF HasHop, Probed
  <2>4. /\ w.s.serving = None /\ DOMAIN k.order = {1} /\ w.log.asks[q] > 0
        /\ \A x \in Providers \ {q} : w.log.asks[x] = 0
    BY <1>1, <1>3, <2>3 DEF WalkFits
  <2>5. q \in Providers
    BY <1>1, <2>4 DEF Walk
  <2>6. /\ Ordered(q) \in Seq(Providers)
        /\ \A i, j \in DOMAIN Ordered(q) : Ordered(q)[i] = Ordered(q)[j] => i = j
        /\ \A x \in Providers : \E i \in DOMAIN Ordered(q) : Ordered(q)[i] = x
    BY ZenonT(60), <2>5, OrderIsPermutation DEF OrNone
  <2>7. /\ c.origin = "fallback" /\ c.order = Ordered(q)
        /\ c.left = {i \in DOMAIN Ordered(q) : Ordered(q)[i] \notin {q}}
        /\ c \in Walk
    <3>1. {i \in DOMAIN Ordered(q) : Ordered(q)[i] \notin {q}} \in SUBSET Nat
      BY <2>6
    <3> QED
      BY <2>6, <3>1 DEF Continue, WalkOver, Walk
  <2> HIDE DEF c
  <2>8. ns \in Session
    BY <1>1, <2>7 DEF Session, OrNone
  <2>9. /\ ns.show = w.s.show /\ ns.serving = w.s.serving /\ ns.listing = w.s.listing
        /\ ns.walk = c /\ ~ns.loading /\ ~ns.noSource
    BY <1>1 DEF Session
  <2> HIDE DEF ns
  <2>10. u \in Worlds /\ u.db = w.db /\ u.jobs = w.jobs /\ u.log = w.log /\ u.s = ns
    BY <1>1, <2>8 DEF Worlds
  <2> HIDE DEF u
  <2>11. Plain(u)
    BY <1>1, <2>9, <2>10 DEF Plain
  <2>12. WalkFits(u)
    <3>1. \A i \in c.left : u.log.asks[c.order[i]] = 0 /\ c.order[i] # u.s.serving
      <4> SUFFICES ASSUME NEW i \in DOMAIN Ordered(q), Ordered(q)[i] # q
                   PROVE  w.log.asks[Ordered(q)[i]] = 0 /\ Ordered(q)[i] # None
        BY <2>4, <2>7, <2>9, <2>10
      <4>1. Ordered(q)[i] \in Providers
        BY <2>6
      <4> QED
        BY <2>4, <4>1, RegistryAssumption
    <3>2. \A x \in Providers : Covered(u, x) \/ \E i \in c.left : c.order[i] = x
      BY <2>4, <2>6, <2>7, <2>10 DEF Covered
    <3> QED
      <4>1. u.s.walk = c /\ c.origin \notin {"flip", "forced"}
        BY <2>7, <2>9, <2>10
      <4>2. /\ \A i, j \in DOMAIN c.order : c.order[i] = c.order[j] => i = j
            /\ c.left \subseteq DOMAIN c.order
        BY <2>6, <2>7
      <4> QED
        BY <3>1, <3>2, <4>1, <4>2, RegistryWalkFits
  <2>13. Ready(u)
    BY <1>1, <2>9, <2>10, <2>11, <2>12 DEF Ready
  <2>14. u.s.walk # None /\ u.s.walk.origin # "forced"
    BY <2>7, <2>9, <2>10, NoneIsNothing
  <2>15. Sound(v) /\ Follows(u, v)
    BY <2>1, <2>2, <2>13, <2>14, ProceedIsSound
  <2> QED
    BY <2>4, <2>9, <2>10, <2>15 DEF Follows
<1> QED
  BY <1>2, <1>3

-----------------------------------------------------------------------------
\* Where walks start: a failure, a pin, an opening.

\* A fallback walk that leaves out what is behind it fits.
LEMMA FallbackFits ==
    ASSUME NEW w, w.db \in Store, w.s.show \in Shows,
           NEW b, b \subseteq Providers,
           \A p \in Providers \ b : w.log.asks[p] = 0 /\ p # w.s.serving,
           w.s.serving = None => \A p \in b : Covered(w, p),
           NEW u, u.s.walk = Fallback(w.db, w.s.show, b),
           u.s.serving = w.s.serving, u.log = w.log
    PROVE  WalkFits(u)
<1> DEFINE pref == EffectivePref(w.db, w.s.show)
           o == Ordered(pref)
           k == Fallback(w.db, w.s.show, b)
<1>1. pref \in OrNone(Providers)
  BY RegistryAssumption DEF EffectivePref, Store, OrNone
<1> HIDE DEF pref
<1>2. /\ o \in Seq(Providers)
      /\ \A i, j \in DOMAIN o : o[i] = o[j] => i = j
      /\ \A p \in Providers : \E i \in DOMAIN o : o[i] = p
  BY <1>1, OrderIsPermutation
<1>3. k.origin = "fallback" /\ k.order = o /\ k.left = {i \in DOMAIN o : o[i] \notin b}
  BY DEF Fallback, WalkOver, pref
<1>4. u.s.walk = k
  OBVIOUS
<1> HIDE DEF k, o
<1>5. \A i \in k.left : u.log.asks[k.order[i]] = 0 /\ k.order[i] # u.s.serving
  BY <1>2, <1>3
<1>6. u.s.serving = None =>
        \A p \in Providers : Covered(u, p) \/ \E i \in k.left : k.order[i] = p
  <2> SUFFICES ASSUME w.s.serving = None, NEW p \in Providers \ b
               PROVE  \E i \in k.left : k.order[i] = p
    BY DEF Covered
  <2> QED
    BY <1>2, <1>3
<1>7. k.origin \notin {"flip", "forced"} /\ k.left \subseteq DOMAIN k.order
  BY <1>3
<1>8. \A i, j \in DOMAIN k.order : k.order[i] = k.order[j] => i = j
  BY <1>2, <1>3
<1> QED
  BY <1>4, <1>5, <1>6, <1>7, <1>8, RegistryWalkFits

\* A walk over all the providers but those a failure burned.
LEMMA FallbackIsSound ==
    ASSUME NEW w, Ready(w), w.s.walk = None, NEW b, b \subseteq Providers,
           \A p \in Providers \ b : w.log.asks[p] = 0 /\ p # w.s.serving,
           w.s.serving = None => \A p \in b : Covered(w, p),
           NEW aim \in OrNone(Providers),
           NEW u, u = [w EXCEPT !.s = [@ EXCEPT !.walk = Fallback(w.db, w.s.show, b),
                                                !.aim = aim]],
           NEW v, v = AdvanceWalk(u)
    PROVE  Sound(v) /\ Follows(w, v)
<1> DEFINE pref == EffectivePref(w.db, w.s.show)
           o == Ordered(pref)
           k == Fallback(w.db, w.s.show, b)
           ns == [w.s EXCEPT !.walk = k, !.aim = aim]
<1>1. /\ w \in Worlds /\ w.s \in Session /\ w.db \in Store /\ Plain(w)
      /\ w.s.show \in Shows /\ ~w.s.loading /\ ~w.s.noSource /\ Live(w.jobs) = {}
  BY DEF Ready, Plain, Worlds
<1>2. pref \in OrNone(Providers)
  BY <1>1, RegistryAssumption DEF EffectivePref, Store, OrNone
<1> HIDE DEF pref
<1>3. /\ o \in Seq(Providers)
      /\ \A i, j \in DOMAIN o : o[i] = o[j] => i = j
      /\ \A p \in Providers : \E i \in DOMAIN o : o[i] = p
  BY <1>2, OrderIsPermutation
<1>4. /\ k.origin = "fallback" /\ k.order = o /\ k.left = {i \in DOMAIN o : o[i] \notin b}
      /\ k \in Walk
  <2>1. {i \in DOMAIN o : o[i] \notin b} \in SUBSET Nat
    BY <1>3
  <2> QED
    BY <1>3, <2>1 DEF Fallback, WalkOver, Walk, pref
<1> HIDE DEF k, o
<1>5. ns \in Session
  BY <1>1, <1>4 DEF Session, OrNone
<1>6. /\ ns.show = w.s.show /\ ns.serving = w.s.serving /\ ns.listing = w.s.listing
      /\ ns.walk = k /\ ~ns.loading /\ ~ns.noSource
  BY <1>1 DEF Session
<1>7. u = [w EXCEPT !.s = ns]
  BY DEF k
<1> HIDE DEF ns
<1>8. u \in Worlds /\ u.db = w.db /\ u.jobs = w.jobs /\ u.log = w.log /\ u.s = ns
  BY <1>1, <1>5, <1>7 DEF Worlds
<1>9. Plain(u)
  BY <1>1, <1>6, <1>8 DEF Plain
<1>10. WalkFits(u)
  BY <1>1, <1>6, <1>8, FallbackFits DEF k
<1>11. Ready(u) /\ u.s.walk # None
  BY <1>1, <1>4, <1>6, <1>8, <1>9, <1>10, NoneIsNothing DEF Ready
<1>12. Sound(v) /\ Follows(u, v)
  BY <1>11, AdvanceIsSound
<1> QED
  BY <1>6, <1>8, <1>12 DEF Follows

\* A failed answer moves the walk on, or starts one past the provider that
\* was tried outright.
LEMMA FailOverIsSound ==
    ASSUME NEW w, Ready(w), NEW p \in Providers,
           w.s.walk = None =>
             /\ w.s.serving = None /\ w.log.asks[p] > 0
             /\ \A q \in Providers \ {p} : w.log.asks[q] = 0,
           NEW v, v = FailOver(w, p)
    PROVE  /\ Sound(v) /\ Follows(w, v)
           /\ w.s.walk # None /\ w.s.walk.left = {} /\ w.s.serving # None =>
                v.s.walk = None
<1>1. CASE w.s.walk # None
  BY <1>1, AdvanceIsSound DEF FailOver
<1>2. CASE w.s.walk = None
  <2> DEFINE k == Fallback(w.db, w.s.show, {p})
             u == [w EXCEPT !.s = [@ EXCEPT !.walk = k, !.aim = w.s.aim]]
  <2>1. w \in Worlds /\ w.s \in Session /\ w.s.aim \in OrNone(Providers)
    BY DEF Ready, Plain, Worlds, Session
  <2>2. [w EXCEPT !.s.walk = k] = u
    BY <2>1 DEF Worlds, Session
  <2>3. v = AdvanceWalk(u)
    BY <1>2, <2>2 DEF FailOver
  <2> HIDE DEF k
  <2>4. \A q \in Providers \ {p} : w.log.asks[q] = 0 /\ q # w.s.serving
    BY <1>2, RegistryAssumption
  <2>5. w.s.serving = None => \A q \in {p} : Covered(w, q)
    BY <1>2 DEF Covered
  <2>6. {p} \subseteq Providers
    OBVIOUS
  <2> QED
    BY ZenonT(60), <1>2, <2>1, <2>3, <2>4, <2>5, <2>6, FallbackIsSound DEF k
<1> QED
  BY <1>1, <1>2

\* Nothing is there and nothing was asked: a show has just been opened.
Fresh(w) ==
    /\ Ready(w) /\ w.s.walk = None /\ w.s.serving = None /\ w.s.aim = None
    /\ \A p \in Providers : w.log.asks[p] = 0

\* So does asking a provider outright, for a show that was just opened.
LEMMA OutrightIsSound ==
    ASSUME NEW w, Fresh(w), NEW p \in Providers,
           Bound(w.db, w.s.show, p) \/ Key[w.s.show][p] # None,
           NEW v, v = Try(w, p)
    PROVE  Sound(v) /\ Follows(w, v)
<1> DEFINE x == [w EXCEPT !.log = Asked(@, p)]
<1>1. w \in Worlds /\ w.log \in Log /\ w.log.asks[p] = 0 /\ Ready(w)
  BY DEF Fresh, Ready, Plain, Worlds
<1>2. Asks(w.log, p, Asked(w.log, p))
  BY <1>1, AskedIs
<1>3. x \in Worlds /\ x.db = w.db /\ x.s = w.s /\ x.jobs = w.jobs
      /\ x.log = Asked(w.log, p)
  BY <1>1, <1>2 DEF Worlds, Asks
<1> HIDE DEF x
<1>4. /\ x.log.asks[p] = 1 /\ x.log.forced = w.log.forced
      /\ \A q \in Providers \ {p} : x.log.asks[q] = 0
  BY <1>2, <1>3 DEF Fresh, Asks
<1>5. Ready(x)
  BY <1>1, <1>3, <1>4 DEF Fresh, Ready, Plain
<1>6. Allowed(x, "fetch", p)
  BY <1>3, <1>4 DEF Fresh, Allowed
<1>7. w.s.walk = None
  BY DEF Fresh
<1>9. Sound(v) /\ Follows(x, v)
  BY <1>1, <1>3, <1>5, <1>6, <1>7, TryIsSound DEF x
<1> QED
  BY <1>3, <1>4, <1>9 DEF Follows

\* Opening a show whose provider is decided by route, binding or key.
LEMMA ClassifyIsSound ==
    ASSUME NEW w, Fresh(w), NEW v, v = EngageClassify(w)
    PROVE  Sound(v) /\ Follows(w, v)
<1> DEFINE pref == EffectivePref(w.db, w.s.show)
           o == Ordered(pref)
           held == {i \in DOMAIN o : Bound(w.db, w.s.show, o[i])}
           keyed == {i \in DOMAIN o : Key[w.s.show][o[i]] # None}
           b == {q \in Providers : FALSE}
           u == [w EXCEPT !.s = [@ EXCEPT !.walk = Fallback(w.db, w.s.show, b),
                                          !.aim = w.s.aim]]
<1>1. w \in Worlds /\ w.s \in Session /\ w.db \in Store /\ w.s.show \in Shows
      /\ Ready(w) /\ w.s.aim \in OrNone(Providers)
  BY DEF Fresh, Ready, Plain, Worlds, Session
<1>2. pref \in OrNone(Providers)
  BY <1>1, RegistryAssumption DEF EffectivePref, Store, OrNone
<1>3. o \in Seq(Providers)
  BY <1>2, OrderIsPermutation
<1>4. v = IF held # {} THEN Try(w, o[First(held)])
          ELSE IF keyed # {} THEN Try(w, o[First(keyed)])
          ELSE AdvanceWalk([w EXCEPT !.s.walk = Fallback(w.db, w.s.show, {})])
  BY DEF EngageClassify
<1> HIDE DEF o
<1>5. CASE held # {}
  <2>0. held \subseteq Nat
    BY <1>3
  <2>1. First(held) \in held
    <3> HIDE DEF held
    <3> QED
      BY <2>0, <1>5, FirstIsLeast
  <2> HIDE DEF held
  <2>2. o[First(held)] \in Providers /\ Bound(w.db, w.s.show, o[First(held)])
    BY <1>3, <2>1 DEF held
  <2> QED
    BY <1>4, <1>5, <2>2, OutrightIsSound
<1>6. CASE held = {} /\ keyed # {}
  <2>0. keyed \subseteq Nat
    BY <1>3
  <2>1. First(keyed) \in keyed
    <3> HIDE DEF keyed
    <3> QED
      BY <2>0, <1>6, FirstIsLeast
  <2> DEFINE i == First(keyed)
  <2> HIDE DEF i, held
  <2>3. i \in DOMAIN o /\ Key[w.s.show][o[i]] # None
    BY <2>1 DEF i
  <2>2. o[i] \in Providers /\ Key[w.s.show][o[i]] # None
    BY <1>3, <2>3
  <2> QED
    BY <1>4, <1>6, <2>2, OutrightIsSound DEF i
<1>7. CASE held = {} /\ keyed = {}
  <2>1. {} = b
    OBVIOUS
  <2>2. [w EXCEPT !.s.walk = Fallback(w.db, w.s.show, {})] = u
    BY <1>1, <2>1 DEF Worlds, Session
  <2>3. v = AdvanceWalk(u)
    BY <1>4, <1>7, <2>2
  <2>4. b \subseteq Providers
    OBVIOUS
  <2>5. \A p \in Providers \ b : w.log.asks[p] = 0 /\ p # w.s.serving
    BY RegistryAssumption DEF Fresh
  <2>6. w.s.serving = None => \A p \in b : Covered(w, p)
    OBVIOUS
  <2> HIDE DEF b
  <2> QED
    BY <1>1, <2>3, <2>4, <2>5, <2>6, FallbackIsSound DEF Fresh
<1> QED
  BY <1>5, <1>6, <1>7

\* The stamp of a forced re-route.
Stamped(w, v) ==
    /\ v.db.route = [w.db.route EXCEPT ![w.s.show] = GlobalPref]
    /\ v.db.bind = w.db.bind
    /\ v.log.forced = [w.log.forced EXCEPT ![w.s.show] = IF @ < 2 THEN @ + 1 ELSE @]

\* What an opening leaves of the world before it.
Opened(w, v) ==
    /\ v.s.show = w.s.show
    /\ Probes(v.jobs) = Probes(w.jobs)
    /\ Waiting(w.jobs) # {} => Waiting(v.jobs) # {}
    /\ v.s.walk # None => v.s.serving = None

\* Opening a show that the saved preference forces to a provider.
LEMMA ForcedIsSound ==
    ASSUME NEW w, Fresh(w), GlobalPref # None, NEW v, v = EngageForced(w)
    PROVE  Sound(v) /\ Opened(w, v) /\ Stamped(w, v)
<1> DEFINE nd == [w.db EXCEPT !.route[w.s.show] = GlobalPref]
           nl == [w.log EXCEPT !.forced[w.s.show] = IF @ < 2 THEN @ + 1 ELSE @]
           x == [w EXCEPT !.db = nd, !.log = nl]
           k == ForcedPreferred(GlobalPref)
           ns == [w.s EXCEPT !.aim = GlobalPref, !.walk = k]
           u == [x EXCEPT !.s = ns]
<1>1. /\ w \in Worlds /\ w.s \in Session /\ w.db \in Store /\ w.log \in Log
      /\ w.s.show \in Shows /\ Plain(w) /\ Live(w.jobs) = {}
      /\ ~w.s.loading /\ ~w.s.noSource /\ Ready(w)
  BY DEF Fresh, Ready, Plain, Worlds
<1>2. GlobalPref \in Providers
  BY RegistryAssumption
<1>3. v = IF Bound(w.db, w.s.show, GlobalPref) \/ Key[w.s.show][GlobalPref] # None
          THEN Try(x, GlobalPref)
          ELSE AdvanceWalk([x EXCEPT !.s.aim = GlobalPref, !.s.walk = k])
  <2>1. x = [w EXCEPT !.db.route[w.s.show] = GlobalPref,
                      !.log.forced[w.s.show] = IF @ < 2 THEN @ + 1 ELSE @]
    BY <1>1 DEF Worlds
  <2> QED
    BY <2>1 DEF EngageForced
<1>4. nd \in Store /\ nd.bind = w.db.bind
      /\ nd.route = [w.db.route EXCEPT ![w.s.show] = GlobalPref]
  BY <1>1, <1>2 DEF Store, OrNone
<1>5. nl \in Log /\ nl.asks = w.log.asks /\ nl.passed = w.log.passed
      /\ nl.forced = [w.log.forced EXCEPT ![w.s.show] = IF @ < 2 THEN @ + 1 ELSE @]
  BY <1>1 DEF Log
<1> HIDE DEF nd, nl
<1>6. x \in Worlds /\ x.db = nd /\ x.log = nl /\ x.s = w.s /\ x.jobs = w.jobs
  BY <1>1, <1>4, <1>5 DEF Worlds
<1> HIDE DEF x
<1>7. Fresh(x)
  BY <1>1, <1>5, <1>6 DEF Fresh, Ready, Plain
<1>8. ASSUME Sound(v), v.db = x.db, v.log.forced = x.log.forced, Opened(x, v)
      PROVE  Sound(v) /\ Opened(w, v) /\ Stamped(w, v)
  BY <1>4, <1>5, <1>6, <1>8 DEF Opened, Stamped
<1>9. CASE Bound(w.db, w.s.show, GlobalPref) \/ Key[w.s.show][GlobalPref] # None
  <2>1. Bound(x.db, x.s.show, GlobalPref) \/ Key[x.s.show][GlobalPref] # None
    BY <1>4, <1>6, <1>9 DEF Bound
  <2>2. Sound(v) /\ Follows(x, v)
    BY <1>2, <1>3, <1>7, <1>9, <2>1, OutrightIsSound
  <2> QED
    BY <1>7, <1>8, <2>2 DEF Follows, Opened, Fresh
<1>10. CASE ~(Bound(w.db, w.s.show, GlobalPref) \/ Key[w.s.show][GlobalPref] # None)
  <2>1. [x EXCEPT !.s.aim = GlobalPref, !.s.walk = k] = u
    BY <1>6 DEF Worlds, Session
  <2>2. /\ k.origin = "forced" /\ k.order = <<GlobalPref>> /\ k.left = {1} /\ k \in Walk
    BY <1>2 DEF ForcedPreferred, WalkOver, Walk
  <2> HIDE DEF k
  <2>3. ns \in Session
    BY <1>1, <1>2, <2>2 DEF Session, OrNone
  <2>4. /\ ns.show = w.s.show /\ ns.serving = w.s.serving /\ ns.listing = w.s.listing
        /\ ns.walk = k /\ ~ns.loading /\ ~ns.noSource
    BY <1>1 DEF Session
  <2> HIDE DEF ns
  <2>5. u \in Worlds /\ u.db = x.db /\ u.jobs = x.jobs /\ u.log = x.log /\ u.s = ns
    BY <1>6, <2>3 DEF Worlds
  <2> HIDE DEF u
  <2>6. Plain(u)
    BY <1>1, <1>5, <1>6, <2>4, <2>5 DEF Plain
  <2>7. \A p \in Providers : u.log.asks[p] = 0
    BY <1>5, <1>6, <2>5 DEF Fresh
  <2>8. u.s.serving = None
    BY <2>4, <2>5 DEF Fresh
  <2>9. WalkFits(u)
    <3>1. DOMAIN k.order = {1} /\ k.order[1] = GlobalPref
      BY <2>2
    <3>2. GlobalPref # None
      BY <1>2, RegistryAssumption
    <3> QED
      BY <1>2, <2>2, <2>4, <2>5, <2>7, <2>8, <3>1, <3>2 DEF WalkFits
  <2>10. Ready(u) /\ u.s.walk # None
    BY <1>1, <1>6, <2>2, <2>4, <2>5, <2>6, <2>9, NoneIsNothing DEF Ready
  <2>11. Sound(v) /\ Follows(u, v)
    BY <1>3, <1>10, <2>1, <2>10, AdvanceIsSound DEF u
  <2>12. Opened(x, v) /\ v.db = x.db /\ v.log.forced = x.log.forced
    BY <1>6, <2>4, <2>5, <2>8, <2>11 DEF Follows, Opened
  <2> QED
    BY <1>8, <2>11, <2>12
<1> QED
  BY <1>9, <1>10

\* Opening any show from any world: the session is that show's, the probes and
\* the bindings stay, and a forced walk has written the route it was forced to.
LEMMA EngageIsSound ==
    ASSUME NEW w \in Worlds, NEW show \in Shows, NEW v, v = Engage(w, show)
    PROVE  /\ Sound(v) /\ v.s.show = show
           /\ Probes(v.jobs) = Probes(w.jobs)
           /\ Waiting(w.jobs) # {} => Waiting(v.jobs) # {}
           /\ v.s.walk # None => v.s.serving = None
           /\ v.db.bind = w.db.bind
           /\ \/ v.db = w.db /\ v.log.forced = w.log.forced
              \/ /\ GlobalPref # None /\ w.db.route[show] # GlobalPref
                 /\ v.db.route = [w.db.route EXCEPT ![show] = GlobalPref]
                 /\ v.log.forced = [w.log.forced EXCEPT ![show] =
                                      IF @ < 2 THEN @ + 1 ELSE @]
<1> DEFINE nj == Superseded(w.jobs)
           nl == [w.log EXCEPT !.asks = NothingAsked, !.passed = {}]
           x == [w EXCEPT !.s = Blank(show), !.jobs = nj, !.log = nl]
<1>1. w.db \in Store /\ w.jobs \in SUBSET Job /\ w.log \in Log
  BY DEF Worlds
<1>2. /\ nj \in SUBSET Job /\ Live(nj) = {} /\ Probes(nj) = Probes(w.jobs)
      /\ Waiting(w.jobs) # {} => Waiting(nj) # {}
  BY <1>1, SupersededIs
<1>3. nl \in Log /\ nl.asks = NothingAsked /\ nl.forced = w.log.forced
  <2>1. NothingAsked \in [Providers -> 0..2]
    BY DEF NothingAsked
  <2> QED
    BY <1>1, <2>1 DEF Log
<1>4. Blank(show) \in Session
  BY DEF Blank, Session, OrNone
<1>5. x = [w EXCEPT !.s = Blank(show), !.jobs = Superseded(@),
                    !.log.asks = NothingAsked, !.log.passed = {}]
  BY DEF Worlds, Log
<1> HIDE DEF nj, nl
<1>6. x \in Worlds /\ x.db = w.db /\ x.s = Blank(show) /\ x.jobs = nj /\ x.log = nl
  BY <1>2, <1>3, <1>4 DEF Worlds
<1>7. v = IF w.db.pin[show] # None \/ GlobalPref = None THEN EngageClassify(x)
          ELSE IF w.db.route[show] # GlobalPref THEN EngageForced(x)
          ELSE IF Bound(w.db, show, GlobalPref) THEN Try(x, GlobalPref)
          ELSE EngageClassify(x)
  BY <1>5 DEF Engage
<1> HIDE DEF x
<1>8. /\ x.s.show = show /\ x.s.serving = None /\ x.s.walk = None /\ x.s.aim = None
      /\ ~x.s.loading /\ ~x.s.noSource
  BY <1>6 DEF Blank
<1>9. Fresh(x)
  <2>1. \A p \in Providers : x.log.asks[p] = 0
    BY <1>3, <1>6 DEF NothingAsked
  <2>2. Plain(x)
    BY <1>6, <1>8, <2>1 DEF Plain
  <2> QED
    BY <1>2, <1>6, <1>8, <2>1, <2>2 DEF Fresh, Ready
<1>10. ASSUME Sound(v), Follows(x, v)
       PROVE  /\ Sound(v) /\ Opened(x, v) /\ v.db = w.db /\ v.log.forced = w.log.forced
  BY <1>3, <1>6, <1>8, <1>10 DEF Follows, Opened
<1>11. ASSUME Opened(x, v)
       PROVE  /\ v.s.show = show /\ Probes(v.jobs) = Probes(w.jobs)
              /\ Waiting(w.jobs) # {} => Waiting(v.jobs) # {}
              /\ v.s.walk # None => v.s.serving = None
  BY <1>2, <1>6, <1>8, <1>11 DEF Opened
<1>12. CASE v = EngageClassify(x)
  BY <1>9, <1>10, <1>11, <1>12, ClassifyIsSound
<1>13. CASE v = EngageForced(x) /\ GlobalPref # None /\ w.db.route[show] # GlobalPref
  <2>1. Sound(v) /\ Opened(x, v) /\ Stamped(x, v)
    BY <1>9, <1>13, ForcedIsSound
  <2>2. /\ v.db.bind = w.db.bind
        /\ v.db.route = [w.db.route EXCEPT ![show] = GlobalPref]
        /\ v.log.forced = [w.log.forced EXCEPT ![show] = IF @ < 2 THEN @ + 1 ELSE @]
    BY <1>3, <1>6, <1>8, <2>1 DEF Stamped
  <2> QED
    BY <1>11, <1>13, <2>1, <2>2
<1>14. CASE /\ v = Try(x, GlobalPref) /\ GlobalPref # None
            /\ Bound(w.db, show, GlobalPref)
  <2>1. GlobalPref \in Providers /\ Bound(x.db, x.s.show, GlobalPref)
    BY <1>6, <1>8, <1>14, RegistryAssumption
  <2>2. Sound(v) /\ Follows(x, v)
    BY <1>9, <1>14, <2>1, OutrightIsSound
  <2> QED
    BY <1>10, <1>11, <2>2
<1> QED
  BY <1>7, <1>12, <1>13, <1>14

-----------------------------------------------------------------------------
\* Answers.

\* Writing a binding leaves the routes, and every other show's binding unless
\* that show had the same id.
LEMMA BindingIs ==
    ASSUME NEW d \in Store, NEW show \in Shows, NEW p \in Providers,
           NEW id \in OrNone(Ids), NEW e, e = WithBinding(d, show, p, id)
    PROVE  /\ e \in Store /\ e.route = d.route
           /\ \A x \in Shows \ {show} :
                d.bind[x][p] # id => e.bind[x] = d.bind[x]
<1> DEFINE row(x) == [d.bind[x] EXCEPT
                        ![p] = IF x = show THEN id ELSE IF @ = id THEN None ELSE @]
           nb == [x \in Shows |-> row(x)]
           na == [d.absent EXCEPT ![show] = @ \ {p}]
<1>1. d.bind \in [Shows -> [Providers -> OrNone(Ids)]]
      /\ d.absent \in [Shows -> SUBSET Providers]
  BY DEF Store
<1>2. \A x \in Shows : row(x) \in [Providers -> OrNone(Ids)]
  BY <1>1 DEF OrNone
<1>3. \A x \in Shows \ {show} : d.bind[x][p] # id => row(x) = d.bind[x]
  BY <1>1
<1> HIDE DEF row
<1>4. nb \in [Shows -> [Providers -> OrNone(Ids)]] /\ \A x \in Shows : nb[x] = row(x)
  BY <1>2
<1>5. na \in [Shows -> SUBSET Providers]
  BY <1>1
<1>6. e = [d EXCEPT !.bind = nb, !.absent = na]
  BY DEF WithBinding, row
<1> HIDE DEF nb, na
<1>7. e \in Store /\ e.route = d.route /\ e.bind = nb
  BY <1>4, <1>5, <1>6 DEF Store
<1> QED
  BY <1>3, <1>4, <1>7

\* Whether a walk fits is a matter of the walk, the grid and the history.
LEMMA FitsAgain ==
    ASSUME NEW w, NEW v, WalkFits(w), v.s.walk = w.s.walk, v.s.serving = w.s.serving,
           v.log = w.log
    PROVE  WalkFits(v)
<1> DEFINE k == v.s.walk
<1>1. /\ \A i, j \in DOMAIN k.order : k.order[i] = k.order[j] => i = j
      /\ k.left \subseteq DOMAIN k.order
  BY DEF WalkFits
<1>2. \A i \in k.left : v.log.asks[k.order[i]] = 0 /\ k.order[i] # v.s.serving
  BY DEF WalkFits
<1>3. k.origin = "flip" => v.s.serving # None /\ DOMAIN k.order = {1}
  BY DEF WalkFits
<1>4. k.origin = "forced" =>
        /\ v.s.serving = None /\ DOMAIN k.order = {1}
        /\ \A p \in Providers \ {k.order[1]} : v.log.asks[p] = 0
        /\ 1 \in k.left \/ v.log.asks[k.order[1]] > 0
  BY DEF WalkFits
<1>5. \A p : Covered(v, p) <=> Covered(w, p)
  BY DEF Covered
<1>6. k.origin = "fallback" /\ v.s.serving = None =>
        \A p \in Providers : Covered(v, p) \/ \E i \in k.left : k.order[i] = p
  BY <1>5 DEF WalkFits
<1> QED
  BY <1>1, <1>2, <1>3, <1>4, <1>6 DEF WalkFits

\* The answer of a live worker is the one that is awaited.
HeardOf(w, j, v) ==
    /\ Ready(v) /\ v.db = w.db /\ v.log = w.log /\ v.s.walk = w.s.walk
    /\ v.s.show = w.s.show /\ v.s.serving = w.s.serving
    /\ v.jobs = w.jobs \ {j} /\ Awaited(w, j)

\* Once the awaited answer is heard the handler may ask again.
LEMMA HeardIsReady ==
    ASSUME NEW w, Sound(w), NEW j \in w.jobs, j.kind # "probe", j.live,
           NEW v, v = Heard(w, j)
    PROVE  HeardOf(w, j, v)
<1> DEFINE ns == [w.s EXCEPT !.loading = FALSE]
<1>1. w \in Worlds /\ w.s \in Session /\ w.jobs \in SUBSET Job /\ Plain(w)
  BY DEF Sound, Plain, Worlds
<1>2. j \in Live(w.jobs)
  BY DEF Live
<1>3. w.s.loading /\ ~w.s.noSource /\ Awaited(w, j)
  BY <1>2 DEF Sound, Awaited
<1>4. v = [w EXCEPT !.s = ns, !.jobs = @ \ {j}]
  BY <1>1 DEF Heard, Answered, Worlds
<1>5. ns \in Session
  BY <1>1 DEF Session
<1>6. /\ ns.show = w.s.show /\ ns.serving = w.s.serving /\ ns.listing = w.s.listing
      /\ ns.walk = w.s.walk /\ ~ns.loading /\ (ns.noSource <=> w.s.noSource)
  BY <1>1 DEF Session
<1> HIDE DEF ns
<1>7. v \in Worlds /\ v.db = w.db /\ v.jobs = w.jobs \ {j} /\ v.log = w.log /\ v.s = ns
  BY <1>1, <1>4, <1>5 DEF Worlds
<1>8. Live(v.jobs) = {}
  BY <1>3, <1>7 DEF Live, Awaited
<1>9. Plain(v)
  BY <1>1, <1>6, <1>7 DEF Plain
<1>10. w.s.walk # None => WalkFits(v)
  BY <1>3, <1>6, <1>7 DEF Awaited, WalkFits, Covered
<1>11. Ready(v)
  BY <1>3, <1>6, <1>7, <1>8, <1>9, <1>10 DEF Ready, Awaited
<1> QED
  BY <1>3, <1>6, <1>7, <1>11 DEF HeardOf

\* The store and the fetch's mark are rewritten before the walk goes on.
StoredOf(w, d, v) ==
    /\ Ready(v) /\ v.db = d /\ v.jobs = w.jobs /\ v.log = w.log
    /\ v.s.walk = w.s.walk /\ v.s.show = w.s.show /\ v.s.serving = w.s.serving

\* Saving what it brought changes nothing of that.
LEMMA StoredIsReady ==
    ASSUME NEW w, Ready(w), NEW d \in Store,
           NEW v, v = [w EXCEPT !.db = d, !.s.mint = FALSE]
    PROVE  StoredOf(w, d, v)
<1> DEFINE ns == [w.s EXCEPT !.mint = FALSE]
<1>1. w \in Worlds /\ w.s \in Session /\ Plain(w) /\ ~w.s.loading /\ ~w.s.noSource
  BY DEF Ready, Plain, Worlds
<1>2. v = [w EXCEPT !.db = d, !.s = ns]
  BY <1>1 DEF Worlds
<1>3. ns \in Session
  BY <1>1 DEF Session
<1>4. /\ ns.show = w.s.show /\ ns.serving = w.s.serving /\ ns.listing = w.s.listing
      /\ ns.walk = w.s.walk /\ ~ns.loading /\ ~ns.noSource
  BY <1>1 DEF Session
<1> HIDE DEF ns
<1>5. v \in Worlds /\ v.db = d /\ v.jobs = w.jobs /\ v.log = w.log /\ v.s = ns
  BY <1>1, <1>2, <1>3 DEF Worlds
<1>6. Plain(v)
  BY <1>1, <1>4, <1>5 DEF Plain
<1>7. v.s.walk = w.s.walk /\ v.s.serving = w.s.serving /\ v.log = w.log
  BY <1>4, <1>5
<1>9. w.s.walk # None => WalkFits(v)
  BY <1>7, FitsAgain DEF Ready
<1>8. Ready(v)
  BY <1>4, <1>5, <1>6, <1>7, <1>9 DEF Ready
<1> QED
  BY <1>4, <1>5, <1>8 DEF StoredOf

\* A grid that came ends the walk and serves what was asked.
LEMMA ListedIsSound ==
    ASSUME NEW w, Ready(w), NEW j \in Job, j.show = w.s.show, j.id \in Ids,
           NEW v, v = Listed(w, j)
    PROVE  /\ Sound(v) /\ v.db.route = w.db.route /\ v.log.forced = w.log.forced
           /\ v.s.walk = None /\ Probes(v.jobs) = Probes(w.jobs)
<1> DEFINE bound == WithBinding(w.db, j.show, j.provider, j.id)
           d == IF w.s.mint THEN bound ELSE w.db
           nd == [d EXCEPT !.cache[j.show][j.provider] = j.id]
           x == [w EXCEPT !.db = nd, !.s.mint = FALSE]
<1>1. w \in Worlds /\ w.db \in Store /\ w.s.show \in Shows
  BY DEF Ready, Plain, Worlds
<1>2. j.show \in Shows /\ j.provider \in Providers /\ j.id \in OrNone(Ids)
  BY DEF Job
<1>3. d \in Store /\ d.route = w.db.route
  BY <1>1, <1>2, BindingIs
<1> HIDE DEF d
<1>4. nd \in Store /\ nd.route = d.route
  <2> DEFINE nc == [d.cache EXCEPT ![j.show][j.provider] = j.id]
  <2>1. nc \in [Shows -> [Providers -> OrNone(Ids)]]
    BY <1>2, <1>3 DEF Store
  <2>2. nd = [d EXCEPT !.cache = nc]
    BY <1>3 DEF Store
  <2> HIDE DEF nc
  <2> QED
    BY <1>3, <2>1, <2>2 DEF Store
<1>5. v = Land(x, j.provider, j.id, ListingOf(j.show, j.provider, j.id))
  BY DEF Listed, d
<1> HIDE DEF nd
<1>9. StoredOf(w, nd, x)
  BY <1>4, StoredIsReady
<1> HIDE DEF x
<1>6. Ready(x) /\ x.db = nd /\ x.jobs = w.jobs /\ x.log = w.log /\ x.s.show = w.s.show
  BY <1>9 DEF StoredOf
<1>7. Plain(x) /\ Live(x.jobs) = {} /\ x.s.show \in Shows
  BY <1>6 DEF Ready
<1>8. Sound(v) /\ Follows(x, v) /\ v.s.walk = None /\ v.jobs = x.jobs
  BY <1>2, <1>5, <1>6, <1>7, LandIsSound
<1> QED
  BY <1>3, <1>4, <1>6, <1>8 DEF Follows

\* An empty answer goes on with the walk, or starts the fallback walk.
LEMMA NotStockedIsSound ==
    ASSUME NEW w, Ready(w), NEW j \in Job, j.show = w.s.show,
           w.s.walk = None =>
             /\ w.s.serving = None /\ w.log.asks[j.provider] > 0
             /\ \A q \in Providers \ {j.provider} : w.log.asks[q] = 0,
           NEW v, v = NotStocked(w, j)
    PROVE  /\ Sound(v) /\ v.db.route = w.db.route /\ v.log.forced = w.log.forced
           /\ Probes(v.jobs) = Probes(w.jobs)
           /\ v.s.walk # None => v.s.serving = w.s.serving
           /\ w.s.walk # None /\ w.s.walk.left = {} /\ w.s.serving # None =>
                v.s.walk = None
<1> DEFINE d == WithAbsence(w.db, j.show, j.provider)
           x == [w EXCEPT !.db = d, !.s.mint = FALSE]
<1>1. w \in Worlds /\ w.db \in Store /\ w.s.show \in Shows
  BY DEF Ready, Plain, Worlds
<1>2. j.show \in Shows /\ j.provider \in Providers
  BY DEF Job
<1>3. d \in Store /\ d.route = w.db.route
  BY <1>1, <1>2 DEF WithAbsence, Store
<1>4. v = FailOver(x, j.provider)
  BY DEF NotStocked
<1> HIDE DEF d
<1>7. StoredOf(w, d, x)
  BY <1>3, StoredIsReady
<1> HIDE DEF x
<1>5. /\ Ready(x) /\ x.db = d /\ x.jobs = w.jobs /\ x.log = w.log
      /\ x.s.walk = w.s.walk /\ x.s.serving = w.s.serving
  BY <1>7 DEF StoredOf
<1>6. /\ Sound(v) /\ Follows(x, v)
      /\ x.s.walk # None /\ x.s.walk.left = {} /\ x.s.serving # None => v.s.walk = None
  BY <1>2, <1>4, <1>5, FailOverIsSound
<1> QED
  BY <1>3, <1>5, <1>6 DEF Follows

-----------------------------------------------------------------------------
\* The steps keep the invariant.

\* A play that has a continuation goes with no walk, or with a flip's: the walk
\* of a failed play is over before the next play starts.
PlayEndsWalk ==
    play # None /\ cont # None /\ s.walk # None /\ s.serving # None => s.walk.left = {}

\* The stamp of the forced re-route is written with the walk it starts.
ForcedIsStamped ==
    \A show \in Shows : /\ log.forced[show] <= 1
                        /\ log.forced[show] > 0 => db.route[show] = GlobalPref

WalkInv ==
    /\ Sound(World) /\ TypeOK
    /\ ContinuationRides
    /\ PlayEndsWalk
    /\ ForcedIsStamped

\* A handler that becomes a world sets the four variables from it.
LEMMA BecomesIs ==
    ASSUME NEW w \in Worlds, Becomes(w)
    PROVE  World' = w /\ db' = w.db /\ s' = w.s /\ jobs' = w.jobs /\ log' = w.log
<1>1. w = [db |-> w.db, s |-> w.s, jobs |-> w.jobs, log |-> w.log]
  BY DEF Worlds
<1> QED
  BY <1>1 DEF World, Becomes

\* The world is made of the four variables.
LEMMA WorldIs ==
    /\ World.db = db /\ World.s = s /\ World.jobs = jobs /\ World.log = log
    /\ TypeOK => World \in Worlds
BY DEF World, TypeOK, Worlds

\* maybe_continue_play leaves no continuation behind that nothing will wake.
LEMMA ContinuesKeeps ==
    ASSUME NEW w, Sound(w), Becomes(w),
           NEW pl \in OrNone(Play), NEW c \in OrNone(Continuation), Continues(w, pl, c),
           pl # None /\ c # None /\ w.s.walk # None /\ w.s.serving # None =>
             w.s.walk.left = {}
    PROVE  /\ play' \in OrNone(Play) /\ cont' \in OrNone(Continuation)
           /\ ContinuationRides' /\ PlayEndsWalk'
<1>1. w \in Worlds /\ w.s \in Session
  BY DEF Sound, Plain, Worlds
<1>2. db' = w.db /\ s' = w.s /\ jobs' = w.jobs /\ log' = w.log
  BY <1>1, BecomesIs
<1>3. ASSUME play' # None PROVE ContinuationRides'
  BY <1>3 DEF ContinuationRides
<1>4. ASSUME cont' = None PROVE ContinuationRides' /\ PlayEndsWalk'
  BY <1>4 DEF ContinuationRides, PlayEndsWalk
<1>5. None \in OrNone(Play) /\ None \in OrNone(Continuation)
  BY DEF OrNone
<1>6. CASE pl # None \/ c = None
  <2>1. play' = pl /\ cont' = c
    BY <1>6 DEF Continues
  <2>2. PlayEndsWalk'
    BY <1>2, <2>1 DEF PlayEndsWalk
  <2> QED
    BY <1>3, <1>4, <1>6, <2>1, <2>2
<1>7. CASE cont' = None /\ play' = pl
  BY <1>4, <1>5, <1>7
<1>8. CASE pl = None /\ c # None /\ w.s.show = c.show /\ ~w.s.noSource
           /\ (w.s.loading \/ w.s.serving = None)
  <2>1. play' = pl /\ cont' = c
    BY <1>8 DEF Continues
  <2>2. w.s.loading
    <3>1. c.show \in Shows
      BY <1>8 DEF OrNone, Continuation
    <3>2. w.s.show # None
      BY <1>8, <3>1, RegistryAssumption
    <3> QED
      BY <1>8, <3>2 DEF Sound
  <2>3. PICK j \in w.jobs : Live(w.jobs) = {j}
    BY <2>2 DEF Sound, Awaited
  <2>4. j.kind # "probe"
    BY <2>3 DEF Live
  <2>5. SessionJobs' # {}
    BY <1>2, <2>4 DEF SessionJobs
  <2>6. PlayEndsWalk'
    BY <1>8, <2>1 DEF PlayEndsWalk
  <2> QED
    BY <2>1, <2>5, <2>6 DEF ContinuationRides
<1>9. CASE /\ pl = None /\ c # None /\ w.s.show = c.show /\ ~w.s.loading
           /\ w.s.serving # None /\ cont' = c
           /\ play' = [show |-> c.show, provider |-> w.s.serving, up |-> FALSE]
  <2>1. play' \in Play
    BY <1>1, <1>9 DEF OrNone, Continuation, Session, Play
  <2>2. play' # None
    BY <2>1, NoneIsNothing
  <2>3. w.s.walk = None
    BY <1>9 DEF Sound
  <2>4. PlayEndsWalk'
    BY <1>2, <2>3 DEF PlayEndsWalk
  <2> QED
    BY <1>3, <1>9, <2>1, <2>2, <2>4 DEF OrNone
<1> QED
  BY <1>6, <1>7, <1>8, <1>9 DEF Continues

\* An answer to the session keeps the invariant if the world it makes is sound.
LEMMA RidesKeeps ==
    ASSUME WalkInv, NEW w, Sound(w), Rides(w),
           w.db.route = db.route, w.log.forced = log.forced,
           Probes(w.jobs) = Probes(jobs),
           play # None /\ cont # None /\ w.s.walk # None /\ w.s.serving # None =>
             w.s.walk.left = {}
    PROVE  WalkInv' /\ Probes(jobs') = Probes(jobs)
<1>1. w \in Worlds
  BY DEF Sound, Plain
<1>2. /\ World' = w /\ db' = w.db /\ s' = w.s /\ jobs' = w.jobs /\ log' = w.log
      /\ warm' = warm /\ gestures' = gestures /\ expiries' = expiries
  BY <1>1, BecomesIs DEF Rides
<1>3. play \in OrNone(Play) /\ cont \in OrNone(Continuation)
  BY DEF WalkInv, TypeOK
<1>4. /\ play' \in OrNone(Play) /\ cont' \in OrNone(Continuation)
      /\ ContinuationRides' /\ PlayEndsWalk'
  BY <1>3, ContinuesKeeps DEF Rides
<1>5. TypeOK'
  BY <1>1, <1>2, <1>4 DEF WalkInv, TypeOK, Worlds
<1>6. ForcedIsStamped'
  BY <1>2 DEF WalkInv, ForcedIsStamped
<1> QED
  BY <1>2, <1>4, <1>5, <1>6 DEF WalkInv

\* A late answer is not the one that is awaited.
LEMMA DroppedKeeps ==
    ASSUME WalkInv, NEW j \in jobs, j.kind # "probe", Dropped(j)
    PROVE  WalkInv' /\ Probes(jobs') = Probes(jobs)
<1> DEFINE v == Answered(World, j)
<1>1. Sound(World) /\ World \in Worlds /\ Plain(World)
  BY DEF WalkInv, Sound, Plain
<1>2. World.db = db /\ World.s = s /\ World.jobs = jobs /\ World.log = log
  BY WorldIs
<1>3. v \in Worlds /\ v.db = db /\ v.s = s /\ v.jobs = jobs \ {j} /\ v.log = log
  BY <1>1, <1>2 DEF Answered, Worlds
<1>4. Rides(v) /\ IsStale(j)
  BY DEF Dropped
<1> HIDE DEF v
<1>5. Plain(v) /\ Probes(v.jobs) = Probes(jobs)
  BY <1>1, <1>2, <1>3 DEF Plain, Probes
<1>6. CASE s.loading
  <2>1. PICK i \in jobs : Awaited(World, i)
    BY <1>1, <1>2, <1>6 DEF Sound
  <2>2. i \in Live(jobs) /\ i.show = s.show
    BY <1>2, <2>1 DEF Awaited
  <2>3. i.live
    BY <2>2 DEF Live
  <2>4. i # j
    BY <1>4, <2>2, <2>3 DEF IsStale
  <2>5. Live(v.jobs) = Live(jobs)
    BY <1>2, <1>3, <2>1, <2>4 DEF Live, Awaited
  <2>6. WalkFits(World) => WalkFits(v)
    BY <1>2, <1>3, FitsAgain
  <2>7. Awaited(v, i) /\ i \in v.jobs
    BY <1>2, <1>3, <2>1, <2>4, <2>5, <2>6 DEF Awaited
  <2>8. ~s.noSource
    BY <1>1, <1>2, <1>6 DEF Sound
  <2> QED
    BY <1>3, <1>5, <1>6, <2>7, <2>8, <1>4, RidesKeeps DEF Sound, WalkInv, PlayEndsWalk
<1>7. CASE ~s.loading
  <2>1. /\ Live(jobs) = {} /\ s.walk = None /\ s.aim = None
        /\ s.show = None \/ s.serving # None \/ s.noSource
        /\ s.noSource => s.serving = None /\ \A p \in Providers : Covered(World, p)
    BY <1>1, <1>2, <1>7 DEF Sound
  <2>2. Live(v.jobs) = {}
    BY <1>3, <2>1 DEF Live
  <2>3. \A p \in Providers : Covered(World, p) => Covered(v, p)
    BY <1>2, <1>3 DEF Covered
  <2>4. Sound(v)
    BY <1>3, <1>5, <1>7, <2>1, <2>2, <2>3 DEF Sound
  <2> QED
    BY <1>3, <1>4, <1>5, <2>1, <2>4, RidesKeeps
<1> QED
  BY <1>6, <1>7

\* What is known when an answer that is awaited comes in.
LEMMA AnswerIsAwaited ==
    ASSUME WalkInv, NEW j \in jobs, j.kind # "probe", ~IsStale(j),
           NEW w, w = Heard(World, j)
    PROVE  /\ Ready(w) /\ j \in Job /\ j.show = w.s.show
           /\ w.db.route = db.route /\ w.log.forced = log.forced
           /\ w.s.walk = s.walk /\ w.s.serving = s.serving
           /\ Probes(w.jobs) = Probes(jobs)
           /\ j.kind = "fetch" => j.id \in Ids
           /\ s.walk = None => /\ j.kind = "fetch" /\ s.serving = None
                               /\ w.log.asks[j.provider] > 0
                               /\ \A p \in Providers \ {j.provider} : w.log.asks[p] = 0
           /\ s.walk # None /\ s.walk.origin # "fallback" => s.walk.left = {}
           /\ play # None /\ cont # None /\ w.s.walk # None /\ w.s.serving # None =>
                w.s.walk.left = {}
<1>1. Sound(World) /\ j.live /\ j \in World.jobs /\ j \in Job
  BY WorldIs DEF WalkInv, IsStale, TypeOK
<1>2. HeardOf(World, j, w)
  BY <1>1, HeardIsReady
<1>3. World.db = db /\ World.s = s /\ World.jobs = jobs /\ World.log = log
  BY WorldIs
<1>4. /\ Ready(w) /\ w.db = db /\ w.log = log /\ w.s.walk = s.walk
      /\ w.s.show = s.show /\ w.s.serving = s.serving /\ Awaited(World, j)
      /\ w.jobs = jobs \ {j}
  BY <1>2, <1>3 DEF HeardOf
<1>5. /\ j.show = s.show /\ (j.kind = "fetch" => j.id \in Ids)
      /\ s.walk # None => (s.walk.origin # "fallback" => s.walk.left = {})
      /\ s.walk = None => /\ j.kind = "fetch" /\ s.serving = None
                          /\ log.asks[j.provider] > 0
                          /\ \A p \in Providers \ {j.provider} : log.asks[p] = 0
  BY <1>3, <1>4 DEF Awaited
<1>6. Probes(w.jobs) = Probes(jobs)
  BY <1>4 DEF Probes
<1> QED
  BY <1>1, <1>4, <1>5, <1>6 DEF WalkInv, PlayEndsWalk

\* The two ways an episode list is answered keep the invariant.
LEMMA NotStockedKeeps ==
    ASSUME WalkInv, NEW j \in jobs, j.kind = "fetch", ~IsStale(j),
           Rides(NotStocked(Heard(World, j), j))
    PROVE  WalkInv' /\ Probes(jobs') = Probes(jobs)
<1> DEFINE w == Heard(World, j)
           v == NotStocked(w, j)
<1>1. /\ Ready(w) /\ j \in Job /\ j.show = w.s.show
      /\ w.db.route = db.route /\ w.log.forced = log.forced
      /\ w.s.walk = s.walk /\ w.s.serving = s.serving
      /\ Probes(w.jobs) = Probes(jobs)
      /\ s.walk = None => /\ s.serving = None
                          /\ w.log.asks[j.provider] > 0
                          /\ \A p \in Providers \ {j.provider} : w.log.asks[p] = 0
      /\ play # None /\ cont # None /\ w.s.walk # None /\ w.s.serving # None =>
           w.s.walk.left = {}
  BY AnswerIsAwaited
<1> HIDE DEF w
<1>2. /\ Sound(v) /\ v.db.route = w.db.route /\ v.log.forced = w.log.forced
      /\ Probes(v.jobs) = Probes(w.jobs)
      /\ v.s.walk # None => v.s.serving = w.s.serving
      /\ w.s.walk # None /\ w.s.walk.left = {} /\ w.s.serving # None => v.s.walk = None
  BY <1>1, NotStockedIsSound
<1>3. v.s.walk # None => w.s.walk # None \/ v.s.serving = None
  BY <1>1, <1>2
<1>4. Rides(v)
  BY DEF w
<1> HIDE DEF v
<1> QED
  BY <1>1, <1>2, <1>3, <1>4, RidesKeeps

LEMMA ListedKeeps ==
    ASSUME WalkInv, NEW j \in jobs, j.kind = "fetch", ~IsStale(j),
           Rides(Listed(Heard(World, j), j))
    PROVE  WalkInv' /\ Probes(jobs') = Probes(jobs)
<1> DEFINE w == Heard(World, j)
           v == Listed(w, j)
<1>1. /\ Ready(w) /\ j \in Job /\ j.show = w.s.show /\ j.id \in Ids
      /\ w.db.route = db.route /\ w.log.forced = log.forced
      /\ Probes(w.jobs) = Probes(jobs)
  BY AnswerIsAwaited
<1> HIDE DEF w
<1>2. /\ Sound(v) /\ v.db.route = w.db.route /\ v.log.forced = w.log.forced
      /\ Probes(v.jobs) = Probes(w.jobs)
      /\ v.s.walk = None
  BY <1>1, ListedIsSound
<1>3. Rides(v)
  BY DEF w
<1> HIDE DEF v
<1> QED
  BY <1>1, <1>2, <1>3, RidesKeeps

\* Every action keeps the invariant: first the answers.
LEMMA EpisodesDoneKeeps ==
    ASSUME WalkInv, NEW j \in jobs, EpisodesDone(j)
    PROVE  WalkInv' /\ Probes(jobs') = Probes(jobs)
<1>1. j.kind = "fetch"
  BY DEF EpisodesDone
<1> QED
  BY <1>1, DroppedKeeps, ListedKeeps, NotStockedKeeps DEF EpisodesDone

LEMMA EpisodesErrorKeeps ==
    ASSUME WalkInv, NEW j \in jobs, EpisodesError(j)
    PROVE  WalkInv' /\ Probes(jobs') = Probes(jobs)
<1> DEFINE w == Heard(World, j)
           v == FailOver(w, j.provider)
<1>0. j.kind = "fetch" /\ ~IsStale(j) /\ Rides(v)
  BY DEF EpisodesError
<1>1. /\ Ready(w) /\ j \in Job
      /\ w.db.route = db.route /\ w.log.forced = log.forced
      /\ w.s.walk = s.walk /\ w.s.serving = s.serving
      /\ Probes(w.jobs) = Probes(jobs)
      /\ s.walk = None => /\ s.serving = None
                          /\ w.log.asks[j.provider] > 0
                          /\ \A p \in Providers \ {j.provider} : w.log.asks[p] = 0
      /\ play # None /\ cont # None /\ w.s.walk # None /\ w.s.serving # None =>
           w.s.walk.left = {}
  BY <1>0, AnswerIsAwaited
<1>2. j.provider \in Providers
  BY <1>1 DEF Job
<1> HIDE DEF w
<1>3. /\ Sound(v) /\ Follows(w, v)
      /\ w.s.walk # None /\ w.s.walk.left = {} /\ w.s.serving # None => v.s.walk = None
  BY <1>1, <1>2, FailOverIsSound
<1>4. /\ v.db.route = db.route /\ v.log.forced = log.forced
      /\ Probes(v.jobs) = Probes(jobs)
      /\ v.s.walk # None => v.s.serving = w.s.serving
  BY <1>1, <1>3 DEF Follows
<1> HIDE DEF v
<1> QED
  BY <1>0, <1>1, <1>3, <1>4, RidesKeeps

LEMMA SearchDoneKeeps ==
    ASSUME WalkInv, NEW j \in jobs, SearchDone(j)
    PROVE  WalkInv' /\ Probes(jobs') = Probes(jobs)
<1> DEFINE w == Heard(World, j)
<1>0. j.kind = "search" /\ (Dropped(j) \/ ~IsStale(j))
  BY DEF SearchDone
<1>1. CASE Dropped(j)
  BY <1>0, <1>1, DroppedKeeps
<1>2. ASSUME ~IsStale(j)
      PROVE  /\ Ready(w) /\ j.provider \in Providers /\ j.show \in Shows
             /\ w.db.route = db.route /\ w.log.forced = log.forced
             /\ w.s.walk = s.walk /\ w.s.walk # None /\ w.s.serving = s.serving
             /\ Probes(w.jobs) = Probes(jobs)
             /\ w.s.walk.origin # "fallback" => w.s.walk.left = {}
             /\ play # None /\ cont # None /\ w.s.serving # None => w.s.walk.left = {}
  BY <1>0, <1>2, AnswerIsAwaited DEF Job
<1> HIDE DEF w
<1>3. ASSUME ~IsStale(j), NEW id \in Hits[j.show][j.provider],
             Rides(FireFetch(w, j.provider, id, TRUE))
      PROVE  WalkInv' /\ Probes(jobs') = Probes(jobs)
  <2> DEFINE v == Fire(w, "fetch", j.provider, id, TRUE)
  <2>1. id \in Ids /\ id \in OrNone(Ids)
    BY <1>2, <1>3, SitesAssumption DEF OrNone
  <2>2. Allowed(w, "fetch", j.provider)
    BY <1>2, <1>3 DEF Allowed
  <2>3. "fetch" \in Asking /\ TRUE \in Flag
    BY DEF Asking, Flag
  <2>4. Sound(v) /\ Follows(w, v)
    BY <1>2, <1>3, <2>1, <2>2, <2>3, FireIsSound
  <2>5. v.s.walk = w.s.walk
    <3>1. w \in Worlds /\ w.s.show \in Shows
      BY <1>2, <1>3 DEF Ready, Plain
    <3>2. Fired(w, "fetch", j.provider, id, v)
      BY <1>2, <1>3, <2>1, <2>3, <3>1, FireIs
    <3> QED
      BY <3>2 DEF Fired
  <2>6. Rides(v)
    BY <1>3 DEF FireFetch
  <2> HIDE DEF v
  <2>7. /\ v.db.route = db.route /\ v.log.forced = log.forced
        /\ Probes(v.jobs) = Probes(jobs)
        /\ v.s.walk # None => v.s.serving = w.s.serving
    BY <1>2, <1>3, <2>4 DEF Follows
  <2> QED
    BY <1>2, <1>3, <2>4, <2>5, <2>6, <2>7, RidesKeeps
<1>4. ASSUME ~IsStale(j), Rides(AdvanceWalk(w))
      PROVE  WalkInv' /\ Probes(jobs') = Probes(jobs)
  <2> DEFINE v == AdvanceWalk(w)
  <2>1. /\ Sound(v) /\ Follows(w, v)
        /\ w.s.walk.left = {} /\ w.s.serving # None => v.s.walk = None
    BY <1>2, <1>4, AdvanceIsSound
  <2> HIDE DEF v
  <2>2. /\ v.db.route = db.route /\ v.log.forced = log.forced
        /\ Probes(v.jobs) = Probes(jobs)
        /\ v.s.walk # None => v.s.serving = w.s.serving
    BY <1>2, <1>4, <2>1 DEF Follows
  <2>3. Rides(v)
    BY <1>4 DEF v
  <2> QED
    BY <1>2, <1>4, <2>1, <2>2, <2>3, RidesKeeps
<1> QED
  BY <1>1, <1>3, <1>4 DEF SearchDone, w

\* A step that leaves the session, its history and its live workers alone.
LEMMA QuietIsSound ==
    ASSUME Sound(World), db' \in Store, s' = s, log' = log, jobs' \in SUBSET Job,
           Live(jobs') = Live(jobs)
    PROVE  Sound(World')
<1>1. World \in Worlds /\ Plain(World)
  BY DEF Sound, Plain
<1>2. World.db = db /\ World.s = s /\ World.jobs = jobs /\ World.log = log
  BY WorldIs
<1> DEFINE v == World'
<1>3. v \in Worlds /\ v.db = db' /\ v.s = s /\ v.jobs = jobs' /\ v.log = log
  BY <1>1 DEF World, Worlds
<1> HIDE DEF v
<1>4. Plain(v)
  BY <1>1, <1>2, <1>3 DEF Plain
<1>5. CASE s.loading
  <2>1. PICK i \in jobs : Awaited(World, i)
    BY <1>2, <1>5 DEF Sound
  <2>2. WalkFits(World) => WalkFits(v)
    BY <1>2, <1>3, FitsAgain
  <2>3. i \in Live(jobs')
    BY <1>2, <2>1 DEF Awaited
  <2>4. Awaited(v, i) /\ i \in v.jobs
    BY <1>2, <1>3, <2>1, <2>2, <2>3 DEF Awaited, Live
  <2>5. ~s.noSource
    BY <1>2, <1>5 DEF Sound
  <2> QED
    BY <1>3, <1>4, <1>5, <2>4, <2>5 DEF Sound, v
<1>6. CASE ~s.loading
  <2>1. /\ Live(jobs) = {} /\ s.walk = None /\ s.aim = None
        /\ s.show = None \/ s.serving # None \/ s.noSource
        /\ s.noSource => s.serving = None /\ \A p \in Providers : Covered(World, p)
    BY <1>2, <1>6 DEF Sound
  <2>2. \A p \in Providers : Covered(World, p) => Covered(v, p)
    BY <1>2, <1>3 DEF Covered
  <2> QED
    BY <1>3, <1>4, <1>6, <2>1, <2>2 DEF Sound, v
<1> QED
  BY <1>5, <1>6

\* A step of the pre-warm, the plays, another process or time.
LEMMA QuietKeeps ==
    ASSUME WalkInv, db' \in Store, db'.route = db.route, s' = s, log' = log,
           jobs' \in SUBSET Job,
           Live(jobs') = Live(jobs), Waiting(jobs) \subseteq Waiting(jobs'),
           warm' \in OrNone(Warm), play' \in OrNone(Play),
           cont' \in OrNone(Continuation),
           gestures' \in 0..MaxGestures, expiries' \in 0..MaxExpiries,
           cont' # None => /\ cont' = cont
                           /\ \/ play' = play
                              \/ play # None /\ play' # None
    PROVE  WalkInv'
<1>1. Sound(World')
  BY QuietIsSound DEF WalkInv
<1>2. TypeOK'
  BY DEF WalkInv, TypeOK
<1>3. ContinuationRides'
  BY DEF WalkInv, ContinuationRides, SessionJobs, Waiting
<1>4. PlayEndsWalk'
  BY DEF WalkInv, PlayEndsWalk
<1>5. ForcedIsStamped'
  BY DEF WalkInv, ForcedIsStamped
<1> QED
  BY <1>1, <1>2, <1>3, <1>4, <1>5 DEF WalkInv

\* The bound of the gestures and the run that is cancelled.
LEMMA GestureIs == ASSUME TypeOK, Gesture PROVE gestures' \in 0..MaxGestures
BY BoundsAssumption DEF TypeOK, Gesture

\* Opening a show makes the pre-warm yield.
LEMMA YieldedIs == ASSUME TypeOK PROVE Yielded \in OrNone(Warm)
<1>1. CASE warm # None /\ warm.out
  <2>1. warm \in Warm
    BY <1>1 DEF TypeOK, OrNone
  <2>2. [warm EXCEPT !.yielding = TRUE] \in Warm
    BY <1>1, <2>1 DEF Warm
  <2> QED
    BY <1>1, <2>2 DEF Yielded, OrNone
<1>2. CASE ~(warm # None /\ warm.out)
  BY <1>2 DEF Yielded, OrNone
<1> QED
  BY <1>1, <1>2

\* A gesture whose handler makes a sound world of the old one.
LEMMA GestureKeeps ==
    ASSUME WalkInv, Gesture, warm' = Yielded, NEW w, Sound(w), Becomes(w),
           UNCHANGED <<play, cont, expiries>>,
           Waiting(jobs) # {} => Waiting(w.jobs) # {},
           Probes(w.jobs) = Probes(jobs),
           w.s.walk # None /\ w.s.serving # None /\ play # None /\ cont # None =>
             w.s.walk.left = {},
           \A show \in Shows : /\ w.log.forced[show] <= 1
                               /\ w.log.forced[show] > 0 => w.db.route[show] = GlobalPref
    PROVE  WalkInv' /\ Probes(jobs') = Probes(jobs)
<1>1. w \in Worlds
  BY DEF Sound, Plain
<1>2. World' = w /\ db' = w.db /\ s' = w.s /\ jobs' = w.jobs /\ log' = w.log
  BY <1>1, BecomesIs
<1>3. TypeOK'
  BY <1>1, <1>2, GestureIs, YieldedIs DEF WalkInv, TypeOK, Worlds
<1>4. ContinuationRides'
  BY <1>2 DEF WalkInv, ContinuationRides, SessionJobs, Waiting
<1>5. PlayEndsWalk'
  BY <1>2 DEF PlayEndsWalk
<1>6. ForcedIsStamped'
  BY <1>2 DEF ForcedIsStamped
<1> QED
  BY <1>2, <1>3, <1>4, <1>5, <1>6 DEF WalkInv

\* Then the keys: open, pin the next provider, play.
LEMMA OpenKeeps ==
    ASSUME WalkInv, NEW show \in Shows, Open(show)
    PROVE  WalkInv' /\ Probes(jobs') = Probes(jobs)
<1>1. Sound(World) /\ World \in Worlds
  BY DEF WalkInv, Sound, Plain
<1>2. World.db = db /\ World.s = s /\ World.jobs = jobs /\ World.log = log
  BY WorldIs
<1>3. CASE Held(show)
  BY <1>1, <1>2, <1>3, GestureKeeps DEF Open, WalkInv, ForcedIsStamped, PlayEndsWalk
<1>4. CASE ~Held(show)
  <2> DEFINE v == Engage(World, show)
  <2>1. Becomes(v)
    BY <1>4 DEF Open
  <2>2. /\ Sound(v)
        /\ Waiting(jobs) # {} => Waiting(v.jobs) # {}
        /\ Probes(v.jobs) = Probes(jobs)
        /\ v.s.walk # None => v.s.serving = None
        /\ \/ v.db = db /\ v.log.forced = log.forced
           \/ /\ db.route[show] # GlobalPref
              /\ v.db.route = [db.route EXCEPT ![show] = GlobalPref]
              /\ v.log.forced = [log.forced EXCEPT ![show] = IF @ < 2 THEN @ + 1 ELSE @]
    BY <1>1, <1>2, EngageIsSound
  <2> HIDE DEF v
  <2>3. \A x \in Shows : /\ v.log.forced[x] <= 1
                         /\ v.log.forced[x] > 0 => v.db.route[x] = GlobalPref
    <3>1. CASE v.db = db /\ v.log.forced = log.forced
      BY <3>1 DEF WalkInv, ForcedIsStamped
    <3>2. CASE /\ db.route[show] # GlobalPref
               /\ v.db.route = [db.route EXCEPT ![show] = GlobalPref]
               /\ v.log.forced = [log.forced EXCEPT ![show] = IF @ < 2 THEN @ + 1 ELSE @]
      <4>1. log.forced \in [Shows -> 0..2] /\ db.route \in [Shows -> OrNone(Providers)]
        BY DEF WalkInv, TypeOK, Log, Store
      <4>2. log.forced[show] = 0
        BY <3>2, <4>1 DEF WalkInv, ForcedIsStamped
      <4>3. v.log.forced = [log.forced EXCEPT ![show] = 1]
        BY <3>2, <4>1, <4>2
      <4> QED
        BY <3>2, <4>1, <4>3 DEF WalkInv, ForcedIsStamped
    <3> QED
      BY <2>2, <3>1, <3>2
  <2> QED
    BY <2>1, <2>2, <2>3, GestureKeeps DEF Open
<1> QED
  BY <1>3, <1>4

LEMMA CyclePinKeeps ==
    ASSUME WalkInv, CyclePin
    PROVE  WalkInv' /\ Probes(jobs') = Probes(jobs)
<1> DEFINE next == NextPin(db.pin[s.show])
           nd == [db EXCEPT !.pin[s.show] = next]
           pinned == [World EXCEPT !.db = nd]
           k == PinFlip(next)
           ns == [s EXCEPT !.aim = next, !.walk = k]
           nl == [log EXCEPT !.asks = NothingAsked, !.passed = {}]
           x == [World EXCEPT !.db = nd, !.s = ns, !.log = nl]
           idle == s.show = None \/ s.loading \/ s.serving = None
           w == IF idle THEN World
                ELSE IF next \in {None, s.serving} THEN pinned
                ELSE AdvanceWalk(x)
<1>1. Sound(World) /\ World \in Worlds /\ Plain(World)
  BY DEF WalkInv, Sound, Plain
<1>2. World.db = db /\ World.s = s /\ World.jobs = jobs /\ World.log = log
  BY WorldIs
<1>3. db \in Store /\ s \in Session /\ jobs \in SUBSET Job /\ log \in Log
  BY DEF WalkInv, TypeOK
<1>4. Becomes(w) /\ Gesture /\ warm' = Yielded /\ UNCHANGED <<play, cont, expiries>>
  <2>1. pinned = [World EXCEPT !.db.pin[s.show] = next]
    BY DEF World
  <2>2. x = [pinned EXCEPT !.s.aim = next, !.s.walk = k,
                           !.log.asks = NothingAsked, !.log.passed = {}]
    BY DEF World
  <2> QED
    BY <2>1, <2>2 DEF CyclePin
<1>5. CASE idle
  BY <1>1, <1>2, <1>4, <1>5, GestureKeeps DEF WalkInv, ForcedIsStamped, PlayEndsWalk
<1>6. ASSUME ~idle
      PROVE  /\ nd \in Store /\ nd.route = db.route
             /\ s.show \in Shows /\ s.serving \in Providers /\ ~s.loading /\ ~s.noSource
             /\ s.walk = None /\ s.serving # None
             /\ Live(jobs) = {}
  <2>1. s.show \in Shows /\ s.serving \in Providers
    BY <1>3, <1>6 DEF Session, OrNone
  <2>2. next \in OrNone(Providers)
    <3> DEFINE at == IF db.pin[s.show] = None THEN 0
                     ELSE CHOOSE i \in DOMAIN Registry : Registry[i] = db.pin[s.show]
    <3>1. next = IF at + 1 \in DOMAIN Registry THEN Registry[at + 1] ELSE None
      BY DEF NextPin
    <3> HIDE DEF at, next
    <3> QED
      BY <3>1, RegistryAssumption DEF OrNone
  <2> HIDE DEF next
  <2>3. nd \in Store /\ nd.route = db.route
    BY <1>3, <2>1, <2>2 DEF Store
  <2> QED
    BY <1>1, <1>2, <1>6, <2>1, <2>3 DEF Sound
<1> HIDE DEF nd
<1>7. CASE ~idle /\ next \in {None, s.serving}
  <2>1. w = pinned
    BY <1>7
  <2>2. /\ pinned \in Worlds /\ pinned.db = nd /\ pinned.s = s /\ pinned.jobs = jobs
        /\ pinned.log = log
    BY <1>1, <1>2, <1>6, <1>7 DEF Worlds
  <2>3. Plain(pinned)
    BY <1>1, <1>2, <2>2 DEF Plain
  <2>4. Sound(pinned)
    BY <1>1, <1>2, <1>6, <1>7, <2>2, <2>3 DEF Sound
  <2> HIDE DEF pinned
  <2>5. \A show \in Shows :
          /\ pinned.log.forced[show] <= 1
          /\ pinned.log.forced[show] > 0 => pinned.db.route[show] = GlobalPref
    BY <1>6, <1>7, <2>2 DEF WalkInv, ForcedIsStamped
  <2> HIDE DEF w
  <2> QED
    BY <1>4, <1>6, <1>7, <2>1, <2>2, <2>4, <2>5, GestureKeeps
<1>8. CASE ~idle /\ next \notin {None, s.serving}
  <2>1. w = AdvanceWalk(x)
    BY <1>8
  <2>2. next \in Providers
    <3> DEFINE at == IF db.pin[s.show] = None THEN 0
                     ELSE CHOOSE i \in DOMAIN Registry : Registry[i] = db.pin[s.show]
    <3>1. next = IF at + 1 \in DOMAIN Registry THEN Registry[at + 1] ELSE None
      BY DEF NextPin
    <3> HIDE DEF at, next
    <3> QED
      BY <1>8, <3>1, RegistryAssumption
  <2> HIDE DEF next
  <2>3. k.origin = "flip" /\ k.order = <<next>> /\ k.left = {1} /\ k \in Walk
    BY <2>2 DEF PinFlip, WalkOver, Walk
  <2> HIDE DEF k
  <2>4. ns \in Session
    BY <1>3, <2>2, <2>3 DEF Session, OrNone
  <2>5. /\ ns.show = s.show /\ ns.serving = s.serving /\ ns.listing = s.listing
        /\ ns.walk = k /\ ~ns.loading /\ ~ns.noSource
    BY <1>3, <1>6, <1>8 DEF Session
  <2>6. nl \in Log /\ nl.asks = NothingAsked /\ nl.forced = log.forced
    <3>1. NothingAsked \in [Providers -> 0..2]
      BY DEF NothingAsked
    <3> QED
      BY <1>3, <3>1 DEF Log
  <2> HIDE DEF ns, nl
  <2>7. x \in Worlds /\ x.db = nd /\ x.s = ns /\ x.jobs = jobs /\ x.log = nl
    BY <1>1, <1>2, <1>6, <1>8, <2>4, <2>6 DEF Worlds
  <2> HIDE DEF x
  <2>8. \A p \in Providers : x.log.asks[p] = 0
    BY <2>6, <2>7 DEF NothingAsked
  <2>9. Plain(x)
    BY <1>1, <1>2, <2>5, <2>7, <2>8 DEF Plain
  <2>10. WalkFits(x)
    <3>1. DOMAIN k.order = {1} /\ k.order[1] = next
      BY <2>3
    <3>2. x.s.walk = k /\ x.s.serving = s.serving
      BY <2>5, <2>7
    <3> QED
      BY <1>6, <1>8, <2>2, <2>3, <2>8, <3>1, <3>2 DEF WalkFits
  <2>11. Ready(x) /\ x.s.walk # None
    BY <1>6, <1>8, <2>3, <2>5, <2>7, <2>9, <2>10, NoneIsNothing DEF Ready
  <2> HIDE DEF w
  <2>12. Sound(w) /\ Follows(x, w)
    BY <2>1, <2>11, AdvanceIsSound
  <2>13. /\ w.db = nd /\ w.log.forced = log.forced
         /\ Waiting(jobs) # {} => Waiting(w.jobs) # {}
         /\ Probes(w.jobs) = Probes(jobs)
         /\ w.s.walk # None => w.s.walk.origin = "flip"
    BY <1>6, <1>8, <2>3, <2>5, <2>6, <2>7, <2>11, <2>12 DEF Follows
  <2>14. w.s.walk # None => w.s.walk.left = {}
    BY <2>12, <2>13 DEF Sound, Awaited
  <2>15. \A show \in Shows : /\ w.log.forced[show] <= 1
                             /\ w.log.forced[show] > 0 => w.db.route[show] = GlobalPref
    BY <1>6, <1>8, <2>13 DEF WalkInv, ForcedIsStamped
  <2> QED
    BY <1>4, <2>12, <2>13, <2>14, <2>15, GestureKeeps
<1> QED
  BY <1>5, <1>7, <1>8

LEMMA PlayFocusedKeeps ==
    ASSUME WalkInv, PlayFocused
    PROVE  WalkInv'
<1> DEFINE p == s.serving
           asks == [NothingAsked EXCEPT ![p] = 1]
           nl == [log EXCEPT !.asks = asks, !.passed = {}]
           v == [World EXCEPT !.log = nl]
<1>1. Sound(World) /\ World \in Worlds /\ Plain(World)
  BY DEF WalkInv, Sound, Plain
<1>2. World.db = db /\ World.s = s /\ World.jobs = jobs /\ World.log = log
  BY WorldIs
<1>3. /\ Gesture /\ play = None /\ p # None /\ p \in Providers /\ s.show \in Shows
      /\ play' = [show |-> s.show, provider |-> p, up |-> FALSE]
      /\ cont' = None /\ log' = nl /\ UNCHANGED <<db, s, jobs, warm, expiries>>
  <2>1. s \in Session /\ p # None
    BY DEF WalkInv, TypeOK, PlayFocused
  <2>2. p \in Providers
    BY <2>1 DEF Session, OrNone
  <2>3. s.show \in Shows
    BY <1>1, <1>2, <2>1 DEF Plain
  <2> QED
    BY <2>1, <2>2, <2>3 DEF PlayFocused
<1>4. s.walk # None => s.walk.left \subseteq DOMAIN s.walk.order /\ s.walk.order \in Seq(Providers)
  BY <1>1, <1>2 DEF Sound, Awaited, WalkFits, WalkInv, TypeOK, Session, OrNone, Walk
<1>5. asks \in [Providers -> 0..2] /\ \A q \in Providers : asks[q] = IF q = p THEN 1 ELSE 0
  BY <1>3 DEF NothingAsked
<1> HIDE DEF asks
<1>6. nl \in Log /\ nl.asks = asks /\ nl.forced = log.forced
  <2>1. log \in Log
    BY DEF WalkInv, TypeOK
  <2> QED
    BY <1>5, <2>1 DEF Log
<1> HIDE DEF nl
<1>7. v \in Worlds /\ v.db = db /\ v.s = s /\ v.jobs = jobs /\ v.log = nl
  BY <1>1, <1>2, <1>6 DEF Worlds
<1> HIDE DEF v
<1>8. Plain(v)
  BY <1>1, <1>2, <1>5, <1>6, <1>7 DEF Plain
<1>9. ~s.noSource
  BY <1>1, <1>2, <1>3 DEF Sound
<1>10. Sound(v)
  <2>1. CASE s.loading
    <3>1. PICK i \in jobs : Awaited(World, i)
      BY <1>1, <1>2, <2>1 DEF Sound
    <3>2. s.walk # None /\ WalkFits(World)
          /\ (s.walk.origin # "fallback" => s.walk.left = {})
      BY <1>2, <1>3, <3>1 DEF Awaited
    <3>3. \A n \in s.walk.left : v.log.asks[s.walk.order[n]] = 0
                                /\ s.walk.order[n] # v.s.serving
      BY <1>2, <1>4, <1>5, <1>6, <1>7, <3>2 DEF WalkFits
    <3>4. WalkFits(v)
      BY <1>2, <1>3, <1>7, <3>2, <3>3 DEF WalkFits
    <3>5. Awaited(v, i) /\ i \in v.jobs
      BY <1>2, <1>7, <3>1, <3>2, <3>4 DEF Awaited
    <3> QED
      BY <1>7, <1>8, <1>9, <2>1, <3>5 DEF Sound
  <2>2. CASE ~s.loading
    BY <1>1, <1>2, <1>3, <1>7, <1>8, <1>9, <2>2 DEF Sound
  <2> QED
    BY <2>1, <2>2
<1>11. World' = v
  BY <1>3 DEF World, v
<1>12. TypeOK'
  <2>1. play' \in OrNone(Play)
    BY <1>3 DEF OrNone, Play
  <2> QED
    BY <1>3, <1>6, <2>1, GestureIs DEF WalkInv, TypeOK, OrNone
<1>13. ContinuationRides' /\ PlayEndsWalk'
  BY <1>3 DEF ContinuationRides, PlayEndsWalk
<1>14. ForcedIsStamped'
  BY <1>3, <1>6 DEF WalkInv, ForcedIsStamped
<1> QED
  BY <1>10, <1>11, <1>12, <1>13, <1>14 DEF WalkInv

\* The pre-warm.

\* The pre-warm picks one of the providers it has to do.
LEMMA CandidateIs ==
    ASSUME NEW T, T \subseteq Providers, T # {}
    PROVE  NextCandidate(T) \in T
<1> DEFINE S == {i \in DOMAIN Registry : Registry[i] \in T}
<1>1. S \subseteq Nat
  BY RegistryAssumption
<1>2. S # {}
  <2>1. PICK p \in T : TRUE
    OBVIOUS
  <2>2. PICK i \in DOMAIN Registry : Registry[i] = p
    BY <2>1, RegistryAssumption
  <2> QED
    BY <2>1, <2>2
<1> HIDE DEF S
<1>3. First(S) \in S
  BY <1>1, <1>2, FirstIsLeast
<1> QED
  BY <1>3 DEF S, NextCandidate

\* The probe of a run is a worker of its own, and no session's.
LEMMA ProbeIs ==
    ASSUME NEW run, run.show \in Shows, run.todo \subseteq Providers, run.todo # {}
    PROVE  Probe(run) \in Job /\ Probe(run).kind = "probe"
BY CandidateIs DEF Probe, Job, OrNone

\* A pre-warm that has started is well typed.
LEMMA SpawnedIs ==
    ASSUME NEW run \in [show : Shows, todo : SUBSET Providers, out : BOOLEAN,
                        yielding : BOOLEAN]
    PROVE  Spawned(run) \in OrNone(Warm)
<1> DEFINE rest == run.todo \ {NextCandidate(run.todo)}
<1>1. Spawned(run) = [run EXCEPT !.todo = rest, !.out = TRUE]
  BY DEF Spawned
<1>2. rest \subseteq Providers
  OBVIOUS
<1> HIDE DEF rest
<1> QED
  BY <1>1, <1>2 DEF Warm, OrNone

\* A probe is nobody's answer: the session does not see it come or go.
LEMMA ProbesAreQuiet ==
    ASSUME NEW J \in SUBSET Job, NEW j \in Job, j.kind = "probe"
    PROVE  /\ J \cup {j} \in SUBSET Job /\ J \ {j} \in SUBSET Job
           /\ Live(J \cup {j}) = Live(J) /\ Live(J \ {j}) = Live(J)
           /\ Waiting(J) \subseteq Waiting(J \cup {j})
           /\ Waiting(J) \subseteq Waiting(J \ {j})
BY DEF Live, Waiting

\* Starting the pre-warm adds a probe at most.
LEMMA FireWarmIs ==
    ASSUME TypeOK, NEW show \in Shows, FireWarm(show)
    PROVE  /\ warm' \in OrNone(Warm) /\ jobs' \in SUBSET Job
           /\ Live(jobs') = Live(jobs) /\ Waiting(jobs) \subseteq Waiting(jobs')
<1> DEFINE run == [show |-> show, todo |-> Unchecked(show), out |-> FALSE,
                   yielding |-> FALSE]
<1>1. Unchecked(show) \subseteq Providers /\ Unchecked(show) # {}
  BY DEF Unchecked, FireWarm
<1>2. warm' = Spawned(run) /\ jobs' = jobs \cup {Probe(run)}
  BY DEF FireWarm
<1>3. run \in [show : Shows, todo : SUBSET Providers, out : BOOLEAN, yielding : BOOLEAN]
  BY <1>1
<1>4. run.show \in Shows /\ run.todo \subseteq Providers /\ run.todo # {}
  BY <1>1
<1> HIDE DEF run
<1>5. Probe(run) \in Job /\ Probe(run).kind = "probe"
  BY <1>4, ProbeIs
<1> QED
  BY <1>2, <1>3, <1>5, SpawnedIs, ProbesAreQuiet DEF TypeOK

\* The library and the pre-warm.
LEMMA AddToLibraryKeeps ==
    ASSUME WalkInv, NEW show \in Shows, AddToLibrary(show)
    PROVE  WalkInv'
<1>1. TypeOK /\ Gesture /\ FireWarm(show) /\ UNCHANGED <<db, s, play, cont, log, expiries>>
  BY DEF WalkInv, AddToLibrary
<1>2. /\ warm' \in OrNone(Warm) /\ jobs' \in SUBSET Job
      /\ Live(jobs') = Live(jobs) /\ Waiting(jobs) \subseteq Waiting(jobs')
  BY <1>1, FireWarmIs
<1>3. gestures' \in 0..MaxGestures
  BY <1>1, GestureIs
<1> QED
  BY <1>1, <1>2, <1>3, QuietKeeps DEF TypeOK

LEMMA PositionKeeps ==
    ASSUME WalkInv, PositionUpdate
    PROVE  WalkInv'
<1>1. /\ TypeOK /\ play # None /\ play' = [play EXCEPT !.up = TRUE]
      /\ UNCHANGED <<db, s, cont, log, gestures, expiries>>
  BY DEF WalkInv, PositionUpdate
<1>2. play \in Play /\ play' \in Play /\ play.show \in Shows
  BY <1>1 DEF TypeOK, OrNone, Play
<1>3. play' # None /\ play' \in OrNone(Play)
  BY <1>2, NoneIsNothing DEF OrNone
<1>4. /\ warm' \in OrNone(Warm) /\ jobs' \in SUBSET Job
      /\ Live(jobs') = Live(jobs) /\ Waiting(jobs) \subseteq Waiting(jobs')
  <2>1. CASE UNCHANGED <<warm, jobs>>
    BY <1>1, <2>1 DEF TypeOK
  <2>2. CASE FireWarm(play.show)
    BY <1>1, <1>2, <2>2, FireWarmIs
  <2> QED
    BY <2>1, <2>2 DEF PositionUpdate
<1>5. /\ play # None /\ db' \in Store /\ db'.route = db.route /\ s' = s /\ log' = log
      /\ cont' = cont /\ cont' \in OrNone(Continuation)
      /\ gestures' \in 0..MaxGestures /\ expiries' \in 0..MaxExpiries
  BY <1>1 DEF TypeOK
<1> QED
  BY <1>3, <1>4, <1>5, QuietKeeps

LEMMA PrewarmTickKeeps ==
    ASSUME WalkInv, PrewarmTick
    PROVE  WalkInv'
<1>1. /\ TypeOK /\ warm # None /\ ~warm.out
      /\ warm' = Spawned(warm) /\ jobs' = jobs \cup {Probe(warm)}
      /\ UNCHANGED <<db, s, play, cont, log, gestures, expiries>>
  BY DEF WalkInv, PrewarmTick
<1>2. warm \in Warm
  BY <1>1 DEF TypeOK, OrNone
<1>3. warm.show \in Shows /\ warm.todo \subseteq Providers /\ warm.todo # {}
  BY <1>1, <1>2 DEF Warm
<1>4. Probe(warm) \in Job /\ Probe(warm).kind = "probe"
  BY <1>3, ProbeIs
<1>5. warm' \in OrNone(Warm)
  BY <1>1, <1>2, SpawnedIs DEF Warm
<1>6. /\ jobs' \in SUBSET Job /\ Live(jobs') = Live(jobs)
      /\ Waiting(jobs) \subseteq Waiting(jobs')
  BY <1>1, <1>4, ProbesAreQuiet DEF TypeOK
<1> QED
  BY <1>1, <1>5, <1>6, QuietKeeps DEF TypeOK

LEMMA PrewarmResultKeeps ==
    ASSUME WalkInv, NEW j \in jobs, PrewarmResult(j)
    PROVE  WalkInv'
<1>1. /\ TypeOK /\ j.kind = "probe" /\ jobs' = jobs \ {j} /\ warm' = Home(warm)
      /\ UNCHANGED <<s, play, cont, log, gestures, expiries>>
  BY DEF WalkInv, PrewarmResult
<1>2. j \in Job /\ j.show \in Shows /\ j.provider \in Providers /\ db \in Store
  BY <1>1 DEF TypeOK, Job
<1>3. warm' \in OrNone(Warm)
  <2>1. CASE warm = None \/ warm.yielding \/ warm.todo = {}
    BY <1>1, <2>1 DEF Home, OrNone
  <2>2. CASE ~(warm = None \/ warm.yielding \/ warm.todo = {})
    <3>1. warm \in Warm
      BY <1>1, <2>2 DEF TypeOK, OrNone
    <3>2. [warm EXCEPT !.out = FALSE] \in Warm
      BY <2>2, <3>1 DEF Warm
    <3> QED
      BY <1>1, <2>2, <3>2 DEF Home, OrNone
  <2> QED
    BY <2>1, <2>2
<1>4. db' \in Store /\ db'.route = db.route
  <2>1. CASE db' = db
    BY <1>2, <2>1
  <2>2. CASE db' = WithAbsence(db, j.show, j.provider)
    BY <1>2, <2>2 DEF WithAbsence, Store
  <2>3. ASSUME NEW id \in ProbeFinds(j), db' = WithBinding(db, j.show, j.provider, id)
        PROVE  db' \in Store /\ db'.route = db.route
    <3>1. id \in OrNone(Ids)
      BY <1>2, <2>3, SitesAssumption DEF ProbeFinds, OrNone
    <3> QED
      BY <1>2, <2>3, <3>1, BindingIs
  <2> QED
    BY <2>1, <2>2, <2>3 DEF PrewarmResult, MintFound
<1>5. /\ jobs' \in SUBSET Job /\ Live(jobs') = Live(jobs)
      /\ Waiting(jobs) \subseteq Waiting(jobs')
  BY <1>1, <1>2, ProbesAreQuiet DEF TypeOK
<1> QED
  BY <1>1, <1>3, <1>4, <1>5, QuietKeeps DEF TypeOK

\* Plays, time, another process, a restart.

\* The player ends, and what the disk and the other program do.
LEMMA PlayEndsKeeps ==
    ASSUME WalkInv, PlayDone \/ PlayerFails
    PROVE  WalkInv'
<1>1. /\ TypeOK /\ play' = None /\ cont' = None
      /\ UNCHANGED <<db, s, jobs, warm, log, gestures, expiries>>
  BY DEF WalkInv, PlayDone, PlayerFails
<1>2. play' \in OrNone(Play) /\ cont' \in OrNone(Continuation)
  BY <1>1 DEF OrNone
<1> QED
  BY <1>1, <1>2, QuietKeeps DEF TypeOK

LEMMA ExpiresKeeps ==
    ASSUME WalkInv, Expires
    PROVE  WalkInv'
<1>1. TypeOK /\ UNCHANGED <<s, jobs, warm, play, cont, log, gestures>>
  BY DEF WalkInv, Expires
<1>2. expiries' \in 0..MaxExpiries
  BY <1>1, BoundsAssumption DEF TypeOK, Expires
<1>3. db' \in Store /\ db'.route = db.route
  <2>1. PICK show \in Shows, p \in Providers :
          \/ db' = [db EXCEPT !.absent[show] = @ \ {p}]
          \/ db' = [db EXCEPT !.cache[show][p] = None]
    BY DEF Expires
  <2>2. db \in Store
    BY <1>1 DEF TypeOK
  <2>3. CASE db' = [db EXCEPT !.absent[show] = @ \ {p}]
    BY <2>2, <2>3 DEF Store
  <2>4. CASE db' = [db EXCEPT !.cache[show][p] = None]
    <3> DEFINE nc == [db.cache EXCEPT ![show][p] = None]
    <3>1. nc \in [Shows -> [Providers -> OrNone(Ids)]]
      BY <2>2 DEF Store, OrNone
    <3>2. db' = [db EXCEPT !.cache = nc]
      BY <2>4
    <3> HIDE DEF nc
    <3> QED
      BY <2>2, <3>1, <3>2 DEF Store
  <2> QED
    BY <2>1, <2>3, <2>4
<1> QED
  BY <1>1, <1>2, <1>3, QuietKeeps DEF TypeOK

LEMMA CliBindKeeps ==
    ASSUME WalkInv, CliBind
    PROVE  WalkInv'
<1>1. TypeOK /\ Gesture /\ UNCHANGED <<s, jobs, warm, play, cont, log, expiries>>
  BY DEF WalkInv, CliBind
<1>6. PICK show \in Shows, p \in Providers :
        \E id \in Hits[show][p] : db' = WithBinding(db, show, p, id)
  BY DEF CliBind
<1>2. PICK id \in Hits[show][p] : db' = WithBinding(db, show, p, id)
  BY <1>6
<1>3. id \in OrNone(Ids)
  BY <1>2, SitesAssumption DEF OrNone
<1>4. db' \in Store /\ db'.route = db.route
  BY <1>1, <1>2, <1>3, BindingIs DEF TypeOK
<1>5. gestures' \in 0..MaxGestures
  BY <1>1, GestureIs
<1> QED
  BY <1>1, <1>4, <1>5, QuietKeeps DEF TypeOK

LEMMA RestartKeeps ==
    ASSUME WalkInv, Restart
    PROVE  WalkInv'
<1>1. /\ TypeOK /\ Gesture /\ s' = Blank(None) /\ jobs' = {}
      /\ warm' = None /\ play' = None /\ cont' = None
      /\ log' = [log EXCEPT !.asks = NothingAsked, !.passed = {}]
      /\ UNCHANGED <<db, expiries>>
  BY DEF WalkInv, Restart
<1>2. NothingAsked \in [Providers -> 0..2] /\ \A p \in Providers : NothingAsked[p] = 0
  BY DEF NothingAsked
<1>3. log' \in Log /\ log'.asks = NothingAsked /\ log'.forced = log.forced
  BY <1>1, <1>2 DEF TypeOK, Log
<1>4. /\ s' \in Session /\ s'.show = None /\ s'.serving = None /\ s'.walk = None
      /\ s'.aim = None /\ ~s'.loading /\ ~s'.noSource
  BY <1>1 DEF Blank, Session, OrNone
<1>5. TypeOK'
  BY <1>1, <1>3, <1>4, GestureIs DEF TypeOK, OrNone
<1> DEFINE v == World'
<1>6. v \in Worlds /\ v.s = s' /\ v.jobs = jobs' /\ v.log = log'
  BY <1>5 DEF World, Worlds, TypeOK
<1> HIDE DEF v
<1>7. Plain(v)
  BY <1>2, <1>3, <1>4, <1>6 DEF Plain
<1>8. Live(v.jobs) = {}
  BY <1>1, <1>6 DEF Live
<1>9. Sound(v)
  BY <1>4, <1>6, <1>7, <1>8 DEF Sound
<1>10. ContinuationRides' /\ PlayEndsWalk'
  BY <1>1 DEF ContinuationRides, PlayEndsWalk
<1>11. ForcedIsStamped'
  BY <1>1, <1>3 DEF WalkInv, ForcedIsStamped
<1> QED
  BY <1>5, <1>9, <1>10, <1>11 DEF WalkInv, v

LEMMA SourceFailsKeeps ==
    ASSUME WalkInv, PlaySourceFails
    PROVE  WalkInv' /\ Probes(jobs') = Probes(jobs)
<1>1. /\ TypeOK /\ play # None /\ UNCHANGED <<warm, gestures, expiries>>
      /\ Sound(World) /\ World \in Worlds /\ Plain(World)
  BY DEF WalkInv, PlaySourceFails, Sound, Plain
<1>2. World.db = db /\ World.s = s /\ World.jobs = jobs /\ World.log = log
  BY WorldIs
<1>3. play \in Play /\ play.show \in Shows /\ play.provider \in Providers
  BY <1>1 DEF TypeOK, OrNone, Play
<1>4. CASE ~(s.show = play.show /\ s.serving = play.provider)
  <2>1. Becomes(World) /\ play' = None /\ cont' = None
    BY <1>4 DEF PlaySourceFails
  <2>2. UNCHANGED <<db, s, jobs, log>>
    BY <1>1, <1>2, <2>1, BecomesIs
  <2>3. play' \in OrNone(Play) /\ cont' \in OrNone(Continuation)
    BY <2>1 DEF OrNone
  <2> QED
    BY <1>1, <2>1, <2>2, <2>3, QuietKeeps DEF TypeOK
<1>5. CASE s.show = play.show /\ s.serving = play.provider
  <2> DEFINE T == Burned.tried
             asks == [p \in Providers |-> IF p \in T THEN 1 ELSE 0]
             nl == [log EXCEPT !.passed = {}, !.asks = asks]
             x == [World EXCEPT !.log = nl]
             k == Fallback(x.db, x.s.show, T)
             u == [x EXCEPT !.s = [@ EXCEPT !.walk = k, !.aim = None]]
             v == PlayFailOver(FailureSeen, T)
  <2>1. /\ T \subseteq Providers /\ s.serving \in T /\ Burned \in Continuation
        /\ cont = None => T = {s.serving}
    <3>1. cont # None => cont \in Continuation
      BY <1>1 DEF TypeOK, OrNone
    <3> QED
      BY <1>3, <1>5, <3>1 DEF Burned, Continuation
  <2> HIDE DEF T
  <2>2. FailureSeen = x
    BY DEF FailureSeen, World, T
  <2>3. asks \in [Providers -> 0..2]
        /\ \A p \in Providers : asks[p] = IF p \in T THEN 1 ELSE 0
    OBVIOUS
  <2> HIDE DEF asks
  <2>4. nl \in Log /\ nl.asks = asks /\ nl.forced = log.forced
    BY <1>1, <2>3 DEF TypeOK, Log
  <2> HIDE DEF nl
  <2>5. x \in Worlds /\ x.db = db /\ x.s = s /\ x.jobs = jobs /\ x.log = nl
    BY <1>1, <1>2, <2>4 DEF Worlds
  <2>6. /\ Becomes(v) /\ Continues(v, None, Burned)
        /\ v = IF x.s.loading \/ x.s.walk # None THEN x
               ELSE AdvanceWalk([x EXCEPT !.s.walk = k, !.s.aim = None])
    BY <1>5, <2>2 DEF PlaySourceFails, PlayFailOver, T
  <2> HIDE DEF x, v
  <2>7. Plain(x)
    BY <1>1, <1>2, <2>3, <2>4, <2>5 DEF Plain
  <2>8. s.serving # None /\ s.show \in Shows /\ ~s.noSource
    BY <1>1, <1>2, <1>3, <1>5, RegistryAssumption DEF Sound
  <2>9. ASSUME s.loading PROVE Sound(v) /\ v.db = db /\ v.log.forced = nl.forced
                                     /\ Probes(v.jobs) = Probes(jobs)
    <3>1. PICK i \in jobs : Awaited(World, i)
      BY <1>1, <1>2, <2>9 DEF Sound
    <3>2. s.walk # None /\ WalkFits(World)
          /\ (s.walk.origin # "fallback" => s.walk.left = {})
      BY <1>2, <2>8, <3>1 DEF Awaited
    <3>3. s.walk.order \in Seq(Providers) /\ s.walk.left \subseteq DOMAIN s.walk.order
      BY <1>1, <1>2, <3>2 DEF WalkFits, TypeOK, Session, OrNone, Walk
    <3>4. \A n \in s.walk.left : x.log.asks[s.walk.order[n]] = 0
                                /\ s.walk.order[n] # x.s.serving
      <4>1. CASE cont # None
        <5>1. s.walk.left = {}
          BY <1>1, <2>8, <3>2, <4>1 DEF WalkInv, PlayEndsWalk
        <5> QED
          BY <5>1
      <4>2. CASE cont = None
        BY <1>2, <2>1, <2>3, <2>4, <2>5, <3>2, <3>3, <4>2 DEF WalkFits
      <4> QED
        BY <4>1, <4>2
    <3>5. WalkFits(x)
      BY <1>2, <2>5, <2>8, <3>2, <3>4 DEF WalkFits
    <3>6. Awaited(x, i) /\ i \in x.jobs
      BY <1>2, <2>5, <3>1, <3>2, <3>5 DEF Awaited
    <3>7. Sound(x)
      BY <2>5, <2>7, <2>8, <2>9, <3>6 DEF Sound
    <3>8. v = x
      BY <2>5, <2>6, <2>9
    <3> QED
      BY <2>5, <3>7, <3>8
  <2>10. ASSUME ~s.loading PROVE Sound(v) /\ v.db = db /\ v.log.forced = nl.forced
                                     /\ Probes(v.jobs) = Probes(jobs)
    <3>1. s.walk = None /\ Live(jobs) = {}
      BY <1>1, <1>2, <2>10 DEF Sound
    <3>2. Ready(x)
      BY <2>5, <2>7, <2>8, <2>10, <3>1 DEF Ready
    <3>3. v = AdvanceWalk([x EXCEPT !.s.walk = k, !.s.aim = None])
      BY <2>5, <2>6, <2>10, <3>1
    <3>4. [x EXCEPT !.s.walk = k, !.s.aim = None] = u
      BY <2>5 DEF Worlds, Session
    <3>5. \A p \in Providers \ T : x.log.asks[p] = 0 /\ p # x.s.serving
      BY <2>1, <2>3, <2>4, <2>5
    <3>6. x.s.serving # None /\ x.s.walk = None /\ None \in OrNone(Providers)
      BY <2>5, <2>8, <3>1 DEF OrNone
    <3>7. v = AdvanceWalk(u)
      BY <3>3, <3>4
    <3>8. Sound(v) /\ Follows(x, v)
      BY <2>1, <3>2, <3>5, <3>6, <3>7, FallbackIsSound
    <3> QED
      BY <2>4, <2>5, <3>8 DEF Follows
  <2>11. Sound(v) /\ v.db = db /\ v.log.forced = log.forced /\ Probes(v.jobs) = Probes(jobs)
    BY <2>4, <2>5, <2>9, <2>10
  <2>12. v \in Worlds
    BY <2>11 DEF Sound, Plain
  <2>13. /\ World' = v /\ db' = v.db /\ s' = v.s /\ jobs' = v.jobs /\ log' = v.log
    BY <2>6, <2>12, BecomesIs
  <2>14. None \in OrNone(Play) /\ Burned \in OrNone(Continuation)
    BY <2>1 DEF OrNone
  <2>15. /\ play' \in OrNone(Play) /\ cont' \in OrNone(Continuation)
         /\ ContinuationRides' /\ PlayEndsWalk'
    BY <2>6, <2>11, <2>14, ContinuesKeeps
  <2>16. TypeOK'
    BY <1>1, <2>12, <2>13, <2>15 DEF TypeOK, Worlds
  <2>17. ForcedIsStamped'
    BY <2>11, <2>13 DEF WalkInv, ForcedIsStamped
  <2> QED
    BY <2>11, <2>13, <2>15, <2>16, <2>17 DEF WalkInv
<1> QED
  BY <1>4, <1>5

-----------------------------------------------------------------------------
\* The theorems.

\* The invariant holds at the start and through every step.
LEMMA InitHolds == Init => WalkInv
<1> SUFFICES ASSUME Init PROVE WalkInv
  OBVIOUS
<1>1. /\ s.show = None /\ s.serving = None /\ s.walk = None /\ s.aim = None
      /\ ~s.loading /\ ~s.noSource /\ s \in Session
  BY DEF Init, Blank, Session, OrNone
<1>2. log \in Log /\ \A p \in Providers : log.asks[p] = 0
  BY DEF Init, Log, NothingAsked
<1>3. db \in Store
  BY DEF Init, Store, OrNone
<1>4. /\ jobs = {} /\ warm = None /\ play = None /\ cont = None
      /\ gestures = 0 /\ expiries = 0
  BY DEF Init
<1>5. TypeOK
  BY <1>1, <1>2, <1>3, <1>4, BoundsAssumption DEF TypeOK, OrNone
<1>6. World.s = s /\ World.jobs = jobs /\ World.log = log /\ World \in Worlds
  BY <1>5, WorldIs
<1>7. Plain(World)
  BY <1>1, <1>2, <1>6 DEF Plain
<1>8. Live(World.jobs) = {}
  BY <1>4, <1>6 DEF Live
<1>9. Sound(World)
  BY <1>1, <1>6, <1>7, <1>8 DEF Sound
<1>10. ContinuationRides /\ PlayEndsWalk
  BY <1>4 DEF ContinuationRides, PlayEndsWalk
<1>11. ForcedIsStamped
  BY DEF Init, ForcedIsStamped
<1> QED
  BY <1>5, <1>9, <1>10, <1>11 DEF WalkInv

LEMMA StutterKeeps == ASSUME WalkInv, UNCHANGED vars PROVE WalkInv'
<1>1. TypeOK /\ UNCHANGED <<db, s, jobs, warm, play, cont, log, gestures, expiries>>
  BY DEF vars, WalkInv
<1> QED
  BY <1>1, QuietKeeps DEF TypeOK

LEMMA NextKeeps == WalkInv /\ [Next]_vars => WalkInv'
<1> SUFFICES ASSUME WalkInv, [Next]_vars PROVE WalkInv'
  OBVIOUS
<1>1. ASSUME NEW show \in Shows, Open(show) \/ AddToLibrary(show) PROVE WalkInv'
  BY <1>1, OpenKeeps, AddToLibraryKeeps
<1>2. ASSUME NEW j \in jobs, EpisodesDone(j) \/ EpisodesError(j) \/ SearchDone(j)
                             \/ PrewarmResult(j)
      PROVE  WalkInv'
  BY <1>2, EpisodesDoneKeeps, EpisodesErrorKeeps, SearchDoneKeeps, PrewarmResultKeeps
<1>3. CASE CyclePin \/ PlayFocused
  BY <1>3, CyclePinKeeps, PlayFocusedKeeps
<1>4. CASE PrewarmTick \/ PositionUpdate
  BY <1>4, PrewarmTickKeeps, PositionKeeps
<1>5. CASE PlayDone \/ PlaySourceFails \/ PlayerFails
  BY <1>5, PlayEndsKeeps, SourceFailsKeeps
<1>6. CASE Expires \/ CliBind \/ Restart
  BY <1>6, ExpiresKeeps, CliBindKeeps, RestartKeeps
<1>7. CASE UNCHANGED vars
  BY <1>7, StutterKeeps
<1> QED
  BY <1>1, <1>2, <1>3, <1>4, <1>5, <1>6, <1>7 DEF Next

\* Whatever answers come in, and whenever: the session, its walk, its workers
\* and the history of what was asked fit together (WalkInv).
THEOREM WalkIsSound == Spec => []WalkInv
<1> QED
  BY InitHolds, NextKeeps, PTL DEF Spec

\* A late answer never repaints the grid of another show or provider.
THEOREM GridOfTheOpenShow == Spec => []GridIsOfTheOpenShow
<1>1. WalkInv => GridIsOfTheOpenShow
  BY WorldIs DEF WalkInv, Sound, Plain, GridIsOfTheOpenShow
<1> QED
  BY <1>1, WalkIsSound, PTL

\* "No source" is said only after every provider was tried or skipped.
THEOREM NoSourceIsEarned == Spec => []NoSourceIsHonest
<1>1. ASSUME WalkInv PROVE NoSourceIsHonest
  BY <1>1, WorldIs DEF WalkInv, Sound, Covered, NoSourceIsHonest
<1> QED
  BY <1>1, WalkIsSound, PTL

\* No provider is tried twice in a walk, and no show is forced twice.
THEOREM EachIsAskedOnce == Spec => []AsksOnce
<1>1. ASSUME WalkInv PROVE AsksOnce
  <2>1. Plain(World)
    BY <1>1 DEF WalkInv, Sound
  <2> QED
    BY <1>1, <2>1, WorldIs DEF WalkInv, Plain, ForcedIsStamped, AsksOnce,
                               NoProviderTwice, ForcedOnce
<1> QED
  BY <1>1, WalkIsSound, PTL

\* What is shown as under way has exactly one worker that will end it.
THEOREM NothingStranded == Spec => []NothingIsStranded
<1>1. ASSUME WalkInv PROVE NothingIsStranded
  <2> DEFINE L == {j \in SessionJobs : j.live}
  <2>1. Sound(World) /\ World.s = s /\ World.jobs = jobs
    BY <1>1, WorldIs DEF WalkInv
  <2>2. L = Live(jobs)
    BY DEF SessionJobs, Live
  <2> HIDE DEF L
  <2>3. LoadingIsAnswered
    <3>1. CASE s.loading
      <4>1. PICK j \in jobs : L = {j}
        BY <2>1, <2>2, <3>1 DEF Sound, Awaited
      <4>2. Cardinality(L) = 1
        BY <4>1, FS_Singleton
      <4> QED
        BY <3>1, <4>2 DEF LoadingIsAnswered, L
    <3>2. CASE ~s.loading
      <4>1. L = {}
        BY <2>1, <2>2, <3>2 DEF Sound
      <4>2. Cardinality(L) = 0
        BY <4>1, FS_EmptySet
      <4> QED
        BY <3>2, <4>2 DEF LoadingIsAnswered, L
    <3> QED
      BY <3>1, <3>2
  <2>4. WalkIsMoving
    BY <2>1 DEF Sound, WalkIsMoving
  <2> QED
    BY <1>1, <2>3, <2>4 DEF WalkInv, NothingIsStranded
<1> QED
  BY <1>1, WalkIsSound, PTL

\* Only a probe's own answer and a restart end it; the answer binds what it
\* found for its own show, and takes it from no other.
THEOREM WarmStealsNothing == Spec => WarmNeverSteals
<1> DEFINE Steady == \A j \in jobs \ jobs' : j.kind = "probe" =>
                      \A show \in Shows \ {j.show} : db'.bind[show] = db.bind[show]
<1>1. ASSUME WalkInv, Next PROVE Steady
  <2>1. ASSUME Probes(jobs') = Probes(jobs) PROVE Steady
    BY <2>1 DEF Probes
  <2>2. ASSUME jobs \subseteq jobs' PROVE Steady
    BY <2>2
  <2>3. ASSUME NEW show \in Shows, Open(show) PROVE Steady
    BY <1>1, <2>1, <2>3, OpenKeeps
  <2>4. ASSUME NEW show \in Shows, AddToLibrary(show) PROVE Steady
    BY <2>2, <2>4 DEF AddToLibrary, FireWarm
  <2>5. ASSUME NEW j \in jobs, EpisodesDone(j) \/ EpisodesError(j) \/ SearchDone(j)
        PROVE  Steady
    BY <1>1, <2>1, <2>5, EpisodesDoneKeeps, EpisodesErrorKeeps, SearchDoneKeeps
  <2>6. ASSUME NEW j \in jobs, PrewarmResult(j) PROVE Steady
    <3>1. jobs' = jobs \ {j} /\ j \in Job /\ db \in Store
      BY <1>1, <2>6 DEF PrewarmResult, WalkInv, TypeOK
    <3>2. j.show \in Shows /\ j.provider \in Providers
      BY <3>1 DEF Job
    <3>3. \A show \in Shows \ {j.show} : db'.bind[show] = db.bind[show]
      <4>1. CASE db' = db
        BY <4>1
      <4>2. CASE db' = WithAbsence(db, j.show, j.provider)
        BY <3>1, <4>2 DEF WithAbsence, Store
      <4>3. ASSUME NEW id \in ProbeFinds(j), Owners(db, j.provider, id) \subseteq {j.show},
                   db' = WithBinding(db, j.show, j.provider, id)
            PROVE  \A show \in Shows \ {j.show} : db'.bind[show] = db.bind[show]
        <5>1. id \in OrNone(Ids)
          BY <3>2, <4>3, SitesAssumption DEF ProbeFinds, OrNone
        <5>2. \A show \in Shows \ {j.show} : db.bind[show][j.provider] # id
          BY <4>3 DEF Owners
        <5> QED
          BY <3>1, <3>2, <4>3, <5>1, <5>2, BindingIs
      <4> QED
        BY <2>6, <4>1, <4>2, <4>3 DEF PrewarmResult, MintFound
    <3> QED
      BY <3>1, <3>3
  <2>7. CASE CyclePin \/ PlaySourceFails
    BY <1>1, <2>1, <2>7, CyclePinKeeps, SourceFailsKeeps
  <2>8. CASE PrewarmTick \/ PositionUpdate
    BY <2>2, <2>8 DEF PrewarmTick, PositionUpdate, FireWarm
  <2>9. CASE PlayFocused \/ PlayDone \/ PlayerFails \/ Expires \/ CliBind
    BY <2>2, <2>9 DEF PlayFocused, PlayDone, PlayerFails, Expires, CliBind
  <2>10. CASE Restart
    BY <2>10 DEF Restart
  <2> HIDE DEF Steady
  <2> QED
    BY <1>1, <2>3, <2>4, <2>5, <2>6, <2>7, <2>8, <2>9, <2>10 DEF Next
<1>2. ASSUME WalkInv, [Next]_vars PROVE [Steady]_vars
  <2> HIDE DEF Steady
  <2> QED
    BY <1>1, <1>2
<1> QED
  BY <1>2, WalkIsSound, PTL DEF Spec, WarmNeverSteals

=============================================================================
