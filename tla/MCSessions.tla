----------------------------- MODULE MCSessions -----------------------------
(* Small instances of what has to come to an end: a sign-in (SignIn), the     *)
(* failover of the catalog (Catalog), one play of one episode (Player) and    *)
(* the command line's run of plays (CommandPlay).  They share no state here,  *)
(* so a behaviour runs one of them while the others rest.                     *)
EXTENDS Naturals, Sequences

CONSTANTS None,
    Workers, Modes,
    MaxSessions, MaxOthers,
    Backends, MaxPlayAttempts, IpcTries, Secs, MaxReports, MaxConns,
    Canon, CliSources, Listing, ordinal_of, Typed, MaxPlays

ASSUME SessionsAssumption == Secs \subseteq Nat /\ MaxSessions \in Nat /\ None \notin Nat

VARIABLES part,
    mode, hasMal, latch, call, answered, absent, up,
    disk, modal, opened, server, tabs, queue, others,
    play, kid, wire, watch, seen, proxy, told,
    cli, resume, now, session

catalogVars == <<mode, hasMal, latch, call, answered, absent, up>>
signInVars == <<disk, modal, opened, server, tabs, queue, others>>
playVars == <<play, kid, wire, watch, seen, proxy, told>>
cliVars == <<cli, resume, now, session>>
mcVars == <<part, catalogVars, signInVars, playVars, cliVars>>

Cat == INSTANCE Catalog
Sign == INSTANCE SignIn
Play == INSTANCE Player
Cli == INSTANCE CommandPlay WITH Sources <- CliSources

\* Some source is asked, and each lists what it has in the order of the show.
ASSUME ListingAssumption ==
    /\ Len(CliSources) >= 1
    /\ \A n \in DOMAIN CliSources :
          /\ Listing[CliSources[n]] \in Seq({Canon[i] : i \in DOMAIN Canon})
          /\ \A i, j \in DOMAIN Listing[CliSources[n]] :
                i < j => Cli!Rank(Listing[CliSources[n]][i]) < Cli!Rank(Listing[CliSources[n]][j])

\* "s" is a special that only one source lists; another lists no episode 2.
MCCanon == <<"s", "1", "2", "3">>
MCSources == <<"a", "b", "c">>
MCListing == [a |-> <<"1", "2", "3">>, b |-> MCCanon, c |-> <<"1", "3">>]
MCOrdinals == [l \in {"s", "1", "2", "3"} |->
                  CASE l = "1" -> 1 [] l = "2" -> 2 [] l = "3" -> 3 [] OTHER -> 0]

\* What rests does so in an initial state.
MCInit ==
    /\ part \in {"catalog", "signin", "play", "cli"}
    /\ Cat!Init /\ Sign!Init /\ Play!PlayerInit /\ Cli!Init
    /\ part # "catalog" => mode = "auto" /\ hasMal /\ up = {}
    /\ disk.anilist = disk.mal
    /\ part # "signin" => disk.mal = None
    /\ part # "cli" => cli.flow = "play" /\ cli.keyed /\ resume["2"] = 1

MCNext ==
    \/ /\ part = "catalog" /\ Cat!Next
       /\ UNCHANGED <<part, signInVars, playVars, cliVars>>
    \/ /\ part = "signin" /\ Sign!Next
       /\ UNCHANGED <<part, catalogVars, playVars, cliVars>>
    \/ /\ part = "play" /\ Play!Next
       /\ UNCHANGED <<part, catalogVars, signInVars, cliVars>>
    \/ /\ part = "cli" /\ Cli!Next
       /\ UNCHANGED <<part, catalogVars, signInVars, playVars>>

\* The parts' own fairness; what rests with something enabled is owed nothing.
MCSpec ==
    /\ MCInit /\ [][MCNext]_mcVars
    /\ \A s \in 1..MaxSessions :
          WF_signInVars(part = "signin" /\ Sign!GoesOn(s))
    /\ WF_signInVars(part = "signin" /\ Sign!ConnectAnswered)
    /\ WF_playVars(part = "play" /\ Play!PlayingThread)
    /\ WF_playVars(part = "play" /\ Play!Watcher)
    /\ WF_playVars(part = "play" /\ Play!AcceptLoop)
    /\ WF_playVars(part = "play" /\ Play!Exits)
    /\ WF_catalogVars(part = "catalog" /\ Cat!TimePasses)
    /\ \A w \in Workers :
          /\ WF_catalogVars(part = "catalog" /\ Cat!Answer(w))
          /\ SF_catalogVars(part = "catalog" /\ Cat!Ask(w))
    /\ WF_cliVars(part = "cli" /\ Cli!CliNext)
    /\ WF_cliVars(part = "cli" /\ Cli!PlayEnds)

-----------------------------------------------------------------------------
(* The properties, stated and explained in the modules. *)

\* What waits has an end: an outage of AniList is not for good, the sign-in modal
\* is answered and a cancelled sign-in gives its port back, and every play and
\* every span of plays returns.
WaitsEnd ==
    /\ part = "catalog" => Cat!ComesBackToAniList
    /\ Sign!SignInEnds
    /\ Play!PlaysReturn
    /\ Cli!SpanEnds
\* A saved token is that of the session that saved it.
OwnTabSignsIn == Sign!OwnTabSignsIn
\* play and play_local keep the promise of PlaySession.
KeepsItsPromise == Play!KeepsItsPromise
\* A span of episodes plays forward, through every hop.
SpanInOrder == Cli!SpanInOrder
=============================================================================
