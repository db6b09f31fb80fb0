------------------------------ MODULE Catalog -------------------------------
(***************************************************************************)
(* The catalog: every question (a search, a page of a feed, a show's       *)
(* metadata) goes to AniList or to MyAnimeList, and to the other when the  *)
(* first fails.  A latch shared by all the workers remembers that AniList  *)
(* failed and sends the next questions to MyAnimeList first, until its     *)
(* retry date (catalog.cpp).                                               *)
(***************************************************************************)
EXTENDS Naturals

CONSTANTS Workers, Modes, None

VARIABLES
    mode,      \* FailoverState::mode
    hasMal,    \* mal_available: a client id is configured
    latch,     \* active, and anilist_retry_at: unset, to come, or past
    call,      \* per worker: the plan of its question, and whom it asks now
    answered,  \* per worker: what its last question came to
    absent,    \* heal_absent_ holds the MyAnimeList id that is healed
    up         \* the sources that answer

vars == <<mode, hasMal, latch, call, answered, absent, up>>

Sources == {"AniList", "MAL"}

-----------------------------------------------------------------------------
(* FailoverState *)

First ==
    CASE mode = "anilist" -> "AniList"
      [] mode = "mal" -> "MAL"
      [] OTHER -> IF latch.active = "MAL" /\ hasMal /\ latch.retry = "ahead"
                  THEN "MAL" ELSE "AniList"

FallbackFor(tried) ==
    CASE mode # "auto" -> None
      [] mode = "auto" /\ tried = "AniList" -> IF hasMal THEN "MAL" ELSE None
      [] OTHER -> "AniList"

\* on_result: what MyAnimeList answers moves nothing.
Reported(source, ok) ==
    CASE source = "AniList" /\ ok -> [active |-> "AniList", retry |-> "none"]
      [] source = "AniList" /\ ~ok /\ mode = "auto" /\ hasMal ->
             [active |-> "MAL", retry |-> "ahead"]
      [] OTHER -> latch

TimePasses ==
    /\ latch.retry = "ahead"
    /\ latch' = [latch EXCEPT !.retry = "past"]
    /\ UNCHANGED <<mode, hasMal, call, answered, absent, up>>

-----------------------------------------------------------------------------
(* Catalog *)

Configured(source) == source = "AniList" \/ hasMal

Start(w, first, second) ==
    IF Configured(first)
    THEN /\ call' = [call EXCEPT ![w] = [of |-> "page", at |-> first, second |-> second]]
         /\ answered' = [answered EXCEPT ![w] = "waiting"]
    ELSE /\ answered' = [answered EXCEPT ![w] = "error"]
         /\ UNCHANGED call

\* plan: the order is fixed when the question starts.
Ask(w) ==
    /\ call[w] = None
    /\ Start(w, First, FallbackFor(First))
    /\ UNCHANGED <<mode, hasMal, latch, absent, up>>

\* A row known to MyAnimeList alone is never asked of AniList.
AskMalOnly(w) ==
    /\ call[w] = None
    /\ Start(w, "MAL", None)
    /\ UNCHANGED <<mode, hasMal, latch, absent, up>>

\* heal asks AniList alone, and only while AniList is first.
AskHeal(w) ==
    /\ call[w] = None
    /\ IF absent
       THEN answered' = [answered EXCEPT ![w] = "answer"] /\ UNCHANGED call
       ELSE IF First # "AniList"
       THEN answered' = [answered EXCEPT ![w] = "error"] /\ UNCHANGED call
       ELSE /\ call' = [call EXCEPT ![w] =
                         [of |-> "heal", at |-> "AniList", second |-> None]]
            /\ answered' = [answered EXCEPT ![w] = "waiting"]
    /\ UNCHANGED <<mode, hasMal, latch, absent, up>>

\* The call comes back and is reported; a failure goes on to the second.
Answer(w) ==
    /\ call[w] # None
    /\ LET c == call[w]
           ok == c.at \in up
       IN  /\ latch' = Reported(c.at, ok)
           /\ call' = [call EXCEPT ![w] =
                          IF ok \/ c.second = None THEN None
                          ELSE [c EXCEPT !.at = c.second, !.second = None]]
           /\ answered' = [answered EXCEPT ![w] =
                             CASE ok -> "answer"
                               [] ~ok /\ c.second = None -> "error"
                               [] OTHER -> "waiting"]
           /\ IF c.of = "heal" /\ ok THEN absent' \in {absent, TRUE}
              ELSE UNCHANGED absent
    /\ UNCHANGED <<mode, hasMal, up>>

-----------------------------------------------------------------------------
(* The sources, and the specification *)

\* A source stops or starts answering.
Weather ==
    /\ \E s \in Sources : up' = IF s \in up THEN up \ {s} ELSE up \cup {s}
    /\ UNCHANGED <<mode, hasMal, latch, call, answered, absent>>

Init ==
    /\ mode \in Modes
    /\ hasMal \in BOOLEAN
    /\ latch = [active |-> "AniList", retry |-> "none"]
    /\ call = [w \in Workers |-> None]
    /\ answered = [w \in Workers |-> "none"]
    /\ absent = FALSE
    /\ up \in SUBSET Sources

Next ==
    \/ TimePasses \/ Weather
    \/ \E w \in Workers : Ask(w) \/ AskMalOnly(w) \/ AskHeal(w) \/ Answer(w)

Spec == Init /\ [][Next]_vars

\* Time passes, a request has a deadline, and rows of AniList keep being asked
\* about.
Fairness ==
    /\ WF_vars(TimePasses)
    /\ \A w \in Workers : WF_vars(Answer(w)) /\ SF_vars(Ask(w))

FairSpec == Spec /\ Fairness

-----------------------------------------------------------------------------
(* Properties *)

\* An outage of AniList is not for good: once it answers again and keeps
\* answering, the latch comes back to it, even while MyAnimeList answers every
\* question and reports of older failures still arrive (catalog.cpp
\* FailoverState::first, on_result).
ComesBackToAniList ==
    (mode = "auto" /\ <>[]("AniList" \in up)) => <>[](latch.active = "AniList")
=============================================================================
