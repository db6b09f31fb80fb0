------------------------------- MODULE Search -------------------------------
(***************************************************************************)
(* Browse's search: the bar that edits the query, the debounce after the   *)
(* last edit, the workers that fetch pages of results, and the list that   *)
(* grows a page when the cursor reaches its end (tui/app.cpp on_key,       *)
(* maybe_load_more, spawn_search, tick, the answers' handlers).            *)
(***************************************************************************)
EXTENDS Naturals, Sequences

CONSTANTS Queries,
          Blank,       \* the empty query
          LastPage,    \* bound: the page after which a query has no more
          MaxFetches   \* bound: fetches in flight

VARIABLES
    bar,      \* is the search bar open
    query,    \* search_query
    debounce, \* is search_debounce_deadline set
    list,     \* App::catalog, as the pages it was made of
    answered, \* search_answered, search_page, search_has_next
    inflight, \* search_inflight_query
    fetches   \* pages asked for and not yet answered, oldest first

vars == <<bar, query, debounce, list, answered, inflight, fetches>>

Query == Queries \cup {Blank}
NoAnswer == [query |-> Blank, page |-> 1, hasNext |-> FALSE]

Init ==
    /\ bar = FALSE
    /\ query = Blank
    /\ debounce = FALSE
    /\ list = <<>>
    /\ answered = NoAnswer
    /\ inflight = Blank
    /\ fetches = <<>>

-----------------------------------------------------------------------------
(* The bar *)

\* `/' starts a fresh query; a debounce that was armed stays armed.
OpenBar ==
    /\ ~bar
    /\ bar' = TRUE
    /\ query' = Blank
    /\ UNCHANGED <<debounce, list, answered, inflight, fetches>>

\* A character, or a backspace.
Type ==
    /\ bar
    /\ query' \in Query
    /\ debounce' = TRUE
    /\ UNCHANGED <<bar, list, answered, inflight, fetches>>

\* Enter keeps the query and what it found.
LockBar ==
    /\ bar
    /\ bar' = FALSE
    /\ UNCHANGED <<query, debounce, list, answered, inflight, fetches>>

\* Esc drops the query and keeps the list.
DropBar ==
    /\ bar
    /\ bar' = FALSE
    /\ query' = Blank
    /\ debounce' = FALSE
    /\ UNCHANGED <<list, answered, inflight, fetches>>

-----------------------------------------------------------------------------
(* Fetches *)

Fetch(page) ==
    /\ Len(fetches) < MaxFetches
    /\ fetches' = Append(fetches, [query |-> query, page |-> page])
    /\ inflight' = query

\* The debounce fires, whether the bar is still open or not.
DebounceFires ==
    /\ debounce
    /\ debounce' = FALSE
    /\ IF query = Blank
       THEN /\ list' = <<>> /\ answered' = NoAnswer
            /\ UNCHANGED <<inflight, fetches>>
       ELSE Fetch(1) /\ UNCHANGED <<list, answered>>
    /\ UNCHANGED <<bar, query>>

\* The cursor moves down onto the last result.
LoadMore ==
    /\ ~bar
    /\ list # <<>>
    /\ answered.hasNext /\ inflight = Blank /\ answered.query = query
    /\ Fetch(answered.page + 1)
    /\ UNCHANGED <<bar, query, debounce, list, answered>>

\* A later page is taken whatever query the list answers.
NextOfAny(x) == x.page = answered.page + 1

\* A later page goes on the list it is the next page of.
NextOfList(x) == answered.query = x.query /\ x.page = answered.page + 1

\* The first answer of the last query spawned ends the spinner.
Settled(x) == IF x.query = inflight THEN Blank ELSE inflight

Without(i) == [j \in 1..(Len(fetches) - 1) |-> fetches[IF j < i THEN j ELSE j + 1]]

\* Workers answer in any order; an answer to an edited query is dropped.
SearchDone ==
    \E i \in DOMAIN fetches :
        LET x == fetches[i]
        IN  /\ fetches' = Without(i)
            /\ inflight' = Settled(x)
            /\ \E more \in {FALSE, x.page < LastPage} :
                 LET taken == [query |-> x.query, page |-> x.page, hasNext |-> more]
                 IN  IF x.query # query THEN UNCHANGED <<list, answered>>
                     ELSE IF x.page = 1 THEN list' = <<x>> /\ answered' = taken
                     ELSE IF NextOfList(x)
                     THEN list' = Append(list, x) /\ answered' = [taken EXCEPT !.query = answered.query]
                     ELSE UNCHANGED <<list, answered>>
            /\ UNCHANGED <<bar, query, debounce>>

\* A failure keeps the list.
SearchError ==
    \E i \in DOMAIN fetches :
        /\ fetches' = Without(i)
        /\ inflight' = Settled(fetches[i])
        /\ UNCHANGED <<bar, query, debounce, list, answered>>

Next ==
    \/ OpenBar \/ Type \/ LockBar \/ DropBar
    \/ DebounceFires \/ LoadMore \/ SearchDone \/ SearchError

Spec == Init /\ [][Next]_vars

-----------------------------------------------------------------------------
(* Properties *)

\* The list is the first pages of one query, in order and none twice, however
\* late the pages of earlier queries and of an earlier run of the same query
\* come (app.cpp, the SearchDone handler).
ListIsOneQuery ==
    \A i \in DOMAIN list : list[i] = [query |-> answered.query, page |-> i]
=============================================================================
