------------------------------- MODULE SignIn -------------------------------
(***************************************************************************)
(* Signing in to AniList and to MyAnimeList from the Settings view: the    *)
(* modal, the listener on the service's loopback port with its accept loop *)
(* on a worker, the browser's tab that calls it back, the exchange with    *)
(* the service, the auth file, and the answer the interface takes off its  *)
(* queue (loopback.cpp, mal_loopback.cpp, login.cpp, mal_login.cpp,        *)
(* auth.cpp, and the connect session of tui/app.cpp); and the pasted token *)
(* of `shigoku login --paste' (main.cpp).                                  *)
(*                                                                         *)
(* A token is named by the session whose tab carries it, the number of the *)
(* session being also the nonce it minted.                                 *)
(***************************************************************************)
EXTENDS Naturals, Sequences

CONSTANTS MaxSessions,  \* bound: connect sessions opened
          MaxOthers,    \* bound: connections that are no callback
          None          \* no session

VARIABLES
    disk,    \* the auth file: whose token is in each service's block
    modal,   \* App::connect: the session whose modal is up, or None
    opened,  \* sessions opened so far: their services, in order
    server,  \* per session: its worker's step, cancel flag, waiting
             \* connections, the one it handles, the file as it read it
    tabs,    \* sessions whose tab has not called back
    queue,   \* answers posted to the interface
    others   \* connections made so far that are no callback

vars == <<disk, modal, opened, server, tabs, queue, others>>

Services == {"anilist", "mal"}
Sessions == 1..Len(opened)
Outcome == {"Ok", "NoToken", "Rejected", "NetworkError", "SaveFailed", "Canceled"}

\* Tokens: a session's, one from before, one pasted on the command line.
Old == 0
Pasted == MaxSessions + 1
Token == (0..MaxSessions + 1) \cup {None}
\* Connections to a listener: a tab's, by its session, a dial, any other.
Dial == 0
Other == MaxSessions + 1

AuthFile == [anilist : Token, mal : Token]

Listening == [step |-> "accepting", cancelled |-> FALSE, waiting |-> {},
              conn |-> None, copy |-> None]

Init ==
    /\ disk \in [anilist : {Old, None}, mal : {Old, None}]
    /\ modal = None
    /\ opened = <<>>
    /\ server = <<>>
    /\ tabs = {}
    /\ queue = <<>>
    /\ others = 0

-----------------------------------------------------------------------------
(* The interface's thread *)

\* The listener of a service is bound until its worker has ended.
PortBusy(svc) == \E s \in Sessions : opened[s] = svc /\ server[s].step # "closed"

\* open_connect, open_mal_connect: bind, open the browser, start the worker,
\* show the modal.  A port still bound is a toast.
OpenConnect ==
    /\ modal = None
    /\ Len(opened) < MaxSessions
    /\ \E svc \in Services :
          /\ ~PortBusy(svc)
          /\ opened' = Append(opened, svc)
    /\ server' = Append(server, Listening)
    /\ modal' = Len(opened')
    /\ tabs' = tabs \cup {Len(opened')}
    /\ UNCHANGED <<disk, queue, others>>

\* Canceler::cancel raises the flag, then dials the listener.
Dialled(waiting) == waiting \cup {Dial}

\* Esc in the modal.
CancelConnect ==
    /\ modal # None
    /\ server' = [server EXCEPT ![modal].cancelled = TRUE,
                                ![modal].waiting = Dialled(@)]
    /\ modal' = None
    /\ UNCHANGED <<disk, opened, tabs, queue, others>>

\* on_connect_result, on_mal_connect_result: the modal closes whatever the
\* outcome and whichever session it is of (and the file is read again).
ConnectAnswered ==
    /\ queue # <<>>
    /\ queue' = Tail(queue)
    /\ modal' = None
    /\ UNCHANGED <<disk, opened, server, tabs, others>>

-----------------------------------------------------------------------------
(* The browser *)

\* The tab of session `t' calls back the port its address names, where a later
\* session of the service may be the one that listens.
TabCallsBack(s) ==
    /\ server[s].step \notin {"ended", "closed"}
    /\ \E t \in tabs :
          /\ opened[t] = opened[s]
          /\ server' = [server EXCEPT ![s].waiting = @ \cup {t}]
          /\ tabs' = tabs \ {t}
    /\ UNCHANGED <<disk, modal, opened, queue, others>>

\* The relay page's own request, a favicon, a connection that sends nothing.
OtherConnection(s) ==
    /\ server[s].step \notin {"ended", "closed"}
    /\ others < MaxOthers
    /\ others' = others + 1
    /\ server' = [server EXCEPT ![s].waiting = @ \cup {Other}]
    /\ UNCHANGED <<disk, modal, opened, tabs, queue>>

-----------------------------------------------------------------------------
(* A session's worker *)

\* A cancelled session ends in silence.
Posted(outcome) == outcome # "Canceled"

\* serve returns; the listener closes when the worker's closure goes.
End(s, outcome) ==
    /\ server' = [server EXCEPT ![s].step = "ended", ![s].conn = None,
                                ![s].copy = None]
    /\ queue' = IF Posted(outcome) THEN Append(queue, [of |-> s, outcome |-> outcome])
                ELSE queue

\* The accept loop: every connection that waits is accepted in some order,
\* and the flag is read once it is.
Accept(s) ==
    /\ server[s].step = "accepting"
    /\ \/ \E c \in server[s].waiting :
             IF server[s].cancelled THEN End(s, "Canceled")
             ELSE /\ server' = [server EXCEPT ![s].step = "reading", ![s].conn = c,
                                              ![s].waiting = @ \ {c}]
                  /\ UNCHANGED queue
       \/ End(s, "NetworkError")
    /\ UNCHANGED <<disk, modal, opened, tabs, others>>

\* A callback is taken whatever its state.
AnyState(s, c) == c \notin {Dial, Other}

\* The callback carries the nonce this session minted.
OwnState(s, c) == c = s

\* handle_conn up to the state: what is no callback, and a callback with
\* another state, is answered and forgotten.
ReadRequest(s) ==
    /\ server[s].step = "reading"
    /\ IF OwnState(s, server[s].conn)
       THEN server' = [server EXCEPT ![s].step = "asking"]
       ELSE server' = [server EXCEPT ![s].step = "accepting", ![s].conn = None]
    /\ UNCHANGED <<disk, modal, opened, tabs, queue, others>>

\* complete_login's verifier, complete_mal_login's exchange: the callback had
\* no token, the service refused it, could not be reached, or took it.  The
\* MyAnimeList sign-in reads the file before it changes its block.
Ask(s) ==
    /\ server[s].step = "asking"
    /\ \/ \E o \in {"NoToken", "Rejected", "NetworkError"} : End(s, o)
       \/ /\ server' = [server EXCEPT ![s].step = "saving",
                                      ![s].copy = IF opened[s] = "mal" THEN disk
                                                  ELSE None]
          /\ UNCHANGED queue
    /\ UNCHANGED <<disk, modal, opened, tabs, others>>

\* The file complete_login writes: build_auth starts from an empty one.
AniListFile(token) == [anilist |-> token, mal |-> None]

\* Auth::save, by a temporary file and a rename.
Save(s) ==
    /\ server[s].step = "saving"
    /\ LET token == server[s].conn
       IN  \/ /\ disk' = IF opened[s] = "anilist" THEN AniListFile(token)
                         ELSE [server[s].copy EXCEPT !.mal = token]
              /\ End(s, "Ok")
           \/ /\ End(s, "SaveFailed")
              /\ UNCHANGED disk
    /\ UNCHANGED <<modal, opened, tabs, others>>

CloseListener(s) ==
    /\ server[s].step = "ended"
    /\ server' = [server EXCEPT ![s].step = "closed", ![s].waiting = {}]
    /\ UNCHANGED <<disk, modal, opened, tabs, queue, others>>

-----------------------------------------------------------------------------
(* The command line *)

\* `shigoku login --paste' in another process: the pasted token is verified
\* and saved the same way.
PasteLogin ==
    /\ disk' = AniListFile(Pasted)
    /\ UNCHANGED <<modal, opened, server, tabs, queue, others>>

Worker(s) == Accept(s) \/ ReadRequest(s) \/ Ask(s) \/ Save(s) \/ CloseListener(s)

Next ==
    \/ OpenConnect \/ CancelConnect \/ ConnectAnswered \/ PasteLogin
    \/ \E s \in Sessions : TabCallsBack(s) \/ OtherConnection(s) \/ Worker(s)

Spec == Init /\ [][Next]_vars

\* A worker goes on while it has something to read: the service's client and
\* the read of a connection have deadlines.  The interface pumps its queue.
\* Nothing says that a browser calls back.
GoesOn(s) == /\ s \in Sessions /\ (server[s].waiting # {} \/ server[s].step # "accepting")
             /\ Worker(s)

Fairness == (\A s \in 1..MaxSessions : WF_vars(GoesOn(s))) /\ WF_vars(ConnectAnswered)

FairSpec == Spec /\ Fairness

-----------------------------------------------------------------------------
(* Properties *)

TypeOK ==
    /\ disk \in AuthFile
    /\ modal \in Sessions \cup {None}
    /\ opened \in Seq(Services) /\ Len(server) = Len(opened)
    /\ \A s \in Sessions :
          /\ server[s].step \in {"accepting", "reading", "asking", "saving",
                                 "ended", "closed"}
          /\ server[s].cancelled \in BOOLEAN
          /\ server[s].waiting \subseteq (Sessions \cup {Dial, Other})
          /\ server[s].copy \in AuthFile \cup {None}
    /\ tabs \subseteq Sessions
    /\ \A i \in DOMAIN queue : queue[i].of \in Sessions /\ queue[i].outcome \in Outcome
    /\ others \in 0..MaxOthers

\* The modal is never left up with nothing coming: its worker goes on, or its
\* answer is on the way (app.cpp spawn_connect, to_connect_done).
ModalIsAnswered ==
    modal # None => \/ server[modal].step \notin {"ended", "closed"}
                    \/ \E i \in DOMAIN queue : queue[i].of = modal

\* A token that reaches the file is that of the session that saved it: a tab
\* left from a cancelled session cannot sign the next one in (loopback.cpp
\* handle_conn: never verify or persist another state).
OwnTabSignsIn ==
    [][\A s \in Sessions :
          Save(s) => disk'[opened[s]] \in {s, disk[opened[s]]}]_vars

\* A cancelled session gives its port back (loopback.cpp Canceler::cancel,
\* serve), so that the service can be signed in to again.
CancelFreesPort ==
    \A s \in 1..MaxSessions :
        (s \in Sessions /\ server[s].cancelled)
            ~> (s \in Sessions /\ server[s].step = "closed")

\* A sign-in comes to an end, and says so unless the user ended it: the modal
\* comes down, the port comes free.
SignInEnds == []ModalIsAnswered /\ CancelFreesPort
=============================================================================
