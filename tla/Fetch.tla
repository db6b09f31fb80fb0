------------------------------- MODULE Fetch -------------------------------
(* One request over HTTP (http.cpp): what the client makes of what came back. *)
EXTENDS Naturals

CONSTANT Impersonates   \* the library that imitates a browser's handshake loads

\* What the network and a site may do with a request.  Redirects are refused, so
\* a 302 comes back as it is; a body is the site's own, something that is not in
\* the format asked for ("junk"), JSON without what was asked for ("keyless"), or
\* a challenge page.
Full(status, body) == [wire |-> "full", status |-> status, body |-> body]
Broken == {[wire |-> w, status |-> 0, body |-> "junk"] : w \in {"dead", "oversize"}}
Refusals == {Full(s, "junk") : s \in {302, 403, 429, 503}}

\* A site that has the resource answers with it; one that has not may say 404.
\* `odd' are the other bodies it may send with 200.
Replies(there, odd) ==
    Broken \cup Refusals \cup {Full(200, b) : b \in odd}
           \cup IF there THEN {Full(200, "site")} ELSE {Full(404, "junk")}

from_status(s) ==
    CASE s = 429 -> "RateLimited"
      [] s \in {403, 451} -> "Forbidden"
      [] s \in 500..599 -> "Server"
      [] OTHER -> "Http"

Accepted(accept, s) == IF accept = "OkOnly" THEN s = 200 ELSE s \in 200..299

Failed(kind, status) == [kind |-> kind, status |-> status, body |-> "junk"]

\* setup_request: the wanted browser cannot be imitated, or the request is made.
Reaches(fingerprint) == fingerprint = "None" \/ Impersonates

fetch(r, accept, fingerprint) ==
    CASE ~Reaches(fingerprint) -> Failed("Network", 0)
      [] Reaches(fingerprint) /\ r.wire = "dead" -> Failed("Network", 0)
      [] Reaches(fingerprint) /\ r.wire = "oversize" -> Failed("Decode", 0)
      [] Reaches(fingerprint) /\ r.wire = "full" /\ ~Accepted(accept, r.status) ->
             Failed(from_status(r.status), r.status)
      [] OTHER -> [kind |-> "Ok", status |-> r.status, body |-> r.body]
=============================================================================
