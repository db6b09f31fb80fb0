---------------------------- MODULE MCInterface -----------------------------
(* Interface in two parts: the show page and its section over two shows,    *)
(* and every view with every owner of the keys over one.                    *)
EXTENDS Interface

VARIABLE part

First == CHOOSE x \in Shows : TRUE

\* Two shows in Browse and History; nothing owns the keys.
PagePart ==
    /\ UNCHANGED <<own, play, landing>>
    /\ scr'.view \in {"Browse", "History", "Detail"}
    /\ scr'.bar = "idle"
    /\ win'.wide = win'.tall
    /\ grid'.holds \in {"nothing", "episodes"}
    /\ \A l \in {"Discover", "Schedule"} : sel'[l] = sel[l]

\* One show; the section stays away, and a list that has a row keeps one.
KeysPart ==
    /\ UNCHANGED <<recs, jobs>>
    /\ win'.tall
    /\ \A l \in Lists : sel'[l] \in {sel[l], First}

PartInit ==
    /\ part = "page" => ~landing.pending /\ win.wide = win.tall
    /\ part = "keys" => win.tall /\ sel["History"] \in {None, First}

MCInit == Init /\ part \in {"page", "keys"} /\ PartInit

MCNext ==
    /\ Next
    /\ UNCHANGED part
    /\ part = "page" => PagePart
    /\ part = "keys" => KeysPart

MCSpec == MCInit /\ [][MCNext]_<<vars, part>>
=============================================================================
