---------------------------- MODULE AtomicFiles ----------------------------
(* What the two downloaders promise of the names they write: a final name   *)
(* holds nothing or a whole file and keeps it, a file may move to the twin  *)
(* of its name when that is free, and a set of names is sealed only when    *)
(* each of them holds its file.  A power loss may take back what was done   *)
(* last, but it tears no file except where the sync before the publication  *)
(* was not made, or failed unheard.                                         *)
EXTENDS Naturals

CONSTANTS Name,       \* the final names
          Twin,       \* the name a file follows its show to
          Content,    \* the whole contents a file may have
          Sealable,   \* the names the seal vouches for
          Torn,       \* any other content
          None

VARIABLES published,   \* what each name holds
          sealed,      \* the seal is set
          loose,       \* the names published without a sync
          outages      \* the power losses so far

Init == published = [n \in Name |-> None] /\ sealed = FALSE /\ loose = {} /\ outages = 0

Publish(n) ==
    /\ published'[n] \in Content
    /\ published' = [published EXCEPT ![n] = published'[n]]
    /\ UNCHANGED <<sealed, loose, outages>>

\* The sync that ought to come before the publication of n does not.
Unsynced(n) ==
    /\ loose' = loose \cup {n}
    /\ UNCHANGED <<published, sealed, outages>>

\* The files of S follow their show: each leaves its name for the twin.
Move(S) ==
    /\ \A n \in S : published[n] # None /\ published[Twin[n]] = None
    /\ published' = [n \in Name |->
            IF n \in S THEN None
            ELSE IF \E m \in S : Twin[m] = n
                 THEN published[CHOOSE m \in S : Twin[m] = n]
                 ELSE published[n]]
    /\ loose' = loose \cup {Twin[n] : n \in S \cap loose}
    /\ UNCHANGED <<sealed, outages>>

Seal ==
    /\ \A n \in Sealable : published[n] # None
    /\ sealed' = TRUE
    /\ UNCHANGED <<published, loose, outages>>

\* A name is back at nothing or at a whole file; what is loose may be torn, and
\* the seal does not outlive what it vouches for.
Outage ==
    /\ outages' = outages + 1
    /\ published' \in [Name -> Content \cup {None, Torn}]
    /\ \A n \in Name : published'[n] = Torn => n \in loose
    /\ sealed' => sealed /\ \A n \in Sealable : published'[n] # None
    /\ UNCHANGED loose

Next ==
    \/ \E n \in Name : Publish(n) \/ Unsynced(n)
    \/ \E S \in SUBSET {n \in Name : Twin[n] # n /\ published[n] # None} : Move(S)
    \/ Seal
    \/ Outage

Spec == Init /\ [][Next]_<<published, sealed, loose, outages>>
=============================================================================
