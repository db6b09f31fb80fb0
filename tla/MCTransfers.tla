---------------------------- MODULE MCTransfers ----------------------------
EXTENDS Transfers

CONSTANTS e1, e2, direct, other, child

MCOffers == [e \in {e1, e2} |-> IF e = e1 THEN {direct} ELSE {child}]

\* Two sources serve the first episode, both straight and both resumable.
MCTwoSources == [e \in {e1, e2} |-> IF e = e1 THEN {direct, other} ELSE {child}]
=============================================================================
