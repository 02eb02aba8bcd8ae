------------------------------ MODULE SampleMap ------------------------------
(***************************************************************************)
(* What a buffer of enhanced audio promises: a partial map from sample     *)
(* positions to samples.  A run is stored where nothing is known yet, the  *)
(* past is forgotten, and nothing that is stored is ever replaced.         *)
(***************************************************************************)
EXTENDS Integers, Functions

CONSTANTS Sample, LastPosition

VARIABLE known

Init == known = <<>>

\* A run of new samples, at consecutive positions.
Store ==
    LET new == DOMAIN known' \ DOMAIN known
    IN  /\ new # {}
        /\ \E first, last \in 0..LastPosition : new = first..last
        /\ \A p \in new : known'[p] \in Sample
        /\ Restrict(known', DOMAIN known) = known

\* Everything before a position, possibly everything.
Forget == \E cut \in 0..(LastPosition + 1) :
              known' = Restrict(known, {p \in DOMAIN known : p >= cut})

Next == Store \/ Forget

Spec == Init /\ [][Next]_known

=============================================================================
