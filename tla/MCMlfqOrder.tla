----------------------------- MODULE MCMlfqOrder -----------------------------
(* Three slots, so that one process can wait while two CPUs are busy.      *)
EXTENDS MlfqOrder

MCQuanta == [q \in Level |-> 2^q]
=============================================================================
