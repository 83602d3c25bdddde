----------------------------- MODULE MCMlfqRules -----------------------------
(* Instances for the rules of README.md.                                   *)
EXTENDS MlfqRules

MCQuanta == [q \in Level |-> 2^q]
=============================================================================
