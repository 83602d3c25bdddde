------------------------------- MODULE MCMlfq -------------------------------
(* Small instances of Mlfq; as in param.h, queue q has a quantum of 2^q.   *)
EXTENDS Mlfq

MCQuanta == [q \in Level |-> 2^q]
=============================================================================
