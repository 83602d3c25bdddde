------------------------------ MODULE MlfqOrder ------------------------------
(***************************************************************************)
(* Mlfq with a history variable: since[c] is the set of processes that     *)
(* have been RUNNABLE in one queue ever since CPU c began its present scan *)
(* of the process table.                                                   *)
(***************************************************************************)
EXTENDS Mlfq

VARIABLE since

orderVars == <<vars, since>>

ScanStarts(c)    == pc[c] \in {"check", "boostp"} /\ pc'[c] = "scan"
ScanContinues(c) == \/ pc'[c] \in {"scan", "resume"}
                    \/ pc'[c] = "wake" /\ ret'[c] = "scan"

StillWaiting(p) == state'[p] = "RUNNABLE" /\ priority'[p] = priority[p]

OrderInit == Init /\ since = [c \in Cpu |-> {}]

OrderNext ==
  /\ Next
  /\ since' = [c \in Cpu |->
       IF ScanStarts(c) THEN {p \in Proc : state'[p] = "RUNNABLE"}
       ELSE IF ScanContinues(c) THEN {p \in since[c] : StillWaiting(p)}
       ELSE {}]

OrderSpec == OrderInit /\ [][OrderNext]_orderVars

(***************************************************************************)
(* Rule 1, as far as a scan that locks one process at a time can promise   *)
(* it: scheduler() never dispatches a process past one that waited in a    *)
(* higher queue, or in a lower slot of the same queue, during the whole of *)
(* the scan, although boosts, wakeups and yields on other CPUs change the  *)
(* queues under it.                                                        *)
(***************************************************************************)
HigherQueueFirst ==
  \A c \in Cpu : pc[c] = "resume" =>
    \A w \in since[c] :
      \/ priority[w] > priority[proc[c]]
      \/ priority[w] = priority[proc[c]] /\ w > proc[c]
=============================================================================
