----------------------------- MODULE MCLiveness -----------------------------
(***************************************************************************)
(* What must eventually happen: wait() and exit(), the disk's requests,    *)
(* the shell's pipeline and the serial line.  The parts do not interact    *)
(* here: a behaviour picks one, and the others stay in their first state,  *)
(* in which only the shell could owe a step.                               *)
(***************************************************************************)
EXTENDS ProcLife, Virtio, Shell, Uart

VARIABLE part

liveVars == <<vars, diskVars, shellVars, uartVars, part>>

LiveInit ==
  /\ part \in {"proc", "disk", "shell", "uart"}
  /\ Init /\ DiskInit /\ ShellInit /\ UartInit
  /\ part # "disk" => used_idx = 0

LiveNext ==
  /\ UNCHANGED part
  /\ \/ part = "proc" /\ Next /\ UNCHANGED <<diskVars, shellVars, uartVars>>
     \/ part = "disk" /\ DiskNext /\ UNCHANGED <<vars, shellVars, uartVars>>
     \/ part = "shell" /\ ShellNext /\ UNCHANGED <<vars, diskVars, uartVars>>
     \/ part = "uart" /\ UartNext /\ UNCHANGED <<vars, diskVars, shellVars>>

LiveSpec ==
  /\ LiveInit /\ [][LiveNext]_liveVars
  /\ Fairness /\ DiskFair /\ UartFair
  /\ \A p \in FileProc : WF_shellVars(part = "shell" /\ Statement(p))

Messages == {<<0, 1, 1, 0, 1>>, <<1>>}
=============================================================================
