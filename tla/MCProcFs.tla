------------------------------ MODULE MCProcFs ------------------------------
(***************************************************************************)
(* Safety of processes, log and file contents.  The parts do not interact  *)
(* here: a behaviour picks one, and the others stay in their first state.  *)
(***************************************************************************)
EXTENDS ProcLife, Log, FileData, TLC

VARIABLE part

procFsVars == <<vars, logVars, fileVars, part>>

ProcFsInit ==
  /\ part \in {"proc", "log", "data"}
  /\ Init /\ LogInit /\ FileInit

ProcFsNext ==
  /\ UNCHANGED part
  /\ \/ part = "proc" /\ Next /\ UNCHANGED <<logVars, fileVars>>
     \/ part = "log" /\ LogNext /\ UNCHANGED <<vars, fileVars>>
     \/ part = "data" /\ FileNext /\ UNCHANGED <<vars, logVars>>

ProcFsSpec == ProcFsInit /\ [][ProcFsNext]_procFsVars

InodeOf  == [f \in OpenFile |-> f]
Payloads == {<<1>>, <<1, 0, 1>>}

(* The same values name processes, inodes and open files.                  *)
Interchangeable ==
  Permutations(FsProc) \cup Permutations(HomeBlock) \cup Permutations(Content)
=============================================================================
