------------------------------- MODULE Pstat --------------------------------
(***************************************************************************)
(* getpstat() and getprocinfo() of kernel/proc.c: a walk over the process  *)
(* table that locks one slot at a time while processes are made, given to  *)
(* init and reaped.  getpstat() also follows p->parent, which wait_lock    *)
(* protects, with only p->lock held, and reads the pid found there later.  *)
(*                                                                         *)
(* Of a process only pid and parent matter here (ProcLife has the rest):   *)
(* fork(), exit() with reparent(), and wait()'s freeproc() are one step    *)
(* each.                                                                   *)
(*                                                                         *)
(* An operator defined just before another of like name is a faulty form   *)
(* of it that no action uses (see Mlfq).                                   *)
(***************************************************************************)
EXTENDS Integers

CONSTANTS
  StatSlot,   \* the slots 1 .. n of the process table; init has slot 1
  MaxPid      \* bound on the pids given out

ASSUME StatAssumption == 1 \in StatSlot /\ \A s \in StatSlot : s \in Nat \ {0}

VARIABLES
  slot,       \* of each slot its state, pid and parent's slot (0: none)
  nextpid,
  scan,       \* the call: its name, the slot it is at, the parent it read
  rows,       \* what it has put in the buffer
  stable      \* slots whose process, parent and parent's pid have been the
              \* same since the call began

statVars == <<slot, nextpid, scan, rows, stable>>

Unused == [state |-> "UNUSED", pid |-> 0, parent |-> 0]
NoCall == [call |-> "none", at |-> 0, pp |-> -1]
NoRow  == [pid |-> 0, ppid |-> 0]

StatInit ==
  /\ slot = [s \in StatSlot |-> IF s = 1 THEN [state |-> "LIVE", pid |-> 1, parent |-> 0]
                                         ELSE Unused]
  /\ nextpid = 2
  /\ scan = NoCall /\ rows = [s \in StatSlot |-> NoRow] /\ stable = {}

PidOf(t, q) == IF q = 0 THEN 0 ELSE t[q].pid

(* A step of the processes; a slot stops being stable with any change.     *)
Becomes(t) ==
  /\ slot' = t
  /\ stable' = {s \in stable : t[s].pid = slot[s].pid /\ t[s].parent = slot[s].parent
                                /\ PidOf(t, t[s].parent) = PidOf(slot, t[s].parent)}
  /\ UNCHANGED <<scan, rows>>

(* fork(): a USED slot, its parent under wait_lock, then LIVE, which is    *)
(* RUNNABLE and what follows.  The slot whose p->lock getpstat() holds     *)
(* does not change its state.                                              *)
NotHeld(s) == scan.pp # -1 => s # scan.at

allocproc(s) ==
  /\ slot[s].state = "UNUSED" /\ NotHeld(s) /\ nextpid <= MaxPid
  /\ Becomes([slot EXCEPT ![s] = [state |-> "USED", pid |-> nextpid, parent |-> 0]])
  /\ nextpid' = nextpid + 1

Forks(p) == \E s \in StatSlot : slot[s].state = "USED" /\ slot[s].parent = p

forkParent(s, p) ==
  /\ slot[s].state = "USED" /\ slot[s].parent = 0
  /\ slot[p].state = "LIVE" /\ ~Forks(p)
  /\ Becomes([slot EXCEPT ![s].parent = p])
  /\ UNCHANGED nextpid

forkRunnable(s) ==
  /\ slot[s].state = "USED" /\ slot[s].parent # 0 /\ NotHeld(s)
  /\ Becomes([slot EXCEPT ![s].state = "LIVE"])
  /\ UNCHANGED nextpid

exit(p) ==
  /\ p # 1 /\ slot[p].state = "LIVE" /\ ~Forks(p) /\ NotHeld(p)
  /\ Becomes([s \in StatSlot |->
       IF s = p THEN [slot[s] EXCEPT !.state = "ZOMBIE"]
       ELSE IF slot[s].parent = p THEN [slot[s] EXCEPT !.parent = 1] ELSE slot[s]])
  /\ UNCHANGED nextpid

waitFrees(s) ==
  /\ slot[s].state = "ZOMBIE" /\ NotHeld(s)
  /\ Becomes([slot EXCEPT ![s] = Unused])
  /\ UNCHANGED nextpid

-----------------------------------------------------------------------------
(* The call begins; getpstat() may fail to get a page.                     *)
StatCall(call) ==
  /\ scan.call = "none"
  /\ scan' = [call |-> call, at |-> 1, pp |-> -1]
  /\ rows' = [s \in StatSlot |-> NoRow]
  /\ stable' = {s \in StatSlot : slot[s].state # "UNUSED"}
  /\ UNCHANGED <<slot, nextpid>>

InUseNow(p) == p.state \notin {"UNUSED", "USED"}
InUse(p) == p.state # "UNUSED"

Scanning(call) == scan.call = call /\ scan.at \in StatSlot /\ scan.pp = -1
NextSlot(at) == scan' = [scan EXCEPT !.at = at, !.pp = -1]

(* getprocinfo(): a row is copied out when p->lock is released; copyout()  *)
(* may fail, and the call ends.                                            *)
getprocinfo ==
  LET p == slot[scan.at] IN
  /\ Scanning("getprocinfo")
  /\ rows' = [rows EXCEPT ![scan.at] = IF InUse(p) THEN [pid |-> p.pid, ppid |-> 0] ELSE NoRow]
  /\ NextSlot(scan.at + 1)
  /\ UNCHANGED <<slot, nextpid, stable>>

(* getpstat() under p->lock, up to the load of p->parent ...               *)
getpstat ==
  LET p == slot[scan.at] IN
  /\ Scanning("getpstat")
  /\ IF InUse(p)
     THEN /\ rows' = [rows EXCEPT ![scan.at].pid = p.pid]
          /\ scan' = [scan EXCEPT !.pp = p.parent]
     ELSE NextSlot(scan.at + 1) /\ UNCHANGED rows
  /\ UNCHANGED <<slot, nextpid, stable>>

(* ... and the load of its pid, after which p->lock is released.           *)
getpstatPpid ==
  /\ scan.call = "getpstat" /\ scan.pp # -1
  /\ rows' = [rows EXCEPT ![scan.at].ppid = PidOf(slot, scan.pp)]
  /\ NextSlot(scan.at + 1)
  /\ UNCHANGED <<slot, nextpid, stable>>

(* The call returns at the end of the table; getprocinfo() also when a     *)
(* copyout() fails, getpstat() at once when there is no page.              *)
StatReturns ==
  /\ scan.call # "none" /\ scan.pp = -1
  /\ scan.at \notin StatSlot \/ scan.call = "getprocinfo" \/ scan.at = 1
  /\ scan' = NoCall
  /\ UNCHANGED <<slot, nextpid, rows, stable>>

StatNext ==
  \/ \E s \in StatSlot :
       \/ allocproc(s) \/ forkRunnable(s) \/ exit(s) \/ waitFrees(s)
       \/ \E p \in StatSlot : forkParent(s, p)
  \/ \E call \in {"getpstat", "getprocinfo"} : StatCall(call)
  \/ getprocinfo \/ getpstat \/ getpstatPpid
  \/ StatReturns

StatSpec == StatInit /\ [][StatNext]_statVars

-----------------------------------------------------------------------------
(***************************************************************************)
(* proc.c:874, "comprehensive process statistics", taken slot by slot: a   *)
(* process that exists throughout the call is listed in its row, with its  *)
(* parent's pid if that parent has stayed its parent.                      *)
(***************************************************************************)
SnapshotComplete ==
  scan.call # "none" => \A s \in stable : s < scan.at =>
    /\ rows[s].pid = slot[s].pid
    /\ scan.call = "getpstat" => rows[s].ppid = PidOf(slot, slot[s].parent)
=============================================================================
