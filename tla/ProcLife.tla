------------------------------ MODULE ProcLife ------------------------------
(***************************************************************************)
(* The life of a process in kernel/proc.c: fork(), exit(), wait(), kill()  *)
(* and the sleep() and wakeup() between them, at the grain of wait_lock    *)
(* and p->lock.                                                            *)
(*                                                                         *)
(* Scheduling is module Mlfq's: here RUNNABLE stands for RUNNING as well,  *)
(* and any number of processes take steps.  Nothing exits, is adopted or   *)
(* becomes a child while another process holds wait_lock, so wait()'s scan *)
(* under wait_lock is one step, as is reparent()'s; and a process sleeps   *)
(* on its own address only in wait(), so wakeup(q) concerns slot q alone.  *)
(*                                                                         *)
(* An operator defined just before another of like name is a faulty form   *)
(* of it that no action uses (see Mlfq).                                   *)
(***************************************************************************)
EXTENDS Integers

CONSTANTS
  NPROC,        \* slots of the process table; init has slot 1
  KillTargets,  \* slots that kill() is called for
  Sleepers      \* slots whose processes sleep elsewhere than in wait()

Proc     == 1 .. NPROC
NoProc   == 0
NoChan   == 0     \* p->chan is 0, the address of a process,
IoChan   == -1    \* or that of something else
initproc == 1

ASSUME NPROCAssumption == NPROC \in Nat \ {0}
ASSUME InputAssumption ==
  KillTargets \subseteq Proc \ {initproc} /\ Sleepers \subseteq Proc

VARIABLES
  state, parent, chan, killed,  \* fields of struct proc
  plock,        \* slots whose p->lock is held across a step
  wait_lock,    \* its holder, or NoProc
  pc, np        \* what each process is doing, and fork()'s local np

vars == <<state, parent, chan, killed, plock, wait_lock, pc, np>>

ProcState == {"UNUSED", "USED", "SLEEPING", "RUNNABLE", "ZOMBIE"}

(***************************************************************************)
(* "none": the slot has no thread; "user": outside these calls;            *)
(* "parent", "runnable": fork() before np->parent and np->state are set;   *)
(* "wait": wait() without wait_lock; "scan", "presleep": with it;          *)
(* "sleep": sleep() with p->lock only; "asleep": off the CPU in wait();    *)
(* "iosleep": sys_sleep() between its test and sleep(); "io": in sleep();  *)
(* "close": exit() closing files; "exit": exit() going for wait_lock;      *)
(* "reparent", "wakeup", "zombie": with it; "swtch": exit() in sched().    *)
(***************************************************************************)
HoldsWaitLock == {"scan", "presleep", "reparent", "wakeup", "zombie"}
Pc == HoldsWaitLock \cup
  {"none", "user", "parent", "runnable", "wait", "sleep", "asleep", "iosleep", "io",
   "close", "exit", "swtch"}

TypeOK ==
  /\ state \in [Proc -> ProcState]
  /\ parent \in [Proc -> Proc \cup {NoProc}]
  /\ chan \in [Proc -> Proc \cup {NoChan, IoChan}]
  /\ killed \in [Proc -> BOOLEAN]
  /\ plock \in SUBSET Proc
  /\ wait_lock \in Proc \cup {NoProc}
  /\ pc \in [Proc -> Pc]
  /\ np \in [Proc -> Proc \cup {NoProc}]

(* userinit() has made the first process.                                  *)
Init ==
  /\ state = [p \in Proc |-> IF p = initproc THEN "RUNNABLE" ELSE "UNUSED"]
  /\ parent = [p \in Proc |-> NoProc]
  /\ chan = [p \in Proc |-> NoChan]
  /\ killed = [p \in Proc |-> FALSE]
  /\ plock = {}
  /\ wait_lock = NoProc
  /\ pc = [p \in Proc |-> IF p = initproc THEN "user" ELSE "none"]
  /\ np = [p \in Proc |-> NoProc]

GoTo(p, to) == pc' = [pc EXCEPT ![p] = to]

(* usertrap() lets a process that is killed do nothing but exit().         *)
InUser(p) == state[p] = "RUNNABLE" /\ pc[p] = "user" /\ ~killed[p]

Children(p) == {q \in Proc : parent[q] = p}
Zombies(p)  == {q \in Children(p) : state[q] = "ZOMBIE"}

-----------------------------------------------------------------------------
(* fork().                                                                 *)

(* allocproc() takes a slot; chan and killed are as the slot has them.     *)
Allocproc(p, n) ==
  /\ InUser(p)
  /\ state[n] = "UNUSED" /\ n \notin plock
  /\ state' = [state EXCEPT ![n] = "USED"]
  /\ np' = [np EXCEPT ![p] = n]
  /\ GoTo(p, "parent")
  /\ UNCHANGED <<parent, chan, killed, plock, wait_lock>>

freeprocKeepParent(n) ==
  /\ state' = [state EXCEPT ![n] = "UNUSED"]
  /\ chan' = [chan EXCEPT ![n] = NoChan]
  /\ killed' = [killed EXCEPT ![n] = FALSE]
  /\ UNCHANGED parent

freeproc(n) ==
  /\ state' = [state EXCEPT ![n] = "UNUSED"]
  /\ parent' = [parent EXCEPT ![n] = NoProc]
  /\ chan' = [chan EXCEPT ![n] = NoChan]
  /\ killed' = [killed EXCEPT ![n] = FALSE]

(* An allocation fails and the slot goes back before p->lock is released.  *)
ForkFails(p, n) ==
  /\ InUser(p)
  /\ state[n] = "UNUSED" /\ n \notin plock
  /\ freeproc(n)
  /\ UNCHANGED <<plock, wait_lock, pc, np>>

ForkParent(p) ==
  /\ pc[p] = "parent"
  /\ wait_lock = NoProc
  /\ parent' = [parent EXCEPT ![np[p]] = p]
  /\ GoTo(p, "runnable")
  /\ UNCHANGED <<state, chan, killed, plock, wait_lock, np>>

ForkRunnable(p) ==
  /\ pc[p] = "runnable"
  /\ np[p] \notin plock
  /\ state' = [state EXCEPT ![np[p]] = "RUNNABLE"]
  /\ pc' = [pc EXCEPT ![p] = "user", ![np[p]] = "user"]
  /\ np' = [np EXCEPT ![p] = NoProc]
  /\ UNCHANGED <<parent, chan, killed, plock, wait_lock>>

-----------------------------------------------------------------------------
(* wait().                                                                 *)

WaitCall(p) ==
  /\ InUser(p)
  /\ GoTo(p, "wait")
  /\ UNCHANGED <<state, parent, chan, killed, plock, wait_lock, np>>

WaitLock(p) ==
  /\ pc[p] = "wait"
  /\ wait_lock = NoProc
  /\ wait_lock' = p
  /\ GoTo(p, "scan")
  /\ UNCHANGED <<state, parent, chan, killed, plock, np>>

First(q, S) == \A r \in S : q <= r

CanLockAny(q) == TRUE
CanLock(q) == q \notin plock

(* The scan takes the first zombie's lock, copies its status and frees it. *)
WaitReap(p) ==
  /\ pc[p] = "scan"
  /\ \E q \in Zombies(p) : First(q, Zombies(p)) /\ CanLock(q) /\ freeproc(q)
  /\ wait_lock' = NoProc
  /\ GoTo(p, "user")
  /\ UNCHANGED <<plock, np>>

WaitBadAddrLeak(p) ==
  /\ pc[p] = "scan"
  /\ p # initproc
  /\ \E q \in Zombies(p) : First(q, Zombies(p)) /\ CanLock(q)
  /\ GoTo(p, "user")
  /\ UNCHANGED <<state, parent, chan, killed, plock, wait_lock, np>>

(* copyout() fails: the zombie stays.  init calls wait(0), with no copy.   *)
WaitBadAddr(p) ==
  /\ pc[p] = "scan"
  /\ p # initproc
  /\ \E q \in Zombies(p) : First(q, Zombies(p)) /\ CanLock(q)
  /\ wait_lock' = NoProc
  /\ GoTo(p, "user")
  /\ UNCHANGED <<state, parent, chan, killed, plock, np>>

WaitReturn(p) ==
  /\ pc[p] = "scan"
  /\ Zombies(p) = {}
  /\ Children(p) = {} \/ killed[p]
  /\ wait_lock' = NoProc
  /\ GoTo(p, "user")
  /\ UNCHANGED <<state, parent, chan, killed, plock, np>>

WaitSleep(p) ==
  /\ pc[p] = "scan"
  /\ Zombies(p) = {} /\ Children(p) # {} /\ ~killed[p]
  /\ GoTo(p, "presleep")
  /\ UNCHANGED <<state, parent, chan, killed, plock, wait_lock, np>>

(* sleep(p, &wait_lock) takes p->lock before it releases wait_lock ...     *)
SleepUnlock(p) ==
  /\ pc[p] = "presleep"
  /\ wait_lock' = NoProc
  /\ GoTo(p, "sleep")
  /\ UNCHANGED <<state, parent, chan, killed, plock, np>>

SleepLock(p) ==
  /\ pc[p] = "presleep"
  /\ plock' = plock \cup {p}
  /\ wait_lock' = NoProc
  /\ GoTo(p, "sleep")
  /\ UNCHANGED <<state, parent, chan, killed, np>>

(* ... and the scheduler releases p->lock after swtch().                   *)
SleepSched(p) ==
  /\ pc[p] = "sleep"
  /\ state' = [state EXCEPT ![p] = "SLEEPING"]
  /\ chan' = [chan EXCEPT ![p] = p]
  /\ plock' = plock \ {p}
  /\ GoTo(p, "asleep")
  /\ UNCHANGED <<parent, killed, wait_lock, np>>

(* Woken, sleep() goes for wait_lock and wait() looks again.               *)
SleepReturn(p) ==
  /\ pc[p] = "asleep"
  /\ state[p] = "RUNNABLE"
  /\ chan' = [chan EXCEPT ![p] = NoChan]
  /\ GoTo(p, "wait")
  /\ UNCHANGED <<state, parent, killed, plock, wait_lock, np>>

-----------------------------------------------------------------------------
(* exit(); init never calls it.                                            *)

ExitCall(p) ==
  /\ state[p] = "RUNNABLE" /\ pc[p] = "user"
  /\ p # initproc
  /\ GoTo(p, "close")
  /\ UNCHANGED <<state, parent, chan, killed, plock, wait_lock, np>>

(* exit() is closing files and awake.                                      *)
Closing(p) == pc[p] = "close" /\ state[p] = "RUNNABLE" /\ chan[p] # IoChan

(* fileclose(), begin_op(), iput() and end_op() sleep any number of times, *)
(* killed or not, for the log, a buffer or the disk; what they do to files *)
(* is left out.                                                            *)
ExitSleep(p) ==
  /\ Closing(p)
  /\ p \in Sleepers
  /\ state' = [state EXCEPT ![p] = "SLEEPING"]
  /\ chan' = [chan EXCEPT ![p] = IoChan]
  /\ UNCHANGED <<parent, killed, plock, wait_lock, pc, np>>

ExitClosed(p) ==
  /\ Closing(p)
  /\ GoTo(p, "exit")
  /\ UNCHANGED <<state, parent, chan, killed, plock, wait_lock, np>>

ExitLock(p) ==
  /\ pc[p] = "exit"
  /\ wait_lock = NoProc
  /\ wait_lock' = p
  /\ GoTo(p, "reparent")
  /\ UNCHANGED <<state, parent, chan, killed, plock, np>>

wakeupRunning(q) ==
  [state EXCEPT ![q] = IF @ = "SLEEPING" /\ chan[q] = q THEN "RUNNING" ELSE @]

(* The state of the processes after wakeup(q).                             *)
wakeup(q) ==
  [state EXCEPT ![q] = IF @ = "SLEEPING" /\ chan[q] = q THEN "RUNNABLE" ELSE @]

reparentLiving(p) ==
  [q \in Proc |-> IF parent[q] = p /\ state[q] # "ZOMBIE" THEN initproc ELSE parent[q]]

reparent(p) == [q \in Proc |-> IF parent[q] = p THEN initproc ELSE parent[q]]

ExitReparent(p) ==
  /\ pc[p] = "reparent"
  /\ parent' = reparent(p)
  /\ IF Children(p) = {} THEN UNCHANGED state
     ELSE CanLock(initproc) /\ state' = wakeup(initproc)
  /\ GoTo(p, "wakeup")
  /\ UNCHANGED <<chan, killed, plock, wait_lock, np>>

ExitWakeupSelf(p) ==
  /\ pc[p] = "wakeup"
  /\ CanLock(parent[p])
  /\ state' = wakeup(p)
  /\ GoTo(p, "zombie")
  /\ UNCHANGED <<parent, chan, killed, plock, wait_lock, np>>

ExitWakeup(p) ==
  /\ pc[p] = "wakeup"
  /\ CanLock(parent[p])
  /\ state' = wakeup(parent[p])
  /\ GoTo(p, "zombie")
  /\ UNCHANGED <<parent, chan, killed, plock, wait_lock, np>>

(* exit() releases wait_lock with p->lock held ...                         *)
ExitZombie(p) ==
  /\ pc[p] = "zombie"
  /\ state' = [state EXCEPT ![p] = "ZOMBIE"]
  /\ plock' = plock \cup {p}
  /\ wait_lock' = NoProc
  /\ GoTo(p, "swtch")
  /\ UNCHANGED <<parent, chan, killed, np>>

(* ... which the scheduler releases once it has left the process's stack.  *)
ExitSched(p) ==
  /\ pc[p] = "swtch"
  /\ plock' = plock \ {p}
  /\ GoTo(p, "none")
  /\ UNCHANGED <<state, parent, chan, killed, wait_lock, np>>

-----------------------------------------------------------------------------
(* The rest of the kernel.                                                 *)

(* sys_sleep(), for the sleeps outside wait() and exit(): a turn of its    *)
(* loop finds the process not killed and the time not over ...             *)
IoTest(p) ==
  /\ InUser(p)
  /\ p \in Sleepers
  /\ GoTo(p, "iosleep")
  /\ UNCHANGED <<state, parent, chan, killed, plock, wait_lock, np>>

(* ... and sleeps, without having held p->lock since that test.            *)
IoSleep(p) ==
  /\ pc[p] = "iosleep"
  /\ state' = [state EXCEPT ![p] = "SLEEPING"]
  /\ chan' = [chan EXCEPT ![p] = IoChan]
  /\ GoTo(p, "io")
  /\ UNCHANGED <<parent, killed, plock, wait_lock, np>>

(* clockintr() or the disk's interrupt wakes it.                           *)
IoWakeup(p) ==
  /\ state[p] = "SLEEPING" /\ chan[p] = IoChan
  /\ state' = [state EXCEPT ![p] = "RUNNABLE"]
  /\ UNCHANGED <<parent, chan, killed, plock, wait_lock, pc, np>>

(* sleep() returns to the top of the loop, from which a killed process or  *)
(* one whose time is over leaves for user space and another takes IoTest   *)
(* again: that is all a process at "user" can do, so the two are one.      *)
(* exit() just goes on.                                                    *)
IoReturn(p) ==
  /\ pc[p] \in {"io", "close"}
  /\ state[p] = "RUNNABLE" /\ chan[p] = IoChan
  /\ chan' = [chan EXCEPT ![p] = NoChan]
  /\ GoTo(p, IF pc[p] = "io" THEN "user" ELSE "close")
  /\ UNCHANGED <<state, parent, killed, plock, wait_lock, np>>

(* kill() reaches the slot with the pid it looks for; pid 0 is that of an  *)
(* UNUSED slot.                                                            *)
Kill(p, n) ==
  /\ InUser(p)
  /\ n \in KillTargets
  /\ CanLock(n)
  /\ killed' = [killed EXCEPT ![n] = TRUE]
  /\ state' = [state EXCEPT ![n] = IF @ = "SLEEPING" THEN "RUNNABLE" ELSE @]
  /\ UNCHANGED <<parent, chan, plock, wait_lock, pc, np>>

(* A fault in user space: setkilled().                                     *)
Fault(p) ==
  /\ InUser(p)
  /\ p # initproc
  /\ killed' = [killed EXCEPT ![p] = TRUE]
  /\ UNCHANGED <<state, parent, chan, plock, wait_lock, pc, np>>

KernelStep(p) ==
  \/ ForkParent(p) \/ ForkRunnable(p)
  \/ WaitLock(p) \/ WaitReap(p) \/ WaitReturn(p) \/ WaitSleep(p)
  \/ SleepLock(p) \/ SleepSched(p) \/ SleepReturn(p) \/ IoSleep(p) \/ IoReturn(p)
  \/ ExitClosed(p) \/ ExitLock(p) \/ ExitReparent(p) \/ ExitWakeup(p) \/ ExitZombie(p) \/ ExitSched(p)

UserStep(p) ==
  \/ \E n \in Proc : Allocproc(p, n) \/ ForkFails(p, n) \/ Kill(p, n)
  \/ WaitCall(p) \/ WaitBadAddr(p) \/ ExitCall(p)
  \/ ExitSleep(p) \/ IoTest(p) \/ IoWakeup(p) \/ Fault(p)

Next == \E p \in Proc : KernelStep(p) \/ UserStep(p)

Spec == Init /\ [][Next]_vars

(***************************************************************************)
(* Fairness.  The kernel's code makes progress, and whoever spins for a    *)
(* spinlock that is free again and again gets it; Mlfq's NoStarvation is   *)
(* what entitles a RUNNABLE process to steps.  A killed process that runs  *)
(* traps into the kernel sooner or later.  The clock ticks and the disk    *)
(* answers, and exit() has finitely many files to close.  Programs need    *)
(* not call wait() or exit().                                              *)
(***************************************************************************)
Fairness ==
  /\ \A p \in Proc : SF_vars(KernelStep(p)) /\ WF_vars(killed[p] /\ ExitCall(p))
  /\ \A p \in Sleepers : SF_vars(ExitClosed(p)) /\ WF_vars(IoWakeup(p))

FairSpec == Spec /\ Fairness

-----------------------------------------------------------------------------
(* Properties.                                                             *)

(* p is committed to sleeping in wait() and nothing has woken it.          *)
WaitsForChild(p) == pc[p] = "sleep" \/ (pc[p] = "asleep" /\ state[p] = "SLEEPING")

(***************************************************************************)
(* wait_lock "helps ensure that wakeups of wait()ing parents are not       *)
(* lost" (proc.c:29): no parent sleeps in wait() on a child that is        *)
(* already a ZOMBIE, its own or one that it was given by reparent().       *)
(***************************************************************************)
NoLostWakeup == \A p \in Proc : WaitsForChild(p) => Zombies(p) = {}

(* p is past reparent() in exit(), or has no thread.                       *)
Gone(p) == pc[p] \in {"none", "wakeup", "zombie", "swtch"}

(***************************************************************************)
(* Every process but init has a parent that can still wait() for it, from  *)
(* fork()'s section under wait_lock until it is freed.  exit() therefore   *)
(* never calls wakeup() for a parent that is gone, and no ZOMBIE is left   *)
(* that no wait() would find.                                              *)
(***************************************************************************)
LiveParent ==
  \A q \in Proc \ {initproc} : state[q] # "UNUSED" =>
    IF parent[q] = NoProc
    THEN \E p \in Proc : pc[p] = "parent" /\ np[p] = q
    ELSE ~Gone(parent[q])

(***************************************************************************)
(* wait() frees no process that is still on its kernel stack in exit(),    *)
(* although exit() lets go of wait_lock before it switches away.           *)
(***************************************************************************)
FreedOffStack == \A q \in Proc : state[q] \in {"UNUSED", "USED"} => pc[q] = "none"

(***************************************************************************)
(* The inductive form of the three.  It says who holds which lock, what    *)
(* p->state is at each point of the code, that a slot fork() is filling    *)
(* has one parent and no thread, that init stays, and, for NoLostWakeup,   *)
(* that a parent about to sleep has no ZOMBIE and that a child about to    *)
(* become one has woken its parent.                                        *)
(***************************************************************************)
LocksHeld ==
  \A p \in Proc : /\ wait_lock = p <=> pc[p] \in HoldsWaitLock
                  /\ p \in plock <=> pc[p] \in {"sleep", "swtch"}

StateAt ==
  \A p \in Proc :
    /\ pc[p] = "none" => state[p] \in {"UNUSED", "USED", "ZOMBIE"}
    /\ pc[p] = "swtch" => state[p] = "ZOMBIE"
    /\ pc[p] = "asleep" => state[p] \in {"SLEEPING", "RUNNABLE"} /\ chan[p] = p
    /\ pc[p] = "io" => state[p] \in {"SLEEPING", "RUNNABLE"} /\ chan[p] = IoChan
    /\ pc[p] = "close" =>
         state[p] = "RUNNABLE" \/ (state[p] = "SLEEPING" /\ chan[p] = IoChan)
    /\ pc[p] \notin {"none", "swtch", "asleep", "io", "close"} => state[p] = "RUNNABLE"

Forking ==
  /\ \A p \in Proc :
       /\ np[p] # NoProc <=> pc[p] \in {"parent", "runnable"}
       /\ np[p] # NoProc =>
            /\ state[np[p]] = "USED"
            /\ parent[np[p]] = IF pc[p] = "parent" THEN NoProc ELSE p
  /\ \A p, q \in Proc : np[p] = np[q] /\ np[p] # NoProc => p = q

Parents ==
  /\ \A q \in Proc : state[q] = "UNUSED" => parent[q] = NoProc
  /\ parent[initproc] = NoProc
  /\ pc[initproc] \notin {"none", "close", "exit", "reparent", "wakeup", "zombie", "swtch"}

WakeupSent ==
  \A p \in Proc :
    /\ pc[p] = "presleep" => Zombies(p) = {}
    /\ pc[p] = "zombie" /\ parent[p] # NoProc => ~WaitsForChild(parent[p])

LifeInv ==
  /\ LocksHeld /\ StateAt /\ Forking /\ Parents /\ WakeupSent
  /\ NoLostWakeup /\ LiveParent

(* wait() returns once it has a child to return: exit() and reparent()     *)
(* wake the parent and the scan finds the child, however the fork, wait,   *)
(* exit and kill of other processes are interleaved with them.             *)
WaitReturns ==
  \A p \in Proc :
    pc[p] \in {"wait", "scan", "presleep", "sleep", "asleep"} /\ Zombies(p) # {}
      ~> pc[p] = "user"

(* exit() gets wait_lock and the p->locks of those it wakes, and ends,     *)
(* once its files are closed: nobody keeps wait_lock or waits for it with  *)
(* a p->lock held.                                                         *)
ExitEnds == \A p \in Proc : pc[p] = "close" ~> state[p] = "ZOMBIE"

(***************************************************************************)
(* "Kill the process with the given pid" (proc.c:694): a process that      *)
(* kill() has marked comes to exit().                                      *)
(***************************************************************************)
KilledExits ==
  \A p \in Proc :
    killed[p] /\ state[p] \in {"RUNNABLE", "SLEEPING"} ~> state[p] \in {"ZOMBIE", "UNUSED"}

(***************************************************************************)
(* "Kill the process with the given pid" (proc.c:694), and no other: a     *)
(* process that fork() has just made, whose pid nobody knows, is not       *)
(* killed.                                                                 *)
(***************************************************************************)
BornAlive ==
  [][\A n \in Proc : state[n] = "UNUSED" /\ state'[n] = "USED" => ~killed'[n]]_vars
=============================================================================
