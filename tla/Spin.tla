-------------------------------- MODULE Spin --------------------------------
(***************************************************************************)
(* Spin locks and interrupts, kernel/spinlock.c: acquire(), release(),     *)
(* push_off() and pop_off() with their per-CPU counts, interrupts taken in *)
(* the kernel, and sched(), which carries a thread's intena from one CPU   *)
(* to another.  A context is a kernel thread or a CPU's scheduler; what    *)
(* it does under its locks is left out.                                    *)
(*                                                                         *)
(* An operator defined just before another of like name is a faulty form   *)
(* of it that no action uses (see Mlfq).                                   *)
(***************************************************************************)
EXTENDS Integers, FiniteSets

CONSTANTS
  Cpu, Thread,      \* CPUs, and kernel threads of processes
  DevLock,          \* a lock that interrupt handlers also take
  NoCpu, NoLock

ASSUME SpinAssumption ==
  /\ Cpu \cap Thread = {} /\ DevLock \notin Thread
  /\ NoCpu \notin Cpu /\ NoLock \notin Thread \cup {DevLock}

(* A thread stands for its p->lock, a CPU for its scheduler.               *)
SpinLock == Thread \cup {DevLock}
Context  == Thread \cup Cpu

VARIABLES
  cur,          \* the context that each CPU runs
  noff, intena, \* of each CPU
  sie,          \* whether interrupts are enabled on each CPU
  lockcpu,      \* lk->cpu while the lock is held
  held,         \* locks held by each context
  spinning,     \* the lock each context is spinning for
  trapped,      \* whether each context is in an interrupt handler
  saved         \* intena saved by sched()

spinVars == <<cur, noff, intena, sie, lockcpu, held, spinning, trapped, saved>>

(* The schedulers run, the threads are runnable inside a system call: each *)
(* gave up its CPU in sched(), called with interrupts enabled.             *)
SpinInit ==
  /\ cur = [c \in Cpu |-> c]
  /\ noff = [c \in Cpu |-> 0] /\ intena = [c \in Cpu |-> FALSE]
  /\ sie = [c \in Cpu |-> FALSE]
  /\ lockcpu = [l \in SpinLock |-> NoCpu]
  /\ held = [x \in Context |-> {}]
  /\ spinning = [x \in Context |-> NoLock]
  /\ trapped = [x \in Context |-> FALSE]
  /\ saved = [t \in Thread |-> TRUE]

Runs(c, x) == cur[c] = x /\ spinning[x] = NoLock

(* push_off() and, once the lock is free, the rest of acquire().  Locks    *)
(* nest as in sleep() and wakeup(): a p->lock under another lock.          *)
push_off(c, x, l) ==
  /\ Runs(c, x)
  /\ held[x] = {} \/ (held[x] = {DevLock} /\ l \in Thread)
  /\ sie' = [sie EXCEPT ![c] = FALSE]
  /\ intena' = [intena EXCEPT ![c] = IF noff[c] = 0 THEN sie[c] ELSE @]
  /\ noff' = [noff EXCEPT ![c] = @ + 1]
  /\ spinning' = [spinning EXCEPT ![x] = l]
  /\ UNCHANGED <<cur, lockcpu, held, trapped, saved>>

acquire(c, x) ==
  LET l == spinning[x] IN
  /\ cur[c] = x /\ l # NoLock
  /\ lockcpu[l] = NoCpu
  /\ lockcpu' = [lockcpu EXCEPT ![l] = c]
  /\ held' = [held EXCEPT ![x] = @ \cup {l}]
  /\ spinning' = [spinning EXCEPT ![x] = NoLock]
  /\ UNCHANGED <<cur, noff, intena, sie, trapped, saved>>

Enables(c) == noff[c] = 1 /\ intena[c]

(* release() and its pop_off(); sleep() releases the outer lock first.     *)
release(c, x, l) ==
  /\ Runs(c, x) /\ l \in held[x]
  /\ lockcpu' = [lockcpu EXCEPT ![l] = NoCpu]
  /\ held' = [held EXCEPT ![x] = @ \ {l}]
  /\ noff' = [noff EXCEPT ![c] = @ - 1]
  /\ sie' = [sie EXCEPT ![c] = @ \/ Enables(c)]
  /\ UNCHANGED <<cur, intena, spinning, trapped, saved>>

(* An interrupt in the kernel, and the return of kerneltrap(), possibly on *)
(* another CPU.                                                            *)
Interrupt(c, x) ==
  /\ cur[c] = x /\ sie[c]
  /\ sie' = [sie EXCEPT ![c] = FALSE]
  /\ trapped' = [trapped EXCEPT ![x] = TRUE]
  /\ UNCHANGED <<cur, noff, intena, lockcpu, held, spinning, saved>>

kerneltrapReturns(c, x) ==
  /\ Runs(c, x) /\ trapped[x] /\ held[x] = {}
  /\ sie' = [sie EXCEPT ![c] = TRUE]
  /\ trapped' = [trapped EXCEPT ![x] = FALSE]
  /\ UNCHANGED <<cur, noff, intena, lockcpu, held, spinning, saved>>

(* scheduler() turns interrupts on at the top of its loop.                 *)
intr_on(c) ==
  /\ Runs(c, c) /\ held[c] = {} /\ ~trapped[c]
  /\ sie' = [sie EXCEPT ![c] = TRUE]
  /\ UNCHANGED <<cur, noff, intena, lockcpu, held, spinning, trapped, saved>>

(* sched() in a thread that holds only its p->lock, which the scheduler    *)
(* then holds.                                                             *)
sched(c, t) ==
  /\ Runs(c, t) /\ held[t] = {t}
  /\ cur' = [cur EXCEPT ![c] = c]
  /\ held' = [held EXCEPT ![t] = {}, ![c] = {t}]
  /\ saved' = [saved EXCEPT ![t] = intena[c]]
  /\ UNCHANGED <<noff, intena, sie, lockcpu, spinning, trapped>>

IntenaKept(c, t) == intena[c]
IntenaRestored(c, t) == saved[t]

(* The scheduler holds the p->lock of a thread that is not running and     *)
(* dispatches it: the thread's sched() restores intena and its caller      *)
(* releases p->lock.                                                       *)
schedReturns(c, t) ==
  /\ Runs(c, c) /\ held[c] = {t} /\ ~trapped[c]
  /\ \A d \in Cpu : cur[d] # t
  /\ cur' = [cur EXCEPT ![c] = t]
  /\ held' = [held EXCEPT ![c] = {}]
  /\ lockcpu' = [lockcpu EXCEPT ![t] = NoCpu]
  /\ noff' = [noff EXCEPT ![c] = @ - 1]
  /\ intena' = [intena EXCEPT ![c] = IntenaRestored(c, t)]
  /\ sie' = [sie EXCEPT ![c] = IntenaRestored(c, t)]
  /\ UNCHANGED <<spinning, trapped, saved>>

SpinNext ==
  \E c \in Cpu :
    \/ \E x \in Context :
         \/ \E l \in SpinLock : push_off(c, x, l) \/ release(c, x, l)
         \/ acquire(c, x) \/ Interrupt(c, x) \/ kerneltrapReturns(c, x)
    \/ intr_on(c)
    \/ \E t \in Thread : sched(c, t) \/ schedReturns(c, t)

SpinSpec == SpinInit /\ [][SpinNext]_spinVars

-----------------------------------------------------------------------------
(* spinlock.c:24, "disable interrupts to avoid deadlock": no CPU takes an  *)
(* interrupt while it holds or waits for a lock, none waits for a lock of  *)
(* its own (line 26), noff counts its locks, and a thread has interrupts   *)
(* enabled again once it holds none (line 84), although it may have lost   *)
(* the CPU to one that had them off and continued on another (proc.c:585). *)
InterruptsMatchLocks ==
  \A c \in Cpu :
    LET x == cur[c] IN
    /\ (\E l \in SpinLock : lockcpu[l] = c) \/ spinning[x] # NoLock => ~sie[c]
    /\ spinning[x] # NoLock => lockcpu[spinning[x]] # c
    /\ noff[c] = Cardinality(held[x]) + (IF spinning[x] # NoLock THEN 1 ELSE 0)
    /\ x \in Thread /\ noff[c] = 0 => (sie[c] <=> ~trapped[x])
=============================================================================
