-------------------------------- MODULE Mlfq --------------------------------
(***************************************************************************)
(* The MLFQ scheduler of kernel/proc.c and the timer path of kernel/trap.c *)
(* at the grain of its spinlocks.  A critical section under one p->lock is *)
(* one step; p->lock is a variable because scheduler(), yield(), sleep()   *)
(* and exit() keep it across swtch().  Each CPU runs the scheduler loop,   *)
(* the process it dispatched, and the interrupts it takes.                 *)
(*                                                                         *)
(* An operator defined just before another of like name, such as           *)
(* BoostDueLate before BoostDue, is a faulty form of it that no action     *)
(* uses: a property is shown to mean something by failing for the fault.   *)
(*                                                                         *)
(* Not kept here: the parent relation and wait_lock (module ProcLife), the *)
(* caller's lock of sleep(), and the statistics only getpstat() reads.     *)
(***************************************************************************)
EXTENDS Integers, FiniteSets

CONSTANTS
  NPROC,           \* slots of the process table, proc[0] being slot 1
  NCPU,            \* harts; hart 0 runs clockintr()
  NMLFQ,           \* queues, 0 the highest
  MLFQ_TICKS,      \* quantum of each queue, in ticks
  BOOST_INTERVAL,  \* process ticks between priority boosts
  TickMod,         \* modulus of the unsigned counter ticks (2^32)
  Chan,            \* wait channels other than &ticks
  KillTargets,     \* slots that kill() is called for
  PrioTargets,     \* slots that setpriority() is called for
  DevCpus          \* harts that device interrupts are delivered to

Proc    == 1 .. NPROC
Cpu     == 0 .. NCPU - 1
Level   == 0 .. NMLFQ - 1
NoProc  == 0
NoCpu   == -1
NoChan  == "none"
TicksChan == "ticks"
AnyChan == Chan \cup {TicksChan}
initproc == 1

ASSUME SizeAssumption ==
  /\ NPROC \in Nat \ {0} /\ NCPU \in Nat \ {0} /\ NMLFQ \in Nat \ {0}
  /\ BOOST_INTERVAL \in Nat \ {0} /\ TickMod \in Nat \ {0}
ASSUME QuantumAssumption == MLFQ_TICKS \in [Level -> Nat \ {0}]
ASSUME InputAssumption ==
  /\ KillTargets \subseteq Proc \ {initproc}
  /\ PrioTargets \subseteq Proc
  /\ DevCpus \subseteq Cpu
ASSUME ChanAssumption == NoChan \notin AnyChan

ProcState == {"UNUSED", "USED", "SLEEPING", "RUNNABLE", "RUNNING", "ZOMBIE"}

(***************************************************************************)
(* Where a CPU is: the scheduler's loop; a process just switched to, still *)
(* holding its lock; a process running with interrupts on; the timer trap, *)
(* with interrupts off; a process that has given up the CPU, before the    *)
(* scheduler releases its lock; the loop of wakeup(), interrupts off.      *)
(***************************************************************************)
SchedulerPc == {"check", "boost", "boostp", "scan"}
TrapPc      == {"tick", "mtick", "yield"}
Pc          == SchedulerPc \cup TrapPc \cup {"resume", "run", "swtch", "wake"}
ReturnPc    == SchedulerPc \cup {"run", "tick"}

VARIABLES
  state, priority, ticks_used, chan, killed,  \* fields of struct proc
  np,              \* fork()'s local np on each process's kernel stack
  plock,           \* p->lock.cpu
  pc, proc,        \* each CPU's position, and c->proc
  level, slot,     \* loop variables of scheduler() and priority_boost()
  wchan, wslot, ret,  \* argument, loop variable and return of wakeup()
  mlfq_ticks, ticks, last_boost_tick

procVars  == <<state, priority, ticks_used, chan, killed, np>>
loopVars  == <<level, slot>>
wakeVars  == <<wchan, wslot, ret>>
clockVars == <<mlfq_ticks, ticks, last_boost_tick>>
vars == <<procVars, plock, pc, proc, loopVars, wakeVars, clockVars>>

TypeOK ==
  /\ state \in [Proc -> ProcState]
  /\ priority \in [Proc -> Level]
  /\ ticks_used \in [Proc -> Nat]
  /\ chan \in [Proc -> AnyChan \cup {NoChan}]
  /\ killed \in [Proc -> BOOLEAN]
  /\ np \in [Proc -> Proc \cup {NoProc}]
  /\ plock \in [Proc -> Cpu \cup {NoCpu}]
  /\ pc \in [Cpu -> Pc]
  /\ proc \in [Cpu -> Proc \cup {NoProc}]
  /\ level \in [Cpu -> Level]
  /\ slot \in [Cpu -> Proc]
  /\ wchan \in [Cpu -> AnyChan \cup {NoChan}]
  /\ wslot \in [Cpu -> Proc]
  /\ ret \in [Cpu -> ReturnPc]
  /\ mlfq_ticks \in Nat
  /\ ticks \in 0 .. TickMod - 1
  /\ last_boost_tick \in 0 .. TickMod - 1

-----------------------------------------------------------------------------
(* main() leaves one process, made by userinit(), and every hart entering  *)
(* scheduler().                                                            *)
Init ==
  /\ state = [p \in Proc |-> IF p = initproc THEN "RUNNABLE" ELSE "UNUSED"]
  /\ priority = [p \in Proc |-> 0]
  /\ ticks_used = [p \in Proc |-> 0]
  /\ chan = [p \in Proc |-> NoChan]
  /\ killed = [p \in Proc |-> FALSE]
  /\ np = [p \in Proc |-> NoProc]
  /\ plock = [p \in Proc |-> NoCpu]
  /\ pc = [c \in Cpu |-> "check"]
  /\ proc = [c \in Cpu |-> NoProc]
  /\ level = [c \in Cpu |-> 0]
  /\ slot = [c \in Cpu |-> 1]
  /\ wchan = [c \in Cpu |-> NoChan]
  /\ wslot = [c \in Cpu |-> 1]
  /\ ret = [c \in Cpu |-> "run"]
  /\ mlfq_ticks = 0
  /\ ticks = 0
  /\ last_boost_tick = 0

get_time_slice(q) == MLFQ_TICKS[q]

Free(p) == plock[p] = NoCpu

GoTo(c, to) == pc' = [pc EXCEPT ![c] = to]

(* The process of CPU c takes its own lock, leaves RUNNING and, in         *)
(* sched(), switches to the scheduler with the lock held.                  *)
schedUnlocked(c, s) ==
  /\ Free(proc[c])
  /\ state' = [state EXCEPT ![proc[c]] = s]
  /\ GoTo(c, "swtch") /\ UNCHANGED plock

sched(c, s) ==
  /\ Free(proc[c])
  /\ state' = [state EXCEPT ![proc[c]] = s]
  /\ plock' = [plock EXCEPT ![proc[c]] = c]
  /\ GoTo(c, "swtch")

(* clockintr() holds tickslock while its wakeup(&ticks) loops.             *)
TicksLocked == \E c \in Cpu : pc[c] = "wake" /\ wchan[c] = TicksChan

(* A process running with interrupts on, outside fork().                   *)
InSyscall(c) == pc[c] = "run" /\ np[proc[c]] = NoProc

-----------------------------------------------------------------------------
(* The scheduler.                                                          *)

BoostDueLate == mlfq_ticks > BOOST_INTERVAL
BoostDue == mlfq_ticks >= BOOST_INTERVAL

(* The test of mlfq_ticks under mlfq_lock at the top of the loop.          *)
CheckBoost(c) ==
  /\ pc[c] = "check"
  /\ \/ /\ BoostDue
        /\ mlfq_ticks' = 0
        /\ GoTo(c, "boost")
     \/ /\ ~BoostDue
        /\ GoTo(c, "scan")
        /\ UNCHANGED mlfq_ticks
  /\ UNCHANGED <<procVars, plock, proc, loopVars, wakeVars, ticks, last_boost_tick>>

(* priority_boost() notes the time under tickslock ...                     *)
BoostMark(c) ==
  /\ pc[c] = "boost"
  /\ ~TicksLocked
  /\ last_boost_tick' = ticks
  /\ GoTo(c, "boostp")
  /\ UNCHANGED <<procVars, plock, proc, loopVars, wakeVars, mlfq_ticks, ticks>>

BoostedButLast(p) == state[p] # "UNUSED" /\ p < NPROC
Boosted(p) == state[p] # "UNUSED"

(* ... and moves each process, under its lock, to queue 0.                 *)
BoostProc(c) ==
  LET p == slot[c] IN
  /\ pc[c] = "boostp"
  /\ Free(p)
  /\ IF Boosted(p)
     THEN /\ priority' = [priority EXCEPT ![p] = 0]
          /\ ticks_used' = [ticks_used EXCEPT ![p] = 0]
     ELSE UNCHANGED <<priority, ticks_used>>
  /\ slot' = [slot EXCEPT ![c] = IF p < NPROC THEN p + 1 ELSE 1]
  /\ GoTo(c, IF p < NPROC THEN "boostp" ELSE "scan")
  /\ UNCHANGED <<state, chan, killed, np, plock, proc, level, wakeVars, clockVars>>

SelectableInAnyQueue(c, p) == state[p] = "RUNNABLE"
Selectable(c, p) == state[p] = "RUNNABLE" /\ priority[p] = level[c]

(* The scan reaches a RUNNABLE process of the level it looks for: it keeps *)
(* the process's lock, marks it RUNNING and switches to it.                *)
Dispatch(c) ==
  LET p == slot[c] IN
  /\ pc[c] = "scan"
  /\ Free(p)
  /\ Selectable(c, p)
  /\ plock' = [plock EXCEPT ![p] = c]
  /\ state' = [state EXCEPT ![p] = "RUNNING"]
  /\ proc' = [proc EXCEPT ![c] = p]
  /\ level' = [level EXCEPT ![c] = 0]
  /\ slot' = [slot EXCEPT ![c] = 1]
  /\ GoTo(c, "resume")
  /\ UNCHANGED <<priority, ticks_used, chan, killed, np, wakeVars, clockVars>>

(* Any other slot is passed over; after the last slot comes the next level *)
(* and after the last level the top of the loop.                           *)
PassOver(c) ==
  LET p == slot[c] IN
  /\ pc[c] = "scan"
  /\ Free(p)
  /\ ~Selectable(c, p)
  /\ slot' = [slot EXCEPT ![c] = IF p < NPROC THEN p + 1 ELSE 1]
  /\ level' = [level EXCEPT ![c] = IF p < NPROC THEN @
                                   ELSE IF @ < NMLFQ - 1 THEN @ + 1 ELSE 0]
  /\ GoTo(c, IF p = NPROC /\ level[c] = NMLFQ - 1 THEN "check" ELSE "scan")
  /\ UNCHANGED <<procVars, plock, proc, wakeVars, clockVars>>

(* The process returns from swtch() in yield(), sleep() or forkret().      *)
Resume(c) ==
  /\ pc[c] = "resume"
  /\ chan' = [chan EXCEPT ![proc[c]] = NoChan]
  /\ plock' = [plock EXCEPT ![proc[c]] = NoCpu]
  /\ GoTo(c, "run")
  /\ UNCHANGED <<state, priority, ticks_used, killed, np, proc, loopVars, wakeVars, clockVars>>

(* swtch() back: scheduler() clears c->proc and releases the lock.         *)
SwitchBack(c) ==
  /\ pc[c] = "swtch"
  /\ proc' = [proc EXCEPT ![c] = NoProc]
  /\ plock' = [plock EXCEPT ![proc[c]] = NoCpu]
  /\ GoTo(c, "check")
  /\ UNCHANGED <<procVars, loopVars, wakeVars, clockVars>>

-----------------------------------------------------------------------------
(* Interrupts.                                                             *)

Interruptible(c) == pc[c] \in SchedulerPc \cup {"run"}

StartWakeup(c, ch, to) ==
  /\ wchan' = [wchan EXCEPT ![c] = ch]
  /\ ret' = [ret EXCEPT ![c] = to]
  /\ GoTo(c, "wake")
  /\ UNCHANGED wslot

(* The timer interrupt on hart 0: clockintr() counts the tick and wakes    *)
(* sleepers on &ticks; then, in a process, the tick is charged to it.      *)
ClockIntr ==
  /\ Interruptible(0)
  /\ ticks' = (ticks + 1) % TickMod
  /\ StartWakeup(0, TicksChan, IF pc[0] = "run" THEN "tick" ELSE pc[0])
  /\ UNCHANGED <<procVars, plock, proc, loopVars, mlfq_ticks, last_boost_tick>>

(* The timer interrupt on another hart; it does nothing in the scheduler.  *)
TimerIntr(c) ==
  /\ c # 0
  /\ pc[c] = "run"
  /\ GoTo(c, "tick")
  /\ UNCHANGED <<procVars, plock, proc, loopVars, wakeVars, clockVars>>

(* A device interrupt whose handler calls wakeup().                        *)
DevIntr(c, ch) ==
  /\ c \in DevCpus
  /\ Interruptible(c)
  /\ StartWakeup(c, ch, pc[c])
  /\ UNCHANGED <<procVars, plock, proc, loopVars, clockVars>>

(* usertrap() finds the process killed: it exits, and is not charged.      *)
KilledInTrap(c) ==
  /\ pc[c] = "tick"
  /\ killed[proc[c]] /\ np[proc[c]] = NoProc
  /\ GoTo(c, "run")
  /\ UNCHANGED <<procVars, plock, proc, loopVars, wakeVars, clockVars>>

(* mlfq_check_timer(): the process's counter under p->lock ...             *)
CheckTimer(c) ==
  LET p == proc[c] IN
  /\ pc[c] = "tick"
  /\ Free(p)
  /\ ticks_used' = [ticks_used EXCEPT ![p] = @ + 1]
  /\ GoTo(c, "mtick")
  /\ UNCHANGED <<state, priority, chan, killed, np, plock, proc, loopVars, wakeVars, clockVars>>

(* ... and the boost counter under mlfq_lock.                              *)
CountTick(c) ==
  /\ pc[c] = "mtick"
  /\ mlfq_ticks' = mlfq_ticks + 1
  /\ GoTo(c, "yield")
  /\ UNCHANGED <<procVars, plock, proc, loopVars, wakeVars, ticks, last_boost_tick>>

ExpiredLate(p) == ticks_used[p] > get_time_slice(priority[p])
Expired(p) == ticks_used[p] >= get_time_slice(priority[p])

DemotedNoFloor(q) == q + 1
Demoted(q) == IF q < NMLFQ - 1 THEN q + 1 ELSE q

(* yield(): a process that has used its quantum moves one queue down.      *)
Yield(c) ==
  LET p == proc[c] IN
  /\ pc[c] = "yield"
  /\ sched(c, "RUNNABLE")
  /\ IF Expired(p)
     THEN /\ priority' = [priority EXCEPT ![p] = Demoted(@)]
          /\ ticks_used' = [ticks_used EXCEPT ![p] = 0]
     ELSE UNCHANGED <<priority, ticks_used>>
  /\ UNCHANGED <<chan, killed, np, proc, loopVars, wakeVars, clockVars>>

(* One turn of wakeup()'s loop, which skips myproc().                      *)
WakeupSlot(c) ==
  LET p == wslot[c] IN
  /\ pc[c] = "wake"
  /\ p # proc[c] => Free(p)
  /\ state' = IF p # proc[c] /\ state[p] = "SLEEPING" /\ chan[p] = wchan[c]
              THEN [state EXCEPT ![p] = "RUNNABLE"] ELSE state
  /\ IF p < NPROC
     THEN /\ wslot' = [wslot EXCEPT ![c] = p + 1]
          /\ UNCHANGED <<pc, wchan, ret>>
     ELSE /\ wslot' = [wslot EXCEPT ![c] = 1]
          /\ GoTo(c, ret[c])
          /\ wchan' = [wchan EXCEPT ![c] = NoChan]
          /\ ret' = [ret EXCEPT ![c] = "run"]
  /\ UNCHANGED <<priority, ticks_used, chan, killed, np, plock, proc, loopVars, clockVars>>

-----------------------------------------------------------------------------
(* What a running process does in the kernel.                              *)

(* sleep(): gives up the CPU with a fresh quantum at the same priority.    *)
Sleep(c, ch) ==
  LET p == proc[c] IN
  /\ InSyscall(c)
  /\ ch = TicksChan => ~TicksLocked
  /\ sched(c, "SLEEPING")
  /\ ticks_used' = [ticks_used EXCEPT ![p] = 0]
  /\ chan' = [chan EXCEPT ![p] = ch]
  /\ UNCHANGED <<priority, killed, np, proc, loopVars, wakeVars, clockVars>>

(* A system call that calls wakeup(), its caller's spinlock held.          *)
Wakeup(c, ch) ==
  /\ InSyscall(c)
  /\ StartWakeup(c, ch, "run")
  /\ UNCHANGED <<procVars, plock, proc, loopVars, clockVars>>

(* The end of exit(); init never exits.                                    *)
Exit(c) ==
  /\ InSyscall(c)
  /\ proc[c] # initproc
  /\ sched(c, "ZOMBIE")
  /\ UNCHANGED <<priority, ticks_used, chan, killed, np, proc, loopVars, wakeVars, clockVars>>

(* fork(): allocproc() takes a slot, at the highest priority; chan and     *)
(* killed are what the slot was left with.                                 *)
Allocproc(c, n) ==
  /\ InSyscall(c)
  /\ Free(n)
  /\ state[n] = "UNUSED"
  /\ state' = [state EXCEPT ![n] = "USED"]
  /\ priority' = [priority EXCEPT ![n] = 0]
  /\ ticks_used' = [ticks_used EXCEPT ![n] = 0]
  /\ np' = [np EXCEPT ![proc[c]] = n]
  /\ UNCHANGED <<chan, killed, plock, pc, proc, loopVars, wakeVars, clockVars>>

(* The last critical section of fork().                                    *)
ForkRunnable(c) ==
  LET p == proc[c] IN
  /\ pc[c] = "run"
  /\ np[p] # NoProc
  /\ Free(np[p])
  /\ state' = [state EXCEPT ![np[p]] = "RUNNABLE"]
  /\ np' = [np EXCEPT ![p] = NoProc]
  /\ UNCHANGED <<priority, ticks_used, chan, killed, plock, pc, proc, loopVars, wakeVars, clockVars>>

(* freeproc(): of a zombie, by wait(); or of the slot just taken, when an  *)
(* allocation of fork() fails before p->lock is released.                  *)
Freeproc(c, n) ==
  /\ InSyscall(c)
  /\ Free(n)
  /\ state[n] \in {"ZOMBIE", "UNUSED"}
  /\ state' = [state EXCEPT ![n] = "UNUSED"]
  /\ priority' = [priority EXCEPT ![n] = 0]
  /\ ticks_used' = [ticks_used EXCEPT ![n] = 0]
  /\ chan' = [chan EXCEPT ![n] = NoChan]
  /\ killed' = [killed EXCEPT ![n] = FALSE]
  /\ UNCHANGED <<np, plock, pc, proc, loopVars, wakeVars, clockVars>>

KilledStateAny(s) == "RUNNABLE"
KilledState(s) == IF s = "SLEEPING" THEN "RUNNABLE" ELSE s

(* kill() reaches the slot with the pid it looks for; pid 0 is that of an  *)
(* UNUSED slot.                                                            *)
Kill(c, n) ==
  /\ InSyscall(c)
  /\ n \in KillTargets
  /\ Free(n)
  /\ killed' = [killed EXCEPT ![n] = TRUE]
  /\ state' = [state EXCEPT ![n] = KilledState(@)]
  /\ UNCHANGED <<priority, ticks_used, chan, np, plock, pc, proc, loopVars, wakeVars, clockVars>>

(* setprocpriority() reaches the slot with the pid it looks for.           *)
SetPriority(c, n, q) ==
  /\ InSyscall(c)
  /\ n \in PrioTargets
  /\ Free(n)
  /\ state[n] # "UNUSED"
  /\ priority' = [priority EXCEPT ![n] = q]
  /\ ticks_used' = [ticks_used EXCEPT ![n] = 0]
  /\ UNCHANGED <<state, chan, killed, np, plock, pc, proc, loopVars, wakeVars, clockVars>>

SchedulerStep(c) ==
  CheckBoost(c) \/ BoostMark(c) \/ BoostProc(c) \/ Dispatch(c) \/ PassOver(c)
    \/ Resume(c) \/ SwitchBack(c)

TrapStep(c) ==
  KilledInTrap(c) \/ CheckTimer(c) \/ CountTick(c) \/ Yield(c) \/ WakeupSlot(c)

Interrupt(c) == TimerIntr(c) \/ \E ch \in Chan : DevIntr(c, ch)

Syscall(c) ==
  \/ \E ch \in AnyChan : Sleep(c, ch)
  \/ \E ch \in Chan : Wakeup(c, ch)
  \/ Exit(c)
  \/ \E n \in Proc : Allocproc(c, n) \/ Freeproc(c, n) \/ Kill(c, n)
  \/ ForkRunnable(c)
  \/ \E n \in Proc, q \in Level : SetPriority(c, n, q)

Next ==
  \/ ClockIntr
  \/ \E c \in Cpu : SchedulerStep(c) \/ TrapStep(c) \/ Interrupt(c) \/ Syscall(c)

Spec == Init /\ [][Next]_vars

(***************************************************************************)
(* Fairness of a scheduling run.  Code with interrupts off makes progress; *)
(* code with interrupts on makes progress between interrupts, which the    *)
(* timer of start.c spaces a million cycles apart.  Timer interrupts keep  *)
(* coming, and a process dispatched again and again is now and then the    *)
(* one running when one comes: less than a periodic timer gives to any     *)
(* process that does not time its sleeps against the tick.  usertrap()     *)
(* sends a killed process to exit().                                       *)
(***************************************************************************)
TimerStrikes(c, p) ==
  proc[c] = p /\ pc[c] = "run" /\ (IF c = 0 THEN ClockIntr ELSE TimerIntr(c))

KilledLeaves(c, p) == proc[c] = p /\ killed[p] /\ Exit(c)

Fairness ==
  /\ \A c \in Cpu : SF_vars(SchedulerStep(c)) /\ WF_vars(TrapStep(c))
  /\ \A p \in Proc : SF_vars(\E c \in Cpu : TimerStrikes(c, p))
  /\ \A p \in KillTargets : SF_vars(\E c \in Cpu : KilledLeaves(c, p))

FairSpec == Spec /\ Fairness

-----------------------------------------------------------------------------
(* Properties.                                                             *)

(***************************************************************************)
(* A kernel stack belongs to one CPU.  No two CPUs have the same c->proc,  *)
(* and a process whose lock is free and whose state is not RUNNING is on   *)
(* no CPU: whoever takes p->lock and reads RUNNABLE, ZOMBIE or UNUSED may  *)
(* switch to the process or free it.  This is what holding p->lock across  *)
(* swtch() in scheduler(), yield(), sleep() and exit() is for.             *)
(***************************************************************************)
StackOwnership ==
  /\ \A c, d \in Cpu : proc[c] = proc[d] /\ proc[c] # NoProc => c = d
  /\ \A p \in Proc : Free(p) /\ state[p] # "RUNNING" => \A c \in Cpu : proc[c] # p

(***************************************************************************)
(* The inductive form of StackOwnership.  c->proc is set exactly while the *)
(* CPU runs on a process's stack, and that process is RUNNING until it     *)
(* gives up the CPU; p->lock is held, by the CPU of p, exactly across      *)
(* swtch(); and a slot fork() still fills is USED and has one parent.      *)
(***************************************************************************)
OnStack(c) ==
  \/ pc[c] \in TrapPc \cup {"resume", "run", "swtch"}
  \/ pc[c] = "wake" /\ ret[c] \in {"run", "tick"}

StackInv ==
  /\ \A c \in Cpu : proc[c] # NoProc <=> OnStack(c)
  /\ \A c \in Cpu : OnStack(c) /\ pc[c] # "swtch" => state[proc[c]] = "RUNNING"
  /\ \A c \in Cpu : pc[c] \in {"resume", "swtch"} => plock[proc[c]] = c
  /\ \A p \in Proc : plock[p] # NoCpu =>
       pc[plock[p]] \in {"resume", "swtch"} /\ proc[plock[p]] = p
  /\ \A c, d \in Cpu : proc[c] = proc[d] /\ proc[c] # NoProc => c = d
  /\ \A p \in Proc : np[p] # NoProc => state[np[p]] = "USED"
  /\ \A p, q \in Proc : np[p] = np[q] /\ np[p] # NoProc => p = q

(* The CPU that runs p is between mlfq_check_timer() and yield().          *)
BetweenTickAndYield(p) == \E c \in Cpu : proc[c] = p /\ pc[c] \in {"mtick", "yield"}

(***************************************************************************)
(* No process has used more ticks than the quantum of the queue it is in,  *)
(* and only one that is about to yield has used the whole of it, whatever  *)
(* boosts and setpriority() calls other CPUs make meanwhile.  This rests   *)
(* on every change of priority resetting ticks_used, and on no CPU taking  *)
(* a second tick before yield().                                           *)
(***************************************************************************)
QuantumBound ==
  \A p \in Proc :
    \/ ticks_used[p] < get_time_slice(priority[p])
    \/ ticks_used[p] = get_time_slice(priority[p]) /\ BetweenTickAndYield(p)

(* CPUs that may have counted a tick and not yet reached the boost check.  *)
Unchecked ==
  {c \in Cpu : \/ pc[c] \in {"yield", "swtch", "check"}
               \/ pc[c] = "wake" /\ ret[c] = "check"}

(***************************************************************************)
(* A boost is never late by more than the CPUs that have yet to look:      *)
(* every tick counted sends its CPU through yield() to the test at the top *)
(* of scheduler(), so mlfq_ticks passes BOOST_INTERVAL - 1 only by the     *)
(* number of CPUs on their way there.                                      *)
(***************************************************************************)
BoostNotMissed == mlfq_ticks <= BOOST_INTERVAL - 1 + Cardinality(Unchecked)

(* Every RUNNABLE process comes to run.                                    *)
EveryoneRuns == \A p \in Proc : state[p] = "RUNNABLE" ~> state[p] = "RUNNING"

(* From some time on no process calls setpriority() or kill().             *)
CallsCease ==
  <>[][\A c \in Cpu, n \in Proc : ~Kill(c, n) /\ \A q \in Level : ~SetPriority(c, n, q)]_vars

(***************************************************************************)
(* Rule 5, as far as it holds: in a system whose processes stop calling    *)
(* setpriority() and kill(), no RUNNABLE process waits for ever, whatever  *)
(* queues the calls have left everyone in.  scheduler() scans from         *)
(* proc[0], so within a queue the lowest slot always wins; that every      *)
(* process runs all the same is owed to demotion in yield() emptying the   *)
(* higher queues between two calls of priority_boost().  A killed process  *)
(* leaves usertrap() before its tick is counted, so endless kills could    *)
(* keep the boost away.                                                    *)
(***************************************************************************)
NoStarvation == CallsCease => EveryoneRuns

(***************************************************************************)
(* Rule 5 as it is written: priority_boost() is "Called periodically to    *)
(* prevent starvation" (proc.c:482; README.md:133 says the same), with no  *)
(* word of setprocpriority(), which undoes demotion and boost at any time. *)
(***************************************************************************)
BoostPreventsStarvation == EveryoneRuns
=============================================================================
