----------------------------- MODULE MlfqProofs -----------------------------
(***************************************************************************)
(* Proofs about Mlfq for every number of slots, CPUs and queues, every     *)
(* quantum and every boost interval.                                       *)
(***************************************************************************)
EXTENDS MlfqOrder, FiniteSetTheorems, TLAPS

(* How long, in seconds, each prover may take over a step.                 *)
USE SMTT(30), ZenonT(30)

(* The loops of scheduler(), priority_boost() and wakeup() stay inside the *)
(* process table and the queues.                                           *)
LEMMA LoopBounds ==
  /\ 1 \in Proc /\ 0 \in Level /\ 0 \in Cpu
  /\ NoProc \notin Proc /\ NoCpu \notin Cpu
  /\ \A p \in Proc : /\ (IF p < NPROC THEN p + 1 ELSE 1) \in Proc
                     /\ p < NPROC => p + 1 \in Proc
  /\ \A q \in Level : /\ (IF q < NMLFQ - 1 THEN q + 1 ELSE 0) \in Level
                      /\ q < NMLFQ - 1 => q + 1 \in Level
  BY SizeAssumption DEF Proc, Level, Cpu, NoProc, NoCpu

(* main() leaves every variable in its type.                               *)
LEMMA TypeInit == Init => TypeOK
  BY SizeAssumption, LoopBounds
  DEF Init, TypeOK, ProcState, Pc, SchedulerPc, TrapPc, ReturnPc

(* Every step of the scheduler, a trap or a system call keeps every        *)
(* variable in its type.                                                   *)
LEMMA TypeStep == TypeOK /\ [Next]_vars => TypeOK'
<1> SUFFICES ASSUME TypeOK, [Next]_vars PROVE TypeOK'
  OBVIOUS
<1> USE LoopBounds DEF TypeOK, GoTo, Pc, SchedulerPc, TrapPc, ReturnPc
<1> USE DEF procVars, loopVars, wakeVars, clockVars
<1>1. CASE ClockIntr
  <2>1. (ticks + 1) % TickMod \in 0 .. TickMod - 1
    BY SizeAssumption
  <2> QED
    BY <1>1, <2>1 DEF ClockIntr, StartWakeup, Interruptible, AnyChan
<1>2. ASSUME NEW c \in Cpu, SchedulerStep(c) PROVE TypeOK'
  <2>1. CASE CheckBoost(c)
    BY <2>1 DEF CheckBoost
  <2>2. CASE BoostMark(c)
    BY <2>2 DEF BoostMark
  <2>3. CASE BoostProc(c)
    BY <2>3 DEF BoostProc
  <2>4. CASE Dispatch(c)
    BY <2>4 DEF Dispatch, ProcState
  <2>5. CASE PassOver(c)
    BY <2>5 DEF PassOver
  <2>6. CASE Resume(c)
    BY <2>6, Zenon DEF Resume
  <2>7. CASE SwitchBack(c)
    BY <2>7, ZenonT(30) DEF SwitchBack
  <2> QED
    BY <1>2, <2>1, <2>2, <2>3, <2>4, <2>5, <2>6, <2>7 DEF SchedulerStep
<1>3. ASSUME NEW c \in Cpu, TrapStep(c) PROVE TypeOK'
  <2>1. CASE KilledInTrap(c)
    BY <2>1 DEF KilledInTrap
  <2>2. CASE CheckTimer(c)
    <3>1. \A p \in Proc : ticks_used[p] + 1 \in Nat
      OBVIOUS
    <3>2. ticks_used' \in [Proc -> Nat]
      BY <2>2, <3>1, Zenon DEF CheckTimer
    <3> QED
      BY <2>2, <3>2 DEF CheckTimer
  <2>3. CASE CountTick(c)
    BY <2>3 DEF CountTick
  <2>4. CASE Yield(c)
    <3>1. \A q \in Level : Demoted(q) \in Level
      BY DEF Demoted
    <3>2. priority' \in [Proc -> Level] /\ ticks_used' \in [Proc -> Nat]
      BY <2>4, <3>1 DEF Yield
    <3> QED
      BY <2>4, <3>2, Zenon DEF Yield, sched, ProcState
  <2>5. CASE WakeupSlot(c)
    BY <2>5 DEF WakeupSlot, ProcState
  <2> QED
    BY <1>3, <2>1, <2>2, <2>3, <2>4, <2>5 DEF TrapStep
<1>4. ASSUME NEW c \in Cpu, Interrupt(c) PROVE TypeOK'
  <2>1. CASE TimerIntr(c)
    BY <2>1 DEF TimerIntr
  <2>2. ASSUME NEW ch \in Chan, DevIntr(c, ch) PROVE TypeOK'
    BY <2>2 DEF DevIntr, StartWakeup, Interruptible, AnyChan
  <2> QED
    BY <1>4, <2>1, <2>2 DEF Interrupt
<1>5. ASSUME NEW c \in Cpu, Syscall(c) PROVE TypeOK'
  <2>1. ASSUME NEW ch \in AnyChan, Sleep(c, ch) PROVE TypeOK'
    BY <2>1, Zenon DEF Sleep, sched, ProcState
  <2>2. ASSUME NEW ch \in Chan, Wakeup(c, ch) PROVE TypeOK'
    BY <2>2 DEF Wakeup, StartWakeup, AnyChan
  <2>3. CASE Exit(c)
    BY <2>3, Zenon DEF Exit, sched, ProcState
  <2>4. ASSUME NEW n \in Proc, Allocproc(c, n) PROVE TypeOK'
    BY <2>4, Zenon DEF Allocproc, ProcState
  <2>5. ASSUME NEW n \in Proc, Freeproc(c, n) PROVE TypeOK'
    BY <2>5 DEF Freeproc, ProcState
  <2>6. ASSUME NEW n \in Proc, Kill(c, n) PROVE TypeOK'
    BY <2>6 DEF Kill, KilledState, ProcState
  <2>7. CASE ForkRunnable(c)
    BY <2>7, Zenon DEF ForkRunnable, ProcState
  <2>8. ASSUME NEW n \in Proc, NEW q \in Level, SetPriority(c, n, q) PROVE TypeOK'
    BY <2>8 DEF SetPriority
  <2> QED
    BY <1>5, <2>1, <2>2, <2>3, <2>4, <2>5, <2>6, <2>7, <2>8, Zenon DEF Syscall
<1>6. CASE UNCHANGED vars
  BY <1>6 DEF vars
<1> QED
  BY <1>1, <1>2, <1>3, <1>4, <1>5, <1>6 DEF Next

(* Every reachable state of the scheduler is well typed.                   *)
THEOREM TypeCorrect == Spec => []TypeOK
  BY TypeInit, TypeStep, PTL DEF Spec

-----------------------------------------------------------------------------
(* StackInv holds when every hart enters scheduler().                      *)
LEMMA StackInit == Init => StackInv
  BY LoopBounds DEF Init, StackInv, OnStack, TrapPc

(* Every step keeps StackInv.                                              *)
LEMMA StackStep == TypeOK /\ StackInv /\ [Next]_vars => StackInv'
<1> SUFFICES ASSUME TypeOK, StackInv, [Next]_vars PROVE StackInv'
  OBVIOUS
<1> USE LoopBounds DEF TypeOK, StackInv, OnStack, GoTo, Free, Pc, SchedulerPc, TrapPc, ReturnPc
<1> USE DEF procVars, loopVars, wakeVars, clockVars
<1>1. CASE ClockIntr
  BY <1>1 DEF ClockIntr, StartWakeup, Interruptible
<1>2. ASSUME NEW c \in Cpu, SchedulerStep(c) PROVE StackInv'
  <2>1. CASE CheckBoost(c)
    <3>1. PICK to \in {"boost", "scan"} : GoTo(c, to)
      BY <2>1, Zenon DEF CheckBoost
    <3> QED
      BY <2>1, <3>1 DEF CheckBoost
  <2>2. CASE BoostMark(c)
    BY <2>2 DEF BoostMark
  <2>3. CASE BoostProc(c)
    BY <2>3 DEF BoostProc
  <2>4. CASE Dispatch(c)
    BY <2>4 DEF Dispatch, Selectable
  <2>5. CASE PassOver(c)
    BY <2>5 DEF PassOver
  <2>6. CASE Resume(c)
    BY <2>6 DEF Resume
  <2>7. CASE SwitchBack(c)
    BY <2>7 DEF SwitchBack
  <2> QED
    BY <1>2, <2>1, <2>2, <2>3, <2>4, <2>5, <2>6, <2>7, ZenonT(30) DEF SchedulerStep
<1>3. ASSUME NEW c \in Cpu, TrapStep(c) PROVE StackInv'
  <2>1. CASE KilledInTrap(c)
    BY <2>1 DEF KilledInTrap
  <2>2. CASE CheckTimer(c)
    BY <2>2 DEF CheckTimer
  <2>3. CASE CountTick(c)
    BY <2>3 DEF CountTick
  <2>4. CASE Yield(c)
    BY <2>4 DEF Yield, sched
  <2>5. CASE WakeupSlot(c)
    <3>1. \A p \in Proc : state[p] # "SLEEPING" => state'[p] = state[p]
      BY <2>5 DEF WakeupSlot
    <3>2. ASSUME NEW d \in Cpu
          PROVE  /\ OnStack(d)' <=> OnStack(d)
                 /\ pc'[d] \in {"resume", "swtch"} <=> pc[d] \in {"resume", "swtch"}
                 /\ pc'[d] = "swtch" <=> pc[d] = "swtch"
      <4>1. \/ pc'[d] = pc[d] /\ ret'[d] = ret[d]
            \/ d = c /\ pc'[c] = ret[c] /\ ret'[c] = "run"
        BY <2>5 DEF WakeupSlot
      <4>2. pc[c] = "wake" /\ ret[c] \in ReturnPc
        BY <2>5 DEF WakeupSlot
      <4> QED
        BY <4>1, <4>2
    <3>3. UNCHANGED <<plock, proc, np>>
      BY <2>5 DEF WakeupSlot
    <3>4. ASSUME NEW d \in Cpu
          PROVE  OnStack(d)' /\ pc'[d] # "swtch" => state'[proc'[d]] = "RUNNING"
      <4> HIDE DEF OnStack
      <4> QED
        BY <3>1, <3>2, <3>3
    <3>5. ASSUME NEW p \in Proc
          PROVE  np'[p] # NoProc => state'[np'[p]] = "USED"
      BY <3>1, <3>3
    <3> HIDE DEF OnStack, TypeOK
    <3>6. \A p \in Proc : plock'[p] # NoCpu =>
            pc'[plock'[p]] \in {"resume", "swtch"} /\ proc'[plock'[p]] = p
      BY <3>2, <3>3 DEF TypeOK
    <3> QED
      BY <3>2, <3>3, <3>4, <3>5, <3>6
  <2> QED
    BY <1>3, <2>1, <2>2, <2>3, <2>4, <2>5, ZenonT(30) DEF TrapStep
<1>4. ASSUME NEW c \in Cpu, Interrupt(c) PROVE StackInv'
  <2>1. CASE TimerIntr(c)
    BY <2>1 DEF TimerIntr
  <2>2. ASSUME NEW ch \in Chan, DevIntr(c, ch) PROVE StackInv'
    BY <2>2 DEF DevIntr, StartWakeup, Interruptible
  <2> QED
    BY <1>4, <2>1, <2>2 DEF Interrupt
<1>5. ASSUME NEW c \in Cpu, Syscall(c) PROVE StackInv'
  <2> USE DEF InSyscall
  <2>1. ASSUME NEW ch \in AnyChan, Sleep(c, ch) PROVE StackInv'
    BY <2>1 DEF Sleep, sched
  <2>2. ASSUME NEW ch \in Chan, Wakeup(c, ch) PROVE StackInv'
    <3>1. /\ pc[c] = "run" /\ pc' = [pc EXCEPT ![c] = "wake"] /\ ret' = [ret EXCEPT ![c] = "run"]
          /\ UNCHANGED <<state, plock, proc, np>>
      <4> HIDE DEF TypeOK, StackInv, OnStack
      <4> QED BY <2>2, Zenon DEF Wakeup, StartWakeup
    <3> HIDE DEF GoTo, Free, InSyscall, procVars, loopVars, wakeVars, clockVars
    <3> QED BY <3>1
  <2>3. CASE Exit(c)
    BY <2>3 DEF Exit, sched
  <2>4. ASSUME NEW n \in Proc, Allocproc(c, n) PROVE StackInv'
    BY <2>4 DEF Allocproc
  <2>5. ASSUME NEW n \in Proc, Freeproc(c, n) PROVE StackInv'
    BY <2>5 DEF Freeproc
  <2>6. ASSUME NEW n \in Proc, Kill(c, n) PROVE StackInv'
    BY <2>6 DEF Kill, KilledState
  <2>7. CASE ForkRunnable(c)
    <3>1. /\ pc[c] = "run" /\ np[proc[c]] # NoProc /\ plock[np[proc[c]]] = NoCpu
          /\ state' = [state EXCEPT ![np[proc[c]]] = "RUNNABLE"]
          /\ np' = [np EXCEPT ![proc[c]] = NoProc]
          /\ UNCHANGED <<plock, pc, proc, ret>>
      <4> HIDE DEF TypeOK, StackInv, OnStack
      <4> QED BY <2>7, Zenon DEF ForkRunnable
    <3> HIDE DEF GoTo, Free, InSyscall, procVars, loopVars, wakeVars, clockVars
    <3> QED BY <3>1
  <2>8. ASSUME NEW n \in Proc, NEW q \in Level, SetPriority(c, n, q) PROVE StackInv'
    BY <2>8 DEF SetPriority
  <2> QED
    BY <1>5, <2>1, <2>2, <2>3, <2>4, <2>5, <2>6, <2>7, <2>8, ZenonT(30) DEF Syscall
<1>6. CASE UNCHANGED vars
  BY <1>6 DEF vars
<1> QED
  BY <1>1, <1>2, <1>3, <1>4, <1>5, <1>6, Zenon DEF Next

(* On any number of CPUs, scheduler() keeps c->proc set exactly while the  *)
(* CPU is on that process's stack, p->lock is held exactly across swtch(), *)
(* and a slot that fork() is still filling stays USED and has one parent.  *)
THEOREM StackLinked == Spec => []StackInv
  BY TypeInit, TypeStep, StackInit, StackStep, PTL DEF Spec

(* A kernel stack belongs to one CPU, whatever the numbers of slots and    *)
(* CPUs: no process is dispatched, freed or switched away from by a second *)
(* CPU while one is still on its stack.                                    *)
THEOREM StackSafe == Spec => []StackOwnership
<1>1. TypeOK /\ StackInv => StackOwnership
  BY LoopBounds DEF TypeOK, StackInv, StackOwnership, Free
<1> QED
  BY <1>1, TypeInit, TypeStep, StackInit, StackStep, PTL DEF Spec

-----------------------------------------------------------------------------
(* No process starts with a tick on its account.                           *)
LEMMA QuantumInit == Init => QuantumBound
  BY QuantumAssumption, LoopBounds DEF Init, QuantumBound, get_time_slice

(* Every step keeps QuantumBound.  A step other than mlfq_check_timer() or *)
(* yield() leaves a process's priority, counter and place before yield()   *)
(* alone, or resets the counter with the priority.                         *)
LEMMA QuantumStep ==
  TypeOK /\ StackInv /\ QuantumBound /\ [Next]_vars => QuantumBound'
<1> SUFFICES ASSUME TypeOK, StackInv, QuantumBound, [Next]_vars, NEW p \in Proc
             PROVE  \/ ticks_used'[p] < get_time_slice(priority'[p])
                    \/ /\ ticks_used'[p] = get_time_slice(priority'[p])
                       /\ BetweenTickAndYield(p)'
  BY Zenon DEF QuantumBound, get_time_slice
<1> DEFINE Reset == priority'[p] \in Level /\ ticks_used'[p] = 0
           Kept  == /\ priority'[p] = priority[p] /\ ticks_used'[p] = ticks_used[p]
                    /\ BetweenTickAndYield(p) => BetweenTickAndYield(p)'
           Goal  == \/ ticks_used'[p] < get_time_slice(priority'[p])
                    \/ /\ ticks_used'[p] = get_time_slice(priority'[p])
                       /\ BetweenTickAndYield(p)'
<1>a. Reset => Goal
  BY QuantumAssumption DEF get_time_slice
<1>b. Kept => Goal
  BY DEF QuantumBound
<1> HIDE DEF QuantumBound, Goal
<1> USE LoopBounds DEF TypeOK, GoTo, BetweenTickAndYield
<1> USE DEF procVars, loopVars, wakeVars, clockVars
<1>1. ASSUME ClockIntr PROVE Goal
  BY <1>1, <1>b DEF ClockIntr, StartWakeup, Interruptible, SchedulerPc
<1>2. ASSUME NEW c \in Cpu, SchedulerStep(c) PROVE Goal
  <2>1. CASE CheckBoost(c)
    BY <2>1, <1>b DEF CheckBoost
  <2>2. CASE BoostMark(c)
    BY <2>2, <1>b DEF BoostMark
  <2>3. CASE BoostProc(c)
    BY <2>3, <1>a, <1>b DEF BoostProc, Boosted
  <2>4. CASE Dispatch(c)
    BY <2>4, <1>b DEF Dispatch
  <2>5. CASE PassOver(c)
    BY <2>5, <1>b DEF PassOver
  <2>6. CASE Resume(c)
    BY <2>6, <1>b DEF Resume
  <2>7. CASE SwitchBack(c)
    BY <2>7, <1>b DEF SwitchBack
  <2> QED
    BY <1>2, <2>1, <2>2, <2>3, <2>4, <2>5, <2>6, <2>7, ZenonT(30) DEF SchedulerStep
<1>3. ASSUME NEW c \in Cpu, TrapStep(c) PROVE Goal
  <2>1. CASE KilledInTrap(c)
    BY <2>1, <1>b, Zenon DEF KilledInTrap
  <2>2. CASE CheckTimer(c)
    <3>1. CASE proc[c] = p
      <4>1. ~BetweenTickAndYield(p)
        BY <2>2, <3>1 DEF CheckTimer, StackInv
      <4>2. ticks_used[p] < get_time_slice(priority[p])
        BY <4>1 DEF QuantumBound
      <4>3. BetweenTickAndYield(p)'
        BY <2>2, <3>1 DEF CheckTimer
      <4>4. priority'[p] = priority[p] /\ ticks_used'[p] = ticks_used[p] + 1
        BY <2>2, <3>1 DEF CheckTimer
      <4>5. get_time_slice(priority[p]) \in Nat /\ ticks_used[p] \in Nat
        BY QuantumAssumption DEF get_time_slice
      <4> HIDE DEF TypeOK, BetweenTickAndYield
      <4> QED
        BY <4>2, <4>3, <4>4, <4>5 DEF Goal
    <3>2. CASE proc[c] # p
      BY <2>2, <3>2, <1>b DEF CheckTimer
    <3> QED
      BY <3>1, <3>2
  <2>3. CASE CountTick(c)
    BY <2>3, <1>b DEF CountTick
  <2>4. CASE Yield(c)
    <3>1. CASE proc[c] = p
      <4>1. CASE ticks_used[p] >= get_time_slice(priority[p])
        BY <2>4, <3>1, <4>1, <1>a DEF Yield, sched, Expired, Demoted
      <4>2. CASE ~(ticks_used[p] >= get_time_slice(priority[p]))
        <5>1. priority'[p] = priority[p] /\ ticks_used'[p] = ticks_used[p]
          BY <2>4, <3>1, <4>2 DEF Yield, sched, Expired, Demoted
        <5>2. get_time_slice(priority[p]) \in Nat /\ ticks_used[p] \in Nat
          BY QuantumAssumption DEF get_time_slice
        <5> HIDE DEF TypeOK
        <5> QED
          BY <5>1, <5>2, <4>2 DEF Goal
      <4> QED
        BY <4>1, <4>2
    <3>2. CASE proc[c] # p
      BY <2>4, <3>2, <1>b DEF Yield, sched, Expired, Demoted
    <3> QED
      BY <3>1, <3>2
  <2>5. CASE WakeupSlot(c)
    BY <2>5, <1>b DEF WakeupSlot
  <2> QED
    BY <1>3, <2>1, <2>2, <2>3, <2>4, <2>5, Zenon DEF TrapStep
<1>4. ASSUME NEW c \in Cpu, Interrupt(c) PROVE Goal
  <2>1. CASE TimerIntr(c)
    BY <2>1, <1>b DEF TimerIntr
  <2>2. ASSUME NEW ch \in Chan, DevIntr(c, ch) PROVE Goal
    BY <2>2, <1>b DEF DevIntr, StartWakeup, Interruptible, SchedulerPc
  <2> QED
    BY <1>4, <2>1, <2>2, ZenonT(30) DEF Interrupt
<1>5. ASSUME NEW c \in Cpu, Syscall(c) PROVE Goal
  <2> USE DEF InSyscall
  <2>1. ASSUME NEW ch \in AnyChan, Sleep(c, ch) PROVE Goal
    BY <2>1, <1>a, <1>b DEF Sleep, sched
  <2>2. ASSUME NEW ch \in Chan, Wakeup(c, ch) PROVE Goal
    BY <2>2, <1>b DEF Wakeup, StartWakeup
  <2>3. CASE Exit(c)
    BY <2>3, <1>b DEF Exit, sched
  <2>4. ASSUME NEW n \in Proc, Allocproc(c, n) PROVE Goal
    BY <2>4, <1>a, <1>b DEF Allocproc
  <2>5. ASSUME NEW n \in Proc, Freeproc(c, n) PROVE Goal
    BY <2>5, <1>a, <1>b DEF Freeproc
  <2>6. ASSUME NEW n \in Proc, Kill(c, n) PROVE Goal
    BY <2>6, <1>b DEF Kill
  <2>7. CASE ForkRunnable(c)
    BY <2>7, <1>b DEF ForkRunnable
  <2>8. ASSUME NEW n \in Proc, NEW q \in Level, SetPriority(c, n, q) PROVE Goal
    BY <2>8, <1>a, <1>b DEF SetPriority
  <2> QED
    BY <1>5, <2>1, <2>2, <2>3, <2>4, <2>5, <2>6, <2>7, <2>8, ZenonT(30) DEF Syscall
<1>6. ASSUME UNCHANGED vars PROVE Goal
  BY <1>6, <1>b, Zenon DEF vars
<1> QED
  BY <1>1, <1>2, <1>3, <1>4, <1>5, <1>6, Zenon DEF Next, Goal

(* No process uses more of its queue's quantum than the quantum, whatever  *)
(* boosts and setpriority() calls interleave with its timer trap.          *)
THEOREM QuantumKept == Spec => []QuantumBound
  BY TypeInit, TypeStep, StackInit, StackStep, QuantumInit, QuantumStep, PTL DEF Spec

-----------------------------------------------------------------------------
(* How the set of CPUs yet to look at mlfq_ticks is counted.               *)
LEMMA UncheckedFinite ==
  /\ IsFiniteSet(Unchecked) /\ Cardinality(Unchecked) \in Nat
  /\ IsFiniteSet(Unchecked') /\ Cardinality(Unchecked') \in Nat
<1>1. IsFiniteSet(Cpu)
  BY SizeAssumption, FS_Interval DEF Cpu
<1>2. Unchecked \subseteq Cpu /\ Unchecked' \subseteq Cpu
  BY DEF Unchecked
<1> QED
  BY <1>1, <1>2, FS_Subset, FS_CardinalityType

(* Every step keeps BoostNotMissed.  A CPU that counts a tick enters the   *)
(* set of those yet to look; it leaves the set only by looking.            *)
LEMMA BoostStep == TypeOK /\ BoostNotMissed /\ [Next]_vars => BoostNotMissed'
<1> SUFFICES ASSUME TypeOK, BoostNotMissed, [Next]_vars PROVE BoostNotMissed'
  OBVIOUS
<1> DEFINE Later == mlfq_ticks' = mlfq_ticks /\ Unchecked \subseteq Unchecked'
<1>a. ASSUME Later PROVE BoostNotMissed'
  <2>1. Cardinality(Unchecked) <= Cardinality(Unchecked')
    BY <1>a, UncheckedFinite, FS_Subset
  <2>2. mlfq_ticks \in Nat
    BY DEF TypeOK
  <2> QED
    BY <1>a, <2>1, <2>2, UncheckedFinite, SizeAssumption DEF BoostNotMissed
<1> HIDE DEF BoostNotMissed
<1> USE LoopBounds DEF TypeOK, GoTo, Unchecked
<1> USE DEF procVars, loopVars, wakeVars, clockVars
<1>1. ASSUME ClockIntr PROVE Later
  BY <1>1 DEF ClockIntr, StartWakeup, Interruptible, SchedulerPc
<1>2. ASSUME NEW c \in Cpu, SchedulerStep(c) PROVE BoostNotMissed'
  <2>1. CASE CheckBoost(c)
    <3>1. mlfq_ticks' \in Nat /\ mlfq_ticks' <= BOOST_INTERVAL - 1
      BY <2>1, SizeAssumption DEF CheckBoost, BoostDue
    <3> HIDE DEF TypeOK, Unchecked
    <3> QED
      BY <3>1, UncheckedFinite, SizeAssumption DEF BoostNotMissed
  <2>2. ASSUME BoostMark(c) PROVE Later
    BY <2>2 DEF BoostMark
  <2>3. ASSUME BoostProc(c) PROVE Later
    BY <2>3, Zenon DEF BoostProc
  <2>4. ASSUME Dispatch(c) PROVE Later
    BY <2>4, Zenon DEF Dispatch
  <2>5. ASSUME PassOver(c) PROVE Later
    BY <2>5, ZenonT(30) DEF PassOver
  <2>6. ASSUME Resume(c) PROVE Later
    BY <2>6 DEF Resume
  <2>7. ASSUME SwitchBack(c) PROVE Later
    BY <2>7 DEF SwitchBack
  <2> HIDE DEF Later
  <2> QED
    BY <1>2, <1>a, <2>1, <2>2, <2>3, <2>4, <2>5, <2>6, <2>7, ZenonT(30) DEF SchedulerStep
<1>3. ASSUME NEW c \in Cpu, TrapStep(c) PROVE BoostNotMissed'
  <2>1. ASSUME KilledInTrap(c) PROVE Later
    BY <2>1 DEF KilledInTrap
  <2>2. ASSUME CheckTimer(c) PROVE Later
    BY <2>2 DEF CheckTimer
  <2>3. CASE CountTick(c)
    <3>1. Unchecked' = Unchecked \cup {c} /\ c \notin Unchecked
      BY <2>3 DEF CountTick
    <3>2. Cardinality(Unchecked') = Cardinality(Unchecked) + 1
      <4> HIDE DEF TypeOK, Unchecked
      <4> QED
        BY <3>1, UncheckedFinite, FS_AddElement
    <3>3. mlfq_ticks' = mlfq_ticks + 1 /\ mlfq_ticks \in Nat
      BY <2>3 DEF CountTick
    <3> HIDE DEF TypeOK, Unchecked
    <3> QED
      BY <3>2, <3>3, UncheckedFinite, SizeAssumption DEF BoostNotMissed
  <2>4. ASSUME Yield(c) PROVE Later
    BY <2>4 DEF Yield, sched
  <2>5. ASSUME WakeupSlot(c) PROVE Later
    BY <2>5 DEF WakeupSlot
  <2> HIDE DEF Later
  <2> QED
    BY <1>3, <1>a, <2>1, <2>2, <2>3, <2>4, <2>5, ZenonT(30) DEF TrapStep
<1>4. ASSUME NEW c \in Cpu, Interrupt(c) PROVE Later
  <2>1. CASE TimerIntr(c)
    BY <2>1 DEF TimerIntr
  <2>2. ASSUME NEW ch \in Chan, DevIntr(c, ch) PROVE Later
    BY <2>2 DEF DevIntr, StartWakeup, Interruptible, SchedulerPc
  <2> QED
    BY <1>4, <2>1, <2>2, ZenonT(30) DEF Interrupt
<1>5. ASSUME NEW c \in Cpu, Syscall(c) PROVE Later
  <2> USE DEF InSyscall
  <2>1. ASSUME NEW ch \in AnyChan, Sleep(c, ch) PROVE Later
    BY <2>1 DEF Sleep, sched
  <2>2. ASSUME NEW ch \in Chan, Wakeup(c, ch) PROVE Later
    BY <2>2 DEF Wakeup, StartWakeup
  <2>3. CASE Exit(c)
    BY <2>3 DEF Exit, sched
  <2>4. ASSUME NEW n \in Proc, Allocproc(c, n) \/ Freeproc(c, n) \/ Kill(c, n) PROVE Later
    BY <2>4 DEF Allocproc, Freeproc, Kill
  <2>5. CASE ForkRunnable(c)
    BY <2>5 DEF ForkRunnable
  <2>6. ASSUME NEW n \in Proc, NEW q \in Level, SetPriority(c, n, q) PROVE Later
    BY <2>6, ZenonT(30) DEF SetPriority
  <2> HIDE DEF Later
  <2> QED
    BY <1>5, <2>1, <2>2, <2>3, <2>4, <2>5, <2>6, ZenonT(30) DEF Syscall
<1>6. ASSUME UNCHANGED vars PROVE Later
  BY <1>6 DEF vars
<1> HIDE DEF Later
<1> QED
  BY <1>a, <1>1, <1>2, <1>3, <1>4, <1>5, <1>6 DEF Next

(* A boost comes no later than the ticks counted by CPUs on their way to   *)
(* the test in scheduler(), for any number of CPUs and any interval.       *)
THEOREM BoostInTime == Spec => []BoostNotMissed
<1>1. Init => BoostNotMissed
  BY UncheckedFinite, SizeAssumption DEF Init, BoostNotMissed
<1> QED
  BY <1>1, TypeInit, TypeStep, BoostStep, PTL DEF Spec

-----------------------------------------------------------------------------
(* Rule 1 for every number of slots, CPUs and queues: OrderInv says where  *)
(* the scan of scheduler() is, and that whoever waited since it began is   *)
(* still ahead of it.                                                      *)

Scanning(c) == pc[c] = "scan" \/ (pc[c] = "wake" /\ ret[c] = "scan")
Boosting(c) == pc[c] = "boostp" \/ (pc[c] = "wake" /\ ret[c] = "boostp")

(* scheduler() starts each scan at queue 0, slot 0, and priority_boost()   *)
(* its loop at slot 0.                                                     *)
LoopsReset ==
  \A c \in Cpu : ~Scanning(c) => level[c] = 0 /\ (~Boosting(c) => slot[c] = 1)

(* The scan has yet to come to w.                                          *)
AheadOf(c, w) == priority[w] > level[c] \/ (priority[w] = level[c] /\ w >= slot[c])

WaitersAhead ==
  \A c \in Cpu : Scanning(c) => \A w \in since[c] : AheadOf(c, w)

OrderInv ==
  /\ since \in [Cpu -> SUBSET Proc]
  /\ LoopsReset
  /\ WaitersAhead
  /\ HigherQueueFirst

(* A step that is none of the scheduler's own on CPU c leaves its loop.    *)
KeepsLoop(c) ==
  /\ level'[c] = level[c] /\ slot'[c] = slot[c]
  /\ Scanning(c)' <=> Scanning(c)
  /\ Boosting(c)' <=> Boosting(c)
  /\ pc'[c] = "resume" => pc[c] = "resume" /\ proc'[c] = proc[c]

LoopAction(c) ==
  CheckBoost(c) \/ BoostMark(c) \/ BoostProc(c) \/ Dispatch(c) \/ PassOver(c)

-----------------------------------------------------------------------------
(* Slots and queues as numbers.                                            *)
LEMMA SlotsAndQueues ==
  /\ \A q \in Level : q \in Nat
  /\ \A p \in Proc : p \in Nat \ {0} /\ p <= NPROC
  BY SizeAssumption DEF Level, Proc

(* Whoever changes a priority holds the lock of the process.               *)
LEMMA PriorityLocked ==
  ASSUME TypeOK, [Next]_vars, NEW p \in Proc, ~Free(p)
  PROVE  priority'[p] = priority[p]
<1>. USE DEF TypeOK, procVars, Free
<1>1. CASE ClockIntr
  BY <1>1 DEF ClockIntr
<1>2. ASSUME NEW c \in Cpu, SchedulerStep(c) PROVE priority'[p] = priority[p]
  <2>1. CASE BoostProc(c)
    BY <2>1 DEF BoostProc
  <2>. QED
    BY <1>2, <2>1, Zenon DEF SchedulerStep, CheckBoost, BoostMark, Dispatch, PassOver, Resume, SwitchBack
<1>3. ASSUME NEW c \in Cpu, TrapStep(c) PROVE priority'[p] = priority[p]
  <2>1. CASE Yield(c)
    <3>1. Free(proc[c]) /\ (priority' = priority
                            \/ priority' = [priority EXCEPT ![proc[c]] = Demoted(priority[proc[c]])])
      BY <2>1 DEF Yield, sched
    <3>. QED  BY <3>1
  <2>. QED
    BY <1>3, <2>1 DEF TrapStep, KilledInTrap, CheckTimer, CountTick, WakeupSlot
<1>4. ASSUME NEW c \in Cpu, Interrupt(c) PROVE priority'[p] = priority[p]
  BY <1>4 DEF Interrupt, TimerIntr, DevIntr
<1>5. ASSUME NEW c \in Cpu, Syscall(c) PROVE priority'[p] = priority[p]
  <2>1. ASSUME NEW n \in Proc, Allocproc(c, n) \/ Freeproc(c, n)
        PROVE  priority'[p] = priority[p]
    BY <2>1 DEF Allocproc, Freeproc
  <2>2. ASSUME NEW n \in Proc, NEW q \in Level, SetPriority(c, n, q)
        PROVE  priority'[p] = priority[p]
    BY <2>2 DEF SetPriority
  <2>. QED
    BY <1>5, <2>1, <2>2 DEF Syscall, Sleep, Wakeup, Exit, Kill, ForkRunnable
<1>6. CASE UNCHANGED vars
  BY <1>6 DEF vars
<1>. QED  BY <1>1, <1>2, <1>3, <1>4, <1>5, <1>6 DEF Next

(* Only CPU c's own scheduler moves its loop: an interrupt taken in the    *)
(* scan returns to the place it left.                                      *)
LEMMA LoopStep ==
  ASSUME TypeOK, StackInv, [Next]_vars, NEW d \in Cpu
  PROVE  KeepsLoop(d) \/ LoopAction(d)
<1>. USE DEF TypeOK, procVars, loopVars, wakeVars, GoTo, KeepsLoop, Scanning, Boosting
<1>1. CASE ClockIntr
  BY <1>1, LoopBounds, Zenon DEF ClockIntr, StartWakeup, Interruptible, SchedulerPc
<1>2. ASSUME NEW c \in Cpu, SchedulerStep(c) PROVE KeepsLoop(d) \/ LoopAction(d)
  <2>1. CASE CheckBoost(c)
    <3>1. CASE c # d
      <4>1. PICK to \in {"boost", "scan"} : GoTo(c, to)
        BY <2>1, Zenon DEF CheckBoost
      <4>. QED  BY <2>1, <3>1, <4>1 DEF CheckBoost
    <3>. QED  BY <2>1, <3>1, Zenon DEF LoopAction
  <2>2. CASE BoostMark(c)
    BY <2>2, ZenonT(30) DEF BoostMark, LoopAction
  <2>3. CASE BoostProc(c)
    <3>1. CASE c # d
      BY <2>3, <3>1 DEF BoostProc
    <3>. QED  BY <2>3, <3>1, Zenon DEF LoopAction
  <2>4. CASE Dispatch(c)
    <3>1. CASE c # d
      BY <2>4, <3>1 DEF Dispatch
    <3>. QED  BY <2>4, <3>1, Zenon DEF LoopAction
  <2>5. CASE PassOver(c)
    <3>1. CASE c # d
      BY <2>5, <3>1 DEF PassOver
    <3>. QED  BY <2>5, <3>1, Zenon DEF LoopAction
  <2>6. CASE Resume(c)
    BY <2>6 DEF Resume
  <2>7. CASE SwitchBack(c)
    BY <2>7 DEF SwitchBack
  <2>. QED
    BY <1>2, <2>1, <2>2, <2>3, <2>4, <2>5, <2>6, <2>7, Zenon DEF SchedulerStep
<1>3. ASSUME NEW c \in Cpu, TrapStep(c) PROVE KeepsLoop(d)
  <2>1. CASE KilledInTrap(c)
    BY <2>1 DEF KilledInTrap
  <2>2. CASE CheckTimer(c)
    BY <2>2 DEF CheckTimer
  <2>3. CASE CountTick(c)
    BY <2>3 DEF CountTick
  <2>4. CASE Yield(c)
    BY <2>4 DEF Yield, sched
  <2>5. CASE WakeupSlot(c)
    <3>1. /\ pc[c] = "wake" /\ UNCHANGED <<proc, level, slot>>
          /\ \/ UNCHANGED <<pc, ret>>
             \/ /\ pc' = [pc EXCEPT ![c] = ret[c]]
                /\ ret' = [ret EXCEPT ![c] = "run"]
      BY <2>5 DEF WakeupSlot
    <3>. QED  BY <3>1 DEF ReturnPc, SchedulerPc
  <2>. QED
    BY <1>3, <2>1, <2>2, <2>3, <2>4, <2>5, Zenon DEF TrapStep
<1>4. ASSUME NEW c \in Cpu, Interrupt(c) PROVE KeepsLoop(d)
  <2>1. CASE TimerIntr(c)
    BY <2>1 DEF TimerIntr
  <2>2. ASSUME NEW ch \in Chan, DevIntr(c, ch) PROVE KeepsLoop(d)
    BY <2>2 DEF DevIntr, StartWakeup, Interruptible, SchedulerPc
  <2>. QED  BY <1>4, <2>1, <2>2, Zenon DEF Interrupt
<1>5. ASSUME NEW c \in Cpu, Syscall(c) PROVE KeepsLoop(d)
  <2>1. ASSUME NEW ch \in AnyChan, Sleep(c, ch) PROVE KeepsLoop(d)
    BY <2>1 DEF Sleep, sched, InSyscall
  <2>2. ASSUME NEW ch \in Chan, Wakeup(c, ch) PROVE KeepsLoop(d)
    BY <2>2 DEF Wakeup, StartWakeup, InSyscall
  <2>3. CASE Exit(c)
    BY <2>3 DEF Exit, sched, InSyscall
  <2>4. ASSUME NEW n \in Proc, Allocproc(c, n) \/ Freeproc(c, n) \/ Kill(c, n) PROVE KeepsLoop(d)
    BY <2>4 DEF Allocproc, Freeproc, Kill
  <2>5. CASE ForkRunnable(c)
    BY <2>5 DEF ForkRunnable
  <2>6. ASSUME NEW n \in Proc, NEW q \in Level, SetPriority(c, n, q) PROVE KeepsLoop(d)
    BY <2>6 DEF SetPriority
  <2>. QED  BY <1>5, <2>1, <2>2, <2>3, <2>4, <2>5, <2>6, ZenonT(30) DEF Syscall
<1>6. CASE UNCHANGED vars
  BY <1>6 DEF vars
<1>. QED  BY <1>1, <1>2, <1>3, <1>4, <1>5, <1>6, Zenon DEF Next

-----------------------------------------------------------------------------
LEMMA OrderInit0 == OrderInit => OrderInv
  BY LoopBounds DEF OrderInit, Init, OrderInv, LoopsReset, WaitersAhead, Scanning, HigherQueueFirst

(* What since[c] becomes in a step.                                        *)
LEMMA SinceStep ==
  ASSUME OrderInv, OrderNext, NEW c \in Cpu
  PROVE  /\ since' \in [Cpu -> SUBSET Proc]
         /\ ScanStarts(c) => since'[c] = {p \in Proc : state'[p] = "RUNNABLE"}
         /\ ~ScanStarts(c) => \A w \in since'[c] :
              w \in since[c] /\ state'[w] = "RUNNABLE" /\ priority'[w] = priority[w]
         /\ ~ScanStarts(c) /\ ~ScanContinues(c) => since'[c] = {}
  BY Zenon DEF OrderInv, OrderNext, StillWaiting

(* One CPU's loop after a step: the scan starts at the top, moves forward  *)
(* past slots that cannot be waiting in its queue, and stops at the first  *)
(* that can.                                                               *)
LEMMA OrderCpu ==
  ASSUME TypeOK, StackInv, TypeOK', OrderInv, OrderNext, NEW c \in Cpu
  PROVE  /\ ~Scanning(c)' => level'[c] = 0 /\ (~Boosting(c)' => slot'[c] = 1)
         /\ Scanning(c)' => \A w \in since'[c] : AheadOf(c, w)'
         /\ pc'[c] = "resume" => \A w \in since'[c] :
              \/ priority'[w] > priority'[proc'[c]]
              \/ priority'[w] = priority'[proc'[c]] /\ w > proc'[c]
<1>. DEFINE Goal == /\ ~Scanning(c)' => level'[c] = 0 /\ (~Boosting(c)' => slot'[c] = 1)
                    /\ Scanning(c)' => \A w \in since'[c] : AheadOf(c, w)'
                    /\ pc'[c] = "resume" => \A w \in since'[c] :
                         \/ priority'[w] > priority'[proc'[c]]
                         \/ priority'[w] = priority'[proc'[c]] /\ w > proc'[c]
<1>0. Next /\ (~Scanning(c) => level[c] = 0 /\ (~Boosting(c) => slot[c] = 1))
  BY DEF OrderNext, OrderInv, LoopsReset
<1>1. CASE KeepsLoop(c)
  <2>1. ~ScanStarts(c)
    BY <1>1 DEF KeepsLoop, Scanning, ScanStarts
  <2>2. \A w \in since'[c] : w \in since[c] /\ priority'[w] = priority[w]
    BY <2>1, SinceStep
  <2>3. Scanning(c)' => \A w \in since'[c] : AheadOf(c, w)'
    BY <1>1, <2>2, Zenon DEF KeepsLoop, AheadOf, OrderInv, WaitersAhead
  <2>4. pc'[c] = "resume" => priority'[proc'[c]] = priority[proc[c]]
    <3>. SUFFICES ASSUME pc'[c] = "resume" PROVE priority'[proc'[c]] = priority[proc[c]]
      OBVIOUS
    <3>1. pc[c] = "resume" /\ proc'[c] = proc[c]
      BY <1>1, Zenon DEF KeepsLoop
    <3>2. OnStack(c)
      BY <3>1 DEF OnStack
    <3>3. proc[c] # NoProc /\ plock[proc[c]] = c
      BY <3>1, <3>2, Zenon DEF StackInv
    <3>4. proc[c] \in Proc /\ ~Free(proc[c])
      BY <3>3, LoopBounds, ZenonT(30) DEF TypeOK, Free
    <3>. QED  BY <1>0, <3>1, <3>4, PriorityLocked
  <2>5. ~Scanning(c)' => level'[c] = 0 /\ (~Boosting(c)' => slot'[c] = 1)
    BY <1>0, <1>1, Zenon DEF KeepsLoop
  <2>6. ASSUME pc'[c] = "resume", NEW w \in since'[c]
        PROVE  \/ priority'[w] > priority'[proc'[c]]
               \/ priority'[w] = priority'[proc'[c]] /\ w > proc'[c]
    <3>1. pc[c] = "resume" /\ proc'[c] = proc[c] /\ w \in since[c]
      BY <1>1, <2>2, <2>6, Zenon DEF KeepsLoop
    <3>2. priority'[proc'[c]] = priority[proc[c]] /\ priority'[w] = priority[w]
      BY <2>2, <2>4, <2>6, Zenon
    <3>3. priority[w] > priority[proc[c]] \/ (priority[w] = priority[proc[c]] /\ w > proc[c])
      BY <3>1, Zenon DEF OrderInv, HigherQueueFirst
    <3>. QED  BY <3>1, <3>2, <3>3, Zenon
  <2>. QED  BY <2>3, <2>5, <2>6, Zenon
<1>2. ASSUME Scanning(c)', level'[c] = 0, slot'[c] = 1, pc'[c] # "resume" PROVE Goal
  <2>1. \A w \in Proc : priority'[w] \in Nat /\ w \in Nat \ {0}
    BY SlotsAndQueues DEF TypeOK
  <2>2. \A w \in since'[c] : w \in Proc
    BY SinceStep, Zenon
  <2>3. \A w \in since'[c] : AheadOf(c, w)'
    BY <1>2, <2>1, <2>2 DEF AheadOf
  <2>. QED  BY <1>2, <2>3, ZenonT(30)
<1>3. CASE CheckBoost(c)
  <2>1. PICK to \in {"boost", "scan"} : GoTo(c, to)
    BY <1>3, ZenonT(30) DEF CheckBoost
  <2>2. pc[c] = "check" /\ pc'[c] = to /\ level' = level /\ slot' = slot /\ level[c] = 0 /\ slot[c] = 1
    BY <1>0, <1>3, <2>1, Zenon DEF CheckBoost, GoTo, loopVars, TypeOK, Scanning, Boosting
  <2>. QED  BY <1>2, <2>2 DEF Scanning, Boosting
<1>4. CASE BoostMark(c)
  BY <1>0, <1>4, Zenon DEF BoostMark, GoTo, loopVars, TypeOK, Scanning, Boosting
<1>5. CASE BoostProc(c)
  <2>1. /\ pc[c] = "boostp" /\ level'[c] = 0
        /\ slot[c] < NPROC => pc'[c] = "boostp"
        /\ ~(slot[c] < NPROC) => pc'[c] = "scan" /\ slot'[c] = 1
    BY <1>0, <1>5, Zenon DEF BoostProc, GoTo, TypeOK, Scanning
  <2>2. CASE slot[c] < NPROC
    BY <2>1, <2>2, Zenon DEF Scanning, Boosting
  <2>3. CASE ~(slot[c] < NPROC)
    BY <1>2, <2>1, <2>3, Zenon DEF Scanning
  <2>. QED  BY <2>2, <2>3, Zenon
<1>6. CASE Dispatch(c)
  <2>1. PICK p \in Proc : p = slot[c]
    BY DEF TypeOK
  <2>2. /\ pc[c] = "scan" /\ pc'[c] = "resume" /\ proc'[c] = p /\ priority' = priority
        /\ priority[p] = level[c] /\ state'[p] = "RUNNING" /\ level'[c] = 0 /\ slot'[c] = 1
    BY <1>6, <2>1, ZenonT(30) DEF Dispatch, Selectable, GoTo, TypeOK
  <2>3. \A w \in since'[c] : w \in since[c] /\ w # p /\ w \in Proc
    BY <2>2, SinceStep, Zenon DEF ScanStarts, OrderInv
  <2>4. \A w \in since[c] : AheadOf(c, w)
    BY <2>2, Zenon DEF OrderInv, WaitersAhead, Scanning
  <2>5. ASSUME NEW w \in since'[c]
        PROVE  priority[w] > priority[p] \/ (priority[w] = priority[p] /\ w > p)
    <3>1. AheadOf(c, w) /\ w # p /\ w \in Proc
      BY <2>3, <2>4, Zenon
    <3>2. priority[w] > priority[p] \/ (priority[w] = priority[p] /\ w >= p)
      BY <2>1, <2>2, <3>1, Zenon DEF AheadOf
    <3>3. w \in Nat /\ p \in Nat
      BY <3>1, SlotsAndQueues
    <3>. QED  BY <3>1, <3>2, <3>3
  <2>. QED  BY <2>2, <2>5, Zenon DEF Scanning
<1>7. CASE PassOver(c)
  <2>1. PICK p \in Proc, l \in Level : p = slot[c] /\ l = level[c]
    BY DEF TypeOK
  <2>2. /\ pc[c] = "scan" /\ priority' = priority /\ state' = state
        /\ ~(state[p] = "RUNNABLE" /\ priority[p] = l)
        /\ slot'[c] = IF p < NPROC THEN p + 1 ELSE 1
        /\ level'[c] = IF p < NPROC THEN l ELSE IF l < NMLFQ - 1 THEN l + 1 ELSE 0
        /\ pc'[c] = IF p = NPROC /\ l = NMLFQ - 1 THEN "check" ELSE "scan"
    BY <1>7, <2>1, Zenon DEF PassOver, Selectable, GoTo, TypeOK, procVars
  <2>3. /\ p \in Nat \ {0} /\ p <= NPROC /\ NPROC \in Nat
        /\ l \in Nat /\ l <= NMLFQ - 1 /\ NMLFQ \in Nat
    BY SizeAssumption DEF Proc, Level
  <2>4. CASE p = NPROC /\ l = NMLFQ - 1
    <3>1. pc'[c] = "check" /\ level'[c] = 0 /\ slot'[c] = 1
      BY <2>2, <2>3, <2>4
    <3>. QED  BY <3>1, Zenon DEF Scanning
  <2>5. CASE ~(p = NPROC /\ l = NMLFQ - 1)
    <3>1. pc'[c] = "scan"
      BY <2>2, <2>5
    <3>2. ASSUME NEW w \in since'[c] PROVE AheadOf(c, w)'
      <4>1. w \in since[c] /\ state[w] = "RUNNABLE" /\ w \in Proc
        BY <2>2, SinceStep DEF ScanStarts, OrderInv
      <4>2. AheadOf(c, w)
        BY <2>2, <4>1, Zenon DEF OrderInv, WaitersAhead, Scanning
      <4>3. priority[w] \in Nat /\ w \in Nat \ {0} /\ w <= NPROC
        BY <4>1, SlotsAndQueues, Zenon DEF TypeOK
      <4>4. priority[w] > l \/ (priority[w] = l /\ w > p)
        <5>1. w # p \/ priority[w] # l
          BY <2>2, <4>1, Zenon
        <5>2. priority[w] > l \/ (priority[w] = l /\ w >= p)
          BY <2>1, <4>2, Zenon DEF AheadOf
        <5>. QED  BY <2>3, <4>3, <5>1, <5>2
      <4>5. CASE p < NPROC
        BY <2>2, <2>3, <4>3, <4>4, <4>5 DEF AheadOf
      <4>6. CASE ~(p < NPROC)
        BY <2>2, <2>3, <2>5, <4>3, <4>4, <4>6 DEF AheadOf
      <4>. QED  BY <4>5, <4>6
    <3>. QED  BY <3>1, <3>2, Zenon DEF Scanning
  <2>. QED  BY <2>4, <2>5, Zenon
<1>. QED
  BY <1>0, <1>1, <1>3, <1>4, <1>5, <1>6, <1>7, LoopStep, Zenon DEF LoopAction

LEMMA OrderStep ==
  TypeOK /\ StackInv /\ OrderInv /\ [OrderNext]_orderVars => OrderInv'
<1>. SUFFICES ASSUME TypeOK, StackInv, OrderInv, [OrderNext]_orderVars PROVE OrderInv'
  OBVIOUS
<1>1. CASE OrderNext
  <2>1. TypeOK'
    BY <1>1, TypeStep DEF OrderNext
  <2>2. since' \in [Cpu -> SUBSET Proc]
    BY <1>1, LoopBounds, SinceStep
  <2>3. LoopsReset' /\ WaitersAhead' /\ HigherQueueFirst'
    BY <1>1, <2>1, OrderCpu DEF LoopsReset, WaitersAhead, HigherQueueFirst
  <2>. QED  BY <2>2, <2>3 DEF OrderInv
<1>2. CASE UNCHANGED orderVars
  BY <1>2, Zenon DEF orderVars, vars, procVars, loopVars, wakeVars, OrderInv, LoopsReset, WaitersAhead,
              AheadOf, Scanning, Boosting, HigherQueueFirst
<1>. QED  BY <1>1, <1>2

(***************************************************************************)
(* scheduler() never dispatches a process past one that waited in a higher *)
(* queue, or in a lower slot of the same queue, during the whole scan: the *)
(* waiting process stays ahead of the scan, and a running scan can only    *)
(* leave a slot behind when the process in it is not waiting in its queue. *)
(***************************************************************************)
THEOREM ScanKeepsRuleOne == OrderSpec => []HigherQueueFirst
<1>1. OrderInit => TypeOK /\ StackInv /\ OrderInv
  BY TypeInit, StackInit, OrderInit0 DEF OrderInit
<1>2. [OrderNext]_orderVars => [Next]_vars
  BY DEF OrderNext, orderVars
<1>3. TypeOK /\ StackInv /\ OrderInv /\ [OrderNext]_orderVars => (TypeOK /\ StackInv /\ OrderInv)'
  BY <1>2, TypeStep, StackStep, OrderStep
<1>4. OrderInv => HigherQueueFirst
  BY DEF OrderInv
<1>. QED  BY <1>1, <1>3, <1>4, PTL DEF OrderSpec
=============================================================================
