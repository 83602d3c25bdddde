-------------------------------- MODULE Clock -------------------------------
(***************************************************************************)
(* sys_sleep() of kernel/sysproc.c and clockintr() of kernel/trap.c: ticks *)
(* is unsigned and wraps around (TICKMOD is 2^32 in the code).  tickslock  *)
(* makes each stretch between two sleeps one step.                         *)
(*                                                                         *)
(* An operator defined just before another of like name is a faulty form   *)
(* of it that no action uses (see Mlfq).                                   *)
(***************************************************************************)
EXTENDS Integers

CONSTANTS
  ClockProc,    \* processes that sleep
  TICKMOD,
  MaxSleep      \* bound on the argument of sleep()

ASSUME ClockAssumption ==
  TICKMOD \in Nat /\ MaxSleep \in Nat /\ MaxSleep < TICKMOD

VARIABLES
  ticks,
  sleeper,      \* [pc, n, ticks0] of each process
  ckill,        \* killed processes
  since         \* history: clock ticks since the call, up to TICKMOD - 1

clockVars == <<ticks, sleeper, ckill, since>>

ClockInit ==
  /\ ticks \in 0 .. TICKMOD - 1
  /\ sleeper = [p \in ClockProc |-> [pc |-> "idle", n |-> 0, ticks0 |-> 0]]
  /\ ckill = {}
  /\ since = [p \in ClockProc |-> 0]

(* argint(); a negative argument counts as 0.                              *)
sys_sleep(p, n) ==
  /\ sleeper[p].pc = "idle" /\ p \notin ckill
  /\ sleeper' = [sleeper EXCEPT ![p] = [pc |-> "test", n |-> IF n < 0 THEN 0 ELSE n,
                                        ticks0 |-> ticks]]
  /\ since' = [since EXCEPT ![p] = 0]
  /\ UNCHANGED <<ticks, ckill>>

TooEarlyAbsolute(p) == ticks < (sleeper[p].ticks0 + sleeper[p].n) % TICKMOD
(* ticks - ticks0 < n, in unsigned arithmetic.                             *)
TooEarly(p) == (ticks - sleeper[p].ticks0) % TICKMOD < sleeper[p].n

(* The loop, until it sleeps or returns.                                   *)
SleepLoop(p) ==
  /\ sleeper[p].pc = "test"
  /\ sleeper' = [sleeper EXCEPT ![p].pc = IF ~TooEarly(p) THEN "done"
                                          ELSE IF p \in ckill THEN "idle" ELSE "asleep"]
  /\ UNCHANGED <<ticks, ckill, since>>

SleepReturns(p) ==
  /\ sleeper[p].pc = "done"
  /\ sleeper' = [sleeper EXCEPT ![p].pc = "idle"]
  /\ UNCHANGED <<ticks, ckill, since>>

Wake(P) == [p \in ClockProc |-> [sleeper[p] EXCEPT !.pc =
              IF p \in P /\ @ = "asleep" THEN "test" ELSE @]]

(* A process that is awake runs before ticks has gone all the way round.   *)
InTime(p) == sleeper[p].pc = "test" => since[p] < TICKMOD - 1

clockintr ==
  /\ \A p \in ClockProc : InTime(p)
  /\ ticks' = (ticks + 1) % TICKMOD
  /\ sleeper' = Wake(ClockProc)
  /\ since' = [p \in ClockProc |-> IF since[p] < TICKMOD - 1 THEN since[p] + 1 ELSE since[p]]
  /\ UNCHANGED ckill

killSleeping(p) ==
  /\ p \notin ckill
  /\ ckill' = ckill \cup {p}
  /\ sleeper' = Wake({p})
  /\ UNCHANGED <<ticks, since>>

ClockNext ==
  \/ clockintr
  \/ \E p \in ClockProc :
       \/ \E n \in -1 .. MaxSleep : sys_sleep(p, n)
       \/ SleepLoop(p) \/ SleepReturns(p) \/ killSleeping(p)

ClockSpec == ClockInit /\ [][ClockNext]_clockVars

-----------------------------------------------------------------------------
(* sysproc.c:62: sleep(n) returns 0 only when n ticks have passed, across  *)
(* a wrap of ticks and whatever else wakes the process; and a process that *)
(* is asleep has ticks to wait for, or it would sleep one too many.        *)
SleepsLongEnough ==
  \A p \in ClockProc :
    /\ sleeper[p].pc = "done" => since[p] >= sleeper[p].n
    /\ sleeper[p].pc = "asleep" => since[p] < sleeper[p].n
=============================================================================
