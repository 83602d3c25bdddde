------------------------------ MODULE MlfqRules ------------------------------
(***************************************************************************)
(* Two of the rules README.md lists for the scheduler, stated with history *)
(* variables over Mlfq.                                                    *)
(*                                                                         *)
(* passed[w]: processes that have used up a whole quantum of w's queue and *)
(* stayed in it since w began to wait there.                               *)
(* due: harts that have yet to take the timer interrupt of this period.    *)
(* start.c gives every hart the same interval; here no hart ever misses a  *)
(* period or runs ahead of another.                                        *)
(***************************************************************************)
EXTENDS Mlfq

VARIABLES passed, due

rulesVars == <<vars, passed, due>>

Waits(p) == state[p] = "RUNNABLE"

Dispatched(c, p) == pc[c] = "scan" /\ pc'[c] = "resume" /\ proc'[c] = p

(* p uses up a quantum of the queue that w waits in, and stays in it.      *)
Passes(w) ==
  {p \in Proc \ {w} :
     /\ \E c \in Cpu : pc[c] = "yield" /\ pc'[c] = "swtch" /\ proc[c] = p
     /\ ticks_used[p] >= get_time_slice(priority[p])
     /\ priority[p] = priority[w] /\ priority'[p] = priority[w]}

TimerTaken(c) == IF c = 0 THEN ClockIntr ELSE TimerIntr(c)

(* A timer interrupt that finds hart c # 0 in the scheduler.               *)
IdleTimer(c) ==
  /\ c \in due \ {0} /\ pc[c] \in SchedulerPc
  /\ due' = due \ {c}
  /\ UNCHANGED vars

NextPeriod ==
  /\ due = {}
  /\ due' = Cpu
  /\ UNCHANGED vars

RulesInit ==
  /\ Init
  /\ passed = [p \in Proc |-> {}]
  /\ due = Cpu

RulesNext ==
  /\ \/ \E c \in Cpu : IdleTimer(c)
     \/ NextPeriod
     \/ \E c \in due : TimerTaken(c) /\ due' = due \ {c}
     \/ /\ \E c \in Cpu : SchedulerStep(c) \/ TrapStep(c) \/ Syscall(c)
                            \/ \E ch \in Chan : DevIntr(c, ch)
        /\ UNCHANGED due
  /\ passed' = [w \in Proc |->
       IF Waits(w) /\ state'[w] = "RUNNABLE" /\ priority'[w] = priority[w]
       THEN passed[w] \cup Passes(w) ELSE {}]

RulesSpec == RulesInit /\ [][RulesNext]_rulesVars

(***************************************************************************)
(* README.md, Rule 2: processes of one queue take turns.  scheduler() does *)
(* not give a process that has used up its quantum another one while a     *)
(* process of the same queue still waits for its first.                    *)
(***************************************************************************)
RoundRobin ==
  [][\A c \in Cpu, p, w \in Proc :
       Dispatched(c, p) /\ Waits(w) /\ priority[w] = priority[p] => p \notin passed[w]]_rulesVars

(***************************************************************************)
(* README.md, Rule 5: boosts are BOOST_INTERVAL ticks apart.  When         *)
(* priority_boost() sets last_boost_tick, at least BOOST_INTERVAL clock    *)
(* ticks have passed since it last did.                                    *)
(***************************************************************************)
BoostPeriod ==
  [][\A c \in Cpu : pc[c] = "boost" /\ pc'[c] = "boostp" =>
       (ticks - last_boost_tick) % TickMod >= BOOST_INTERVAL]_rulesVars
=============================================================================
