----------------------------- MODULE CoreProofs -----------------------------
(***************************************************************************)
(* Proofs about ProcLife for every size of the process table, and about    *)
(* Pstat for any table and any number of pids.                             *)
(***************************************************************************)
EXTENDS ProcLife, Pstat, TLAPS

(* How long, in seconds, each prover may take over a step.                 *)
USE SMTT(30), ZenonT(30)

-----------------------------------------------------------------------------
(* The life of a process: ProcLife.                                        *)

(* The values that stand for no process and no slot are not slots.         *)
LEMMA Slots ==
  initproc \in Proc /\ NoProc \notin Proc /\ NoChan \notin Proc /\ IoChan \notin Proc
  BY NPROCAssumption DEF initproc, Proc, NoProc, NoChan, IoChan

(* Every variable starts in its type.                                      *)
LEMMA TypeInit == Init => TypeOK
  BY Slots DEF Init, TypeOK, ProcState, Pc, HoldsWaitLock

(* Every step of a process keeps every variable in its type.               *)
LEMMA TypeStep == TypeOK /\ [Next]_vars => TypeOK'
<1> SUFFICES ASSUME TypeOK, [Next]_vars PROVE TypeOK'
  OBVIOUS
<1> USE Slots DEF TypeOK, GoTo, ProcState, Pc, HoldsWaitLock
<1>1. ASSUME NEW p \in Proc, KernelStep(p) PROVE TypeOK'
  <2>1. CASE ForkParent(p)
    BY <2>1, Zenon DEF ForkParent
  <2>2. CASE ForkRunnable(p)
    BY <2>2, Zenon DEF ForkRunnable
  <2>3. CASE WaitLock(p)
    BY <2>3 DEF WaitLock
  <2>4. CASE WaitReap(p)
    BY <2>4 DEF WaitReap, freeproc, Zombies, Children
  <2>5. CASE WaitReturn(p)
    BY <2>5 DEF WaitReturn
  <2>6. CASE WaitSleep(p)
    BY <2>6 DEF WaitSleep
  <2>7. CASE SleepLock(p)
    BY <2>7 DEF SleepLock
  <2>8. CASE SleepSched(p)
    BY <2>8 DEF SleepSched
  <2>9. CASE SleepReturn(p)
    BY <2>9 DEF SleepReturn
  <2>10. CASE IoReturn(p)
    BY <2>10 DEF IoReturn
  <2>11. CASE ExitLock(p)
    BY <2>11 DEF ExitLock
  <2>12. CASE ExitReparent(p)
    BY <2>12 DEF ExitReparent, reparent, wakeup, CanLock
  <2>13. CASE ExitWakeup(p)
    BY <2>13, Zenon DEF ExitWakeup, wakeup, CanLock
  <2>14. CASE ExitZombie(p)
    BY <2>14 DEF ExitZombie
  <2>15. CASE ExitSched(p)
    BY <2>15 DEF ExitSched
  <2>16. CASE IoSleep(p)
    BY <2>16 DEF IoSleep
  <2>17. CASE ExitClosed(p)
    BY <2>17 DEF ExitClosed, Closing
  <2> QED
    BY <1>1, <2>1, <2>2, <2>3, <2>4, <2>5, <2>6, <2>7, <2>8, <2>9, <2>10, <2>11, <2>12, <2>13, <2>14, <2>15,
       <2>16, <2>17, Zenon DEF KernelStep
<1>2. ASSUME NEW p \in Proc, UserStep(p) PROVE TypeOK'
  <2>1. ASSUME NEW n \in Proc, Allocproc(p, n) PROVE TypeOK'
    BY <2>1 DEF Allocproc, InUser
  <2>2. ASSUME NEW n \in Proc, ForkFails(p, n) PROVE TypeOK'
    BY <2>2 DEF ForkFails, freeproc
  <2>3. ASSUME NEW n \in Proc, Kill(p, n) PROVE TypeOK'
    BY <2>3 DEF Kill, InUser, CanLock
  <2>4. CASE WaitCall(p)
    BY <2>4 DEF WaitCall, InUser
  <2>5. CASE WaitBadAddr(p)
    BY <2>5 DEF WaitBadAddr
  <2>6. CASE ExitCall(p)
    BY <2>6 DEF ExitCall
  <2>7. CASE IoTest(p)
    BY <2>7 DEF IoTest, InUser
  <2>8. CASE IoWakeup(p)
    BY <2>8 DEF IoWakeup
  <2>9. CASE Fault(p)
    BY <2>9 DEF Fault, InUser
  <2>10. CASE ExitSleep(p)
    BY <2>10 DEF ExitSleep, Closing
  <2> QED
    BY <1>2, <2>1, <2>2, <2>3, <2>4, <2>5, <2>6, <2>7, <2>8, <2>9, <2>10 DEF UserStep
<1>3. CASE UNCHANGED vars
  BY <1>3 DEF vars
<1> QED
  BY <1>1, <1>2, <1>3 DEF Next

(* userinit() leaves one process, which holds no lock and has no child.    *)
LEMMA LifeInit == Init => LifeInv
  BY Slots
  DEF Init, LifeInv, LocksHeld, StateAt, Forking, Parents, WakeupSent, NoLostWakeup,
      LiveParent, WaitsForChild, Gone, Zombies, Children, HoldsWaitLock

(* Every step of a process keeps LifeInv.  The steps that carry the        *)
(* argument are SleepLock and SleepSched, which commit a parent to sleep,  *)
(* ExitReparent and ExitWakeup, which wake it, and WaitReap.               *)
LEMMA LifeStep == TypeOK /\ LifeInv /\ [Next]_vars => LifeInv'
<1> SUFFICES ASSUME TypeOK, LifeInv, [Next]_vars PROVE LifeInv'
  OBVIOUS
<1> USE Slots DEF TypeOK, GoTo, HoldsWaitLock, Zombies, Children, WaitsForChild, Gone
<1> USE DEF LifeInv, LocksHeld, StateAt, Forking, Parents, WakeupSent, NoLostWakeup, LiveParent
<1>1. ASSUME NEW p \in Proc, KernelStep(p) PROVE LifeInv'
  <2>1. CASE ForkParent(p)
    BY <2>1 DEF ForkParent
  <2>2. CASE ForkRunnable(p)
    BY <2>2 DEF ForkRunnable
  <2>3. CASE WaitLock(p)
    BY <2>3 DEF WaitLock
  <2>4. CASE WaitReap(p)
    BY <2>4 DEF WaitReap, freeproc, CanLock
  <2>5. CASE WaitReturn(p)
    BY <2>5 DEF WaitReturn
  <2>6. CASE WaitSleep(p)
    BY <2>6 DEF WaitSleep
  <2>7. CASE SleepLock(p)
    BY <2>7 DEF SleepLock
  <2>8. CASE SleepSched(p)
    BY <2>8 DEF SleepSched
  <2>9. CASE SleepReturn(p)
    BY <2>9 DEF SleepReturn
  <2>10. CASE IoReturn(p)
    BY <2>10 DEF IoReturn
  <2>11. CASE ExitLock(p)
    BY <2>11 DEF ExitLock
  <2>12. CASE ExitReparent(p)
    BY <2>12 DEF ExitReparent, reparent, wakeup, CanLock
  <2>13. CASE ExitWakeup(p)
    BY <2>13 DEF ExitWakeup, wakeup, CanLock
  <2>14. CASE ExitZombie(p)
    BY <2>14 DEF ExitZombie
  <2>15. CASE ExitSched(p)
    BY <2>15 DEF ExitSched
  <2>16. CASE IoSleep(p)
    BY <2>16 DEF IoSleep
  <2>17. CASE ExitClosed(p)
    BY <2>17 DEF ExitClosed, Closing
  <2> QED
    BY <1>1, <2>1, <2>2, <2>3, <2>4, <2>5, <2>6, <2>7, <2>8, <2>9, <2>10, <2>11, <2>12, <2>13, <2>14, <2>15,
       <2>16, <2>17, ZenonT(30) DEF KernelStep
<1>2. ASSUME NEW p \in Proc, UserStep(p) PROVE LifeInv'
  <2>1. ASSUME NEW n \in Proc, Allocproc(p, n) PROVE LifeInv'
    BY <2>1 DEF Allocproc, InUser
  <2>2. ASSUME NEW n \in Proc, ForkFails(p, n) PROVE LifeInv'
    BY <2>2 DEF ForkFails, freeproc
  <2>3. ASSUME NEW n \in Proc, Kill(p, n) PROVE LifeInv'
    BY <2>3 DEF Kill, InUser, CanLock
  <2>4. CASE WaitCall(p)
    BY <2>4 DEF WaitCall, InUser
  <2>5. CASE WaitBadAddr(p)
    BY <2>5 DEF WaitBadAddr
  <2>6. CASE ExitCall(p)
    BY <2>6 DEF ExitCall
  <2>7. CASE IoTest(p)
    BY <2>7 DEF IoTest, InUser
  <2>8. CASE IoWakeup(p)
    BY <2>8 DEF IoWakeup
  <2>9. CASE Fault(p)
    BY <2>9 DEF Fault, InUser
  <2>10. CASE ExitSleep(p)
    BY <2>10 DEF ExitSleep, Closing
  <2> QED
    BY <1>2, <2>1, <2>2, <2>3, <2>4, <2>5, <2>6, <2>7, <2>8, <2>9, <2>10, ZenonT(30) DEF UserStep
<1>3. CASE UNCHANGED vars
  BY <1>3 DEF vars
<1> QED
  BY <1>1, <1>2, <1>3, Zenon DEF Next

-----------------------------------------------------------------------------
(* LifeInv holds in every reachable state.                                 *)
LEMMA LifeAlways == Spec => [](TypeOK /\ LifeInv)
  BY TypeInit, TypeStep, LifeInit, LifeStep, PTL DEF Spec

(* Every reachable state is well typed.                                    *)
THEOREM TypeCorrect == Spec => []TypeOK
  BY TypeInit, TypeStep, PTL DEF Spec

(* The order in which exit(), wait() and fork() take wait_lock and p->lock *)
(* ties each process's place to its state, its parent and the wakeups it   *)
(* owes, for a process table of any size.                                  *)
THEOREM LifeKept == Spec => []LifeInv
  BY LifeAlways, PTL

(* No wakeup of a parent that sleeps in wait() is lost, whatever the size  *)
(* of the process table and however exits, kills and adoptions interleave. *)
THEOREM WakeupsNotLost == Spec => []NoLostWakeup
<1>1. LifeInv => NoLostWakeup
  BY DEF LifeInv
<1> QED
  BY <1>1, LifeAlways, PTL

(* Every process other than init always has a parent that can wait for it. *)
THEOREM ParentsLive == Spec => []LiveParent
<1>1. LifeInv => LiveParent
  BY DEF LifeInv
<1> QED
  BY <1>1, LifeAlways, PTL

(* wait() never frees a process that is still in exit() on its own stack.  *)
THEOREM FreedSafely == Spec => []FreedOffStack
<1>1. TypeOK /\ LifeInv => FreedOffStack
  BY DEF TypeOK, LifeInv, StateAt, FreedOffStack, ProcState
<1> QED
  BY <1>1, LifeAlways, PTL

-----------------------------------------------------------------------------
(* SnapshotComplete of Pstat.  The property is not inductive: between the  *)
(* two loads of getpstat() the parent it has read must still be the slot's *)
(* parent if the slot is stable, and a stable slot must be seen to be in   *)
(* use, which rests on a freed slot's pid being 0.                         *)

Entry == [state : {"UNUSED", "USED", "LIVE", "ZOMBIE"}, pid : Nat, parent : StatSlot \cup {0}]
Row   == [pid : Nat, ppid : Nat]

Scan  == [call : {"none", "getpstat", "getprocinfo"}, at : Nat, pp : StatSlot \cup {0, -1}]

StatTypeOK ==
  /\ slot \in [StatSlot -> Entry]
  /\ nextpid \in Nat \ {0}
  /\ scan \in Scan
  /\ rows \in [StatSlot -> Row]
  /\ stable \in SUBSET StatSlot

(* freeproc() clears the pid and allocproc() sets it.                      *)
PidTells(t) == \A s \in StatSlot : t[s].state = "UNUSED" <=> t[s].pid = 0

StableInUse == \A s \in stable : slot[s].state # "UNUSED"

(* Between getpstat()'s load of p->parent and its load of the pid there.   *)
BetweenLoads ==
  scan.pp # -1 =>
    /\ scan.call = "getpstat" /\ scan.at \in StatSlot
    /\ scan.at \in stable => /\ rows[scan.at].pid = slot[scan.at].pid
                             /\ scan.pp = slot[scan.at].parent

StatInv == StatTypeOK /\ PidTells(slot) /\ StableInUse /\ BetweenLoads /\ SnapshotComplete

LEMMA StatInitInv == StatInit => StatInv
<1>. SUFFICES ASSUME StatInit PROVE StatInv
  OBVIOUS
<1>1. scan \in Scan
  BY DEF StatInit, NoCall, Scan
<1>2. slot \in [StatSlot -> Entry] /\ PidTells(slot)
  BY DEF StatInit, Unused, Entry, PidTells
<1>3. rows \in [StatSlot -> Row]
  BY DEF StatInit, NoRow, Row
<1>. QED
  BY <1>1, <1>2, <1>3
  DEF StatInit, NoCall, StatInv, StatTypeOK, StableInUse, BetweenLoads, SnapshotComplete

(* The scan goes on to the next slot.                                      *)
LEMMA NextSlotType ==
  ASSUME scan \in Scan, NEW at \in Nat, NextSlot(at)
  PROVE  scan' \in Scan /\ scan'.call = scan.call /\ scan'.at = at /\ scan'.pp = -1
  BY Zenon DEF NextSlot, Scan

(* A step of the processes keeps the invariant if it keeps the table well  *)
(* formed: what it changes is no longer stable.                            *)
LEMMA BecomesStep ==
  ASSUME StatInv, NEW t \in [StatSlot -> Entry], PidTells(t), Becomes(t), nextpid' \in Nat \ {0}
  PROVE  StatInv'
<1>1. StatTypeOK'
  BY DEF StatInv, StatTypeOK, Becomes
<1>2. PidTells(slot)'
  BY DEF Becomes, PidTells
<1>3. ASSUME NEW s \in stable'
      PROVE  /\ s \in stable /\ s \in StatSlot
             /\ slot'[s].pid = slot[s].pid /\ slot'[s].parent = slot[s].parent
             /\ PidOf(slot', slot'[s].parent) = PidOf(slot, slot[s].parent)
  BY <1>3 DEF Becomes, StatInv, StatTypeOK
<1>4. StableInUse'
  <2>. SUFFICES ASSUME NEW s \in stable' PROVE slot'[s].state # "UNUSED"
    BY DEF StableInUse
  <2>. QED  BY <1>2, <1>3 DEF StatInv, StableInUse, PidTells
<1>5. BetweenLoads'
  BY <1>3 DEF StatInv, BetweenLoads, Becomes
<1>6. SnapshotComplete'
  <2>. SUFFICES ASSUME scan.call # "none", NEW s \in stable', s < scan.at
                PROVE  /\ rows[s].pid = slot'[s].pid
                       /\ scan.call = "getpstat" => rows[s].ppid = PidOf(slot', slot'[s].parent)
    BY DEF SnapshotComplete, Becomes, PidOf
  <2>. QED  BY <1>3 DEF StatInv, SnapshotComplete
<1>. QED  BY <1>1, <1>2, <1>4, <1>5, <1>6 DEF StatInv

(* allocproc(), the two steps of fork(), exit() and wait().                *)
LEMMA ProcessStep ==
  ASSUME StatInv, NEW s \in StatSlot,
         \/ allocproc(s) \/ forkRunnable(s) \/ exit(s) \/ waitFrees(s)
         \/ \E p \in StatSlot : forkParent(s, p)
  PROVE  StatInv'
<1>. USE DEF StatInv, StatTypeOK
<1>1. CASE allocproc(s)
  <2>. DEFINE t == [slot EXCEPT ![s] = [state |-> "USED", pid |-> nextpid, parent |-> 0]]
  <2>1. t \in [StatSlot -> Entry] /\ PidTells(t)
    BY DEF Entry, PidTells
  <2>2. nextpid' \in Nat \ {0}
    BY <1>1 DEF allocproc
  <2>. QED  BY <1>1, <2>1, <2>2, BecomesStep, Zenon DEF allocproc
<1>2. CASE forkRunnable(s)
  <2>. DEFINE t == [slot EXCEPT ![s].state = "LIVE"]
  <2>1. t \in [StatSlot -> Entry] /\ PidTells(t)
    BY <1>2 DEF forkRunnable, Entry, PidTells
  <2>. QED  BY <1>2, <2>1, BecomesStep, Zenon DEF forkRunnable
<1>3. CASE exit(s)
  <2>. DEFINE t == [q \in StatSlot |->
                IF q = s THEN [slot[q] EXCEPT !.state = "ZOMBIE"]
                ELSE IF slot[q].parent = s THEN [slot[q] EXCEPT !.parent = 1] ELSE slot[q]]
  <2>1. t \in [StatSlot -> Entry] /\ PidTells(t)
    BY <1>3, StatAssumption DEF exit, Entry, PidTells
  <2>. QED  BY <1>3, <2>1, BecomesStep, Zenon DEF exit
<1>4. CASE waitFrees(s)
  <2>. DEFINE t == [slot EXCEPT ![s] = Unused]
  <2>1. t \in [StatSlot -> Entry] /\ PidTells(t)
    BY <1>4 DEF waitFrees, Entry, PidTells, Unused
  <2>. QED  BY <1>4, <2>1, BecomesStep, Zenon DEF waitFrees
<1>5. ASSUME NEW p \in StatSlot, forkParent(s, p) PROVE StatInv'
  <2>. DEFINE t == [slot EXCEPT ![s].parent = p]
  <2>1. t \in [StatSlot -> Entry] /\ PidTells(t)
    BY <1>5 DEF Entry, PidTells
  <2>. QED  BY <1>5, <2>1, BecomesStep, Zenon DEF forkParent
<1>. QED  BY <1>1, <1>2, <1>3, <1>4, <1>5

(* The pid read through a parent pointer is a number.                      *)
LEMMA PidOfNat == ASSUME StatTypeOK, NEW q \in StatSlot \cup {0} PROVE PidOf(slot, q) \in Nat
  BY DEF StatTypeOK, Entry, PidOf

LEMMA StatCallStep ==
  ASSUME StatInv, NEW call \in {"getpstat", "getprocinfo"}, StatCall(call)
  PROVE  StatInv'
<1>1. StatTypeOK' /\ PidTells(slot)' /\ StableInUse' /\ BetweenLoads'
  BY DEF StatInv, StatCall, StatTypeOK, PidTells, StableInUse, BetweenLoads, Row, NoRow, Scan
<1>2. SnapshotComplete'
  BY StatAssumption DEF StatInv, StatCall, StatTypeOK, SnapshotComplete
<1>. QED  BY <1>1, <1>2 DEF StatInv

LEMMA GetprocinfoStep == ASSUME StatInv, getprocinfo PROVE StatInv'
<1>. USE DEF StatInv, StatTypeOK, getprocinfo, Scanning
<1>0. scan.call = "getprocinfo" /\ scan.at \in StatSlot /\ scan.at \in Nat
  BY DEF Scan
<1>1. /\ scan' \in Scan /\ scan'.pp = -1
      /\ scan.call = "getprocinfo" /\ scan'.call = scan.call
      /\ scan.at \in StatSlot /\ scan.at \in Nat /\ scan'.at = scan.at + 1
  BY <1>0, NextSlotType
<1>2. StatTypeOK'
  BY <1>1 DEF Row, NoRow, Entry
<1>3. PidTells(slot)' /\ StableInUse' /\ BetweenLoads'
  BY <1>1 DEF PidTells, StableInUse, BetweenLoads
<1>4. SnapshotComplete'
  <2>. SUFFICES ASSUME NEW s \in stable, s < scan.at + 1
                PROVE  rows'[s].pid = slot[s].pid
    BY <1>1 DEF SnapshotComplete
  <2>1. s \in StatSlot /\ s \in Nat
    BY StatAssumption
  <2>2. CASE s = scan.at
    BY <2>1, <2>2, Zenon DEF StableInUse, InUse
  <2>3. CASE s # scan.at
    <3>1. s < scan.at
      BY <1>0, <2>1, <2>3
    <3>2. rows[s].pid = slot[s].pid
      BY <1>0, <3>1, Zenon DEF SnapshotComplete
    <3>3. rows'[s] = rows[s]
      BY <2>1, <2>3, Zenon
    <3>. QED  BY <3>2, <3>3, Zenon
  <2>. QED  BY <2>2, <2>3
<1>. QED  BY <1>2, <1>3, <1>4

(* The first load of getpstat(): the row's pid and the parent.             *)
LEMMA GetpstatStep == ASSUME StatInv, getpstat PROVE StatInv'
<1>. USE DEF StatInv, StatTypeOK, getpstat, Scanning
<1>1. scan.call = "getpstat" /\ scan.at \in StatSlot /\ scan.at \in Nat /\ scan.pp = -1
  BY DEF Scan
<1>2. CASE InUse(slot[scan.at])
  <2>1. /\ rows' = [rows EXCEPT ![scan.at].pid = slot[scan.at].pid]
        /\ scan' = [scan EXCEPT !.pp = slot[scan.at].parent]
    BY <1>2
  <2>2. StatTypeOK'
    BY <1>1, <2>1 DEF Row, Entry, Scan
  <2>3. PidTells(slot)' /\ StableInUse' /\ BetweenLoads'
    BY <1>1, <2>1 DEF PidTells, StableInUse, BetweenLoads, Row, Scan
  <2>4. SnapshotComplete'
    <3>. SUFFICES ASSUME NEW s \in stable, s < scan.at
                  PROVE  rows'[s].pid = slot[s].pid /\ rows'[s].ppid = PidOf(slot, slot[s].parent)
      BY <1>1, <2>1 DEF SnapshotComplete, Scan
    <3>. QED  BY <1>1, <2>1, StatAssumption DEF SnapshotComplete
  <2>. QED  BY <2>2, <2>3, <2>4
<1>3. CASE ~InUse(slot[scan.at])
  <2>1. /\ rows' = rows /\ scan' \in Scan
        /\ scan'.call = scan.call /\ scan'.at = scan.at + 1 /\ scan'.pp = -1
    BY <1>1, <1>3, NextSlotType
  <2>2. StatTypeOK'
    BY <1>1, <2>1
  <2>3. PidTells(slot)' /\ StableInUse' /\ BetweenLoads'
    BY <1>1, <2>1 DEF PidTells, StableInUse, BetweenLoads
  <2>4. SnapshotComplete'
    <3>. SUFFICES ASSUME NEW s \in stable, s < scan.at + 1
                  PROVE  rows[s].pid = slot[s].pid /\ rows[s].ppid = PidOf(slot, slot[s].parent)
      BY <1>1, <2>1 DEF SnapshotComplete
    <3>1. s # scan.at
      BY <1>3 DEF StableInUse, InUse
    <3>. QED  BY <1>1, <3>1, StatAssumption DEF SnapshotComplete
  <2>. QED  BY <2>2, <2>3, <2>4
<1>. QED  BY <1>2, <1>3

(* The second load: for a stable slot, of the parent it still has.         *)
LEMMA GetpstatPpidStep == ASSUME StatInv, getpstatPpid PROVE StatInv'
<1>. USE DEF StatInv, StatTypeOK, getpstatPpid
<1>1. /\ scan.call = "getpstat" /\ scan.at \in StatSlot /\ scan.at \in Nat
      /\ scan.pp \in StatSlot \cup {0}
  BY DEF BetweenLoads, Scan
<1>2. /\ rows' = [rows EXCEPT ![scan.at].ppid = PidOf(slot, scan.pp)]
      /\ scan' \in Scan /\ scan'.call = scan.call /\ scan'.at = scan.at + 1 /\ scan'.pp = -1
  BY <1>1, NextSlotType
<1>3. StatTypeOK'
  BY <1>1, <1>2, PidOfNat DEF Row
<1>4. PidTells(slot)' /\ StableInUse' /\ BetweenLoads'
  BY <1>1, <1>2 DEF PidTells, StableInUse, BetweenLoads
<1>5. SnapshotComplete'
  <2>. SUFFICES ASSUME NEW s \in stable, s < scan.at + 1
                PROVE  rows'[s].pid = slot[s].pid /\ rows'[s].ppid = PidOf(slot, slot[s].parent)
    BY <1>1, <1>2 DEF SnapshotComplete
  <2>1. s \in StatSlot /\ s \in Nat
    BY StatAssumption
  <2>2. CASE s = scan.at
    BY <1>1, <1>2, <2>1, <2>2 DEF BetweenLoads, Row
  <2>3. CASE s # scan.at
    BY <1>1, <1>2, <2>1, <2>3 DEF SnapshotComplete
  <2>. QED  BY <2>2, <2>3
<1>. QED  BY <1>3, <1>4, <1>5

LEMMA StatReturnsStep == ASSUME StatInv, StatReturns PROVE StatInv'
  BY DEF StatInv, StatReturns, StatTypeOK, PidTells, StableInUse, BetweenLoads,
         SnapshotComplete, NoCall, Scan

(***************************************************************************)
(* getpstat() and getprocinfo() list every process that exists throughout  *)
(* the call, whatever is forked, reparented and reaped meanwhile, and the  *)
(* unlocked p->parent that getpstat() follows gives the right parent       *)
(* wherever that parent has not changed.                                   *)
(***************************************************************************)
THEOREM SnapshotIsComplete == StatSpec => []SnapshotComplete
<1>1. StatInit => StatInv
  BY StatInitInv
<1>2. StatInv /\ [StatNext]_statVars => StatInv'
  <2>. SUFFICES ASSUME StatInv, [StatNext]_statVars PROVE StatInv'
    OBVIOUS
  <2>1. CASE UNCHANGED statVars
    BY <2>1 DEF statVars, StatInv, StatTypeOK, PidTells, StableInUse, BetweenLoads,
                SnapshotComplete, PidOf
  <2>2. CASE StatNext
    BY <2>2, ProcessStep, StatCallStep, GetprocinfoStep, GetpstatStep, GetpstatPpidStep,
       StatReturnsStep DEF StatNext
  <2>. QED  BY <2>1, <2>2
<1>3. StatInv => SnapshotComplete
  BY DEF StatInv
<1>. QED  BY <1>1, <1>2, <1>3, PTL DEF StatSpec
=============================================================================
