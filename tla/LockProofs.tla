----------------------------- MODULE LockProofs -----------------------------
(***************************************************************************)
(* Proofs about Spin for any CPUs, threads and locks, and about Bcache for *)
(* any number of buffers, processes and blocks.                            *)
(***************************************************************************)
EXTENDS Spin, Bcache, FiniteSetTheorems, TLAPS

(* How long, in seconds, each prover may take over a step.                 *)
USE SMTT(30), ZenonT(30)

-----------------------------------------------------------------------------
(* Interrupts and locks: InterruptsMatchLocks of Spin.                     *)

SpinTypeOK ==
  /\ cur \in [Cpu -> Context]
  /\ noff \in [Cpu -> Int]
  /\ intena \in [Cpu -> BOOLEAN]
  /\ sie \in [Cpu -> BOOLEAN]
  /\ lockcpu \in [SpinLock -> Cpu \cup {NoCpu}]
  /\ held \in [Context -> SUBSET SpinLock]
  /\ spinning \in [Context -> SpinLock \cup {NoLock}]
  /\ trapped \in [Context -> BOOLEAN]
  /\ saved \in [Thread -> BOOLEAN]

(* Each context runs on one CPU at most, a scheduler only on its own.      *)
OneCpu ==
  /\ \A c \in Cpu : cur[c] \in Thread \cup {c}
  /\ \A c, d \in Cpu : cur[c] = cur[d] => c = d

(* The locks of a CPU are those of the context it runs, and a context that *)
(* does not run has none and waits for none.                               *)
Owners ==
  /\ \A c \in Cpu, l \in SpinLock : lockcpu[l] = c <=> l \in held[cur[c]]
  /\ \A x \in Context : (\A c \in Cpu : cur[c] # x) => held[x] = {} /\ spinning[x] = NoLock

(* The order of the locks.                                                 *)
Nesting ==
  \A x \in Context :
    /\ IsFiniteSet(held[x])
    /\ spinning[x] # NoLock => \/ held[x] = {}
                               \/ held[x] = {DevLock} /\ spinning[x] \in Thread

(* noff counts the locks of a CPU and the one it waits for.                *)
Counted ==
  \A c \in Cpu :
    noff[c] = Cardinality(held[cur[c]]) + (IF spinning[cur[c]] # NoLock THEN 1 ELSE 0)

(* Interrupts are off under locks.                                         *)
Masked ==
  \A c \in Cpu : held[cur[c]] # {} \/ spinning[cur[c]] # NoLock => ~sie[c]

(* Where the state of interrupts outside locks is remembered: in the CPU's *)
(* register, in its intena, or in what sched() saved.                      *)
Remembered ==
  /\ \A c \in Cpu : cur[c] \in Thread /\ noff[c] = 0 => (sie[c] <=> ~trapped[cur[c]])
  /\ \A c \in Cpu : cur[c] \in Thread /\ noff[c] # 0 => (intena[c] <=> ~trapped[cur[c]])
  /\ \A t \in Thread : (\A c \in Cpu : cur[c] # t) => (saved[t] <=> ~trapped[t])

SpinInv ==
  SpinTypeOK /\ OneCpu /\ Owners /\ Nesting /\ Counted /\ Masked /\ Remembered

-----------------------------------------------------------------------------
(* noff[c] is 0 exactly when the context that c runs is outside all locks. *)
LEMMA NoffZero ==
  ASSUME SpinInv, NEW c \in Cpu
  PROVE  noff[c] = 0 <=> held[cur[c]] = {} /\ spinning[cur[c]] = NoLock
<1>1. cur[c] \in Context /\ IsFiniteSet(held[cur[c]])
  BY DEF SpinInv, SpinTypeOK, Nesting
<1>2. Cardinality(held[cur[c]]) \in Nat
      /\ (Cardinality(held[cur[c]]) = 0 <=> held[cur[c]] = {})
  BY <1>1, FS_CardinalityType, FS_EmptySet
<1>3. noff[c] = Cardinality(held[cur[c]]) + (IF spinning[cur[c]] # NoLock THEN 1 ELSE 0)
  BY DEF SpinInv, Counted
<1>. QED  BY <1>2, <1>3

LEMMA HeldCard ==
  ASSUME SpinInv, NEW x \in Context
  PROVE  IsFiniteSet(held[x]) /\ Cardinality(held[x]) \in Nat
BY FS_CardinalityType DEF SpinInv, Nesting

LEMMA InitInv == SpinInit => SpinInv
<1>. SUFFICES ASSUME SpinInit PROVE SpinInv
  OBVIOUS
<1>1. SpinTypeOK /\ OneCpu
  BY SpinAssumption DEF SpinInit, SpinTypeOK, OneCpu, Context, SpinLock
<1>2. Owners
  BY SpinAssumption DEF SpinInit, Owners, Context, SpinLock
<1>3. Nesting /\ Counted
  BY FS_EmptySet DEF SpinInit, Nesting, Counted, Context
<1>4. Masked /\ Remembered
  BY SpinAssumption DEF SpinInit, Masked, Remembered, Context
<1>. QED  BY <1>1, <1>2, <1>3, <1>4 DEF SpinInv

LEMMA PushOffStep ==
  ASSUME SpinInv, NEW c \in Cpu, NEW x \in Context, NEW l \in SpinLock, push_off(c, x, l)
  PROVE  SpinInv'
<1>. USE SpinAssumption DEF SpinInv, SpinTypeOK
<1>1. /\ cur[c] = x /\ spinning[x] = NoLock
      /\ \A d \in Cpu : d # c => cur[d] # x
  BY DEF push_off, Runs, OneCpu
<1>2. SpinTypeOK'
  BY DEF push_off
<1>3. OneCpu'
  BY DEF OneCpu, push_off
<1>4. Owners'
  BY <1>1 DEF Owners, push_off
<1>5. Nesting'
  BY <1>1 DEF Nesting, push_off, SpinLock
<1>6. Counted'
  <2>. SUFFICES ASSUME NEW d \in Cpu
       PROVE  (noff[d] = Cardinality(held[cur[d]]) + (IF spinning[cur[d]] # NoLock THEN 1 ELSE 0))'
    BY DEF Counted
  <2>1. l # NoLock /\ Cardinality(held[x]) \in Nat
    BY HeldCard DEF SpinLock
  <2>. QED  BY <1>1, <2>1 DEF Counted, push_off
<1>7. Masked'
  BY <1>1 DEF Masked, push_off
<1>8. Remembered'
  <2>1. noff[c] = 0 <=> held[x] = {}
    BY <1>1, NoffZero
  <2>2. noff[c] + 1 # 0
    BY <1>1, HeldCard DEF Counted
  <2>. QED  BY <1>1, <2>1, <2>2 DEF Remembered, push_off
<1>. QED  BY <1>2, <1>3, <1>4, <1>5, <1>6, <1>7, <1>8

LEMMA AcquireStep ==
  ASSUME SpinInv, NEW c \in Cpu, NEW x \in Context, acquire(c, x)
  PROVE  SpinInv'
<1>. USE SpinAssumption DEF SpinInv, SpinTypeOK
<1>. DEFINE l == spinning[x]
<1>1. /\ cur[c] = x /\ l \in SpinLock /\ lockcpu[l] = NoCpu
      /\ \A d \in Cpu : d # c => cur[d] # x
      /\ l \notin held[x]
  BY DEF acquire, OneCpu, Owners
<1>2. SpinTypeOK'
  BY <1>1 DEF acquire
<1>3. OneCpu'
  BY DEF OneCpu, acquire
<1>4. Owners'
  BY <1>1 DEF Owners, acquire
<1>5. /\ IsFiniteSet(held[x] \cup {l})
      /\ Cardinality(held[x] \cup {l}) = Cardinality(held[x]) + 1
      /\ Cardinality(held[x]) \in Nat
  BY <1>1, FS_AddElement, FS_CardinalityType DEF Nesting
<1>6. Nesting'
  BY <1>1, <1>5 DEF Nesting, acquire
<1>7. Counted'
  BY <1>1, <1>5 DEF Counted, acquire
<1>8. Masked'
  BY <1>1 DEF Masked, acquire
<1>9. Remembered'
  BY <1>1 DEF Remembered, acquire
<1>. QED  BY <1>2, <1>3, <1>4, <1>6, <1>7, <1>8, <1>9

LEMMA ReleaseStep ==
  ASSUME SpinInv, NEW c \in Cpu, NEW x \in Context, NEW l \in SpinLock, release(c, x, l)
  PROVE  SpinInv'
<1>. USE SpinAssumption DEF SpinInv, SpinTypeOK
<1>1. /\ cur[c] = x /\ spinning[x] = NoLock /\ l \in held[x]
      /\ \A d \in Cpu : d # c => cur[d] # x
      /\ lockcpu[l] = c
  BY DEF release, Runs, OneCpu, Owners
<1>2. SpinTypeOK'
  BY <1>1 DEF release
<1>3. OneCpu'
  BY DEF OneCpu, release
<1>4. Owners'
  BY <1>1 DEF Owners, release
<1>5. /\ IsFiniteSet(held[x] \ {l})
      /\ Cardinality(held[x] \ {l}) = Cardinality(held[x]) - 1
      /\ Cardinality(held[x]) \in Nat
      /\ (Cardinality(held[x] \ {l}) = 0) <=> (held[x] \ {l} = {})
  <2>1. IsFiniteSet(held[x]) /\ Cardinality(held[x]) \in Nat
    BY HeldCard
  <2>2. /\ IsFiniteSet(held[x] \ {l})
        /\ Cardinality(held[x] \ {l}) = Cardinality(held[x]) - 1
    BY <1>1, <2>1, FS_RemoveElement
  <2>. QED  BY <2>1, <2>2, FS_EmptySet
<1>6. Nesting'
  BY <1>1, <1>5 DEF Nesting, release
<1>7. Counted'
  BY <1>1, <1>5 DEF Counted, release
<1>8. noff[c] = Cardinality(held[x]) /\ ~sie[c]
  BY <1>1, <1>5 DEF Counted, Masked
<1>9. Masked'
  BY <1>1, <1>5, <1>8 DEF Masked, release, Enables
<1>10. Remembered'
  <2>1. UNCHANGED <<cur, intena, trapped, saved>>
    BY DEF release
  <2>2. \A d \in Cpu : d # c => noff'[d] = noff[d] /\ sie'[d] = sie[d]
    BY DEF release
  <2>3. noff'[c] = noff[c] - 1 /\ (sie'[c] <=> noff[c] = 1 /\ intena[c])
    BY <1>8 DEF release, Enables
  <2>4. noff[c] # 0
    BY <1>1, NoffZero
  <2>. QED  BY <1>1, <2>1, <2>2, <2>3, <2>4 DEF Remembered
<1>. QED  BY <1>2, <1>3, <1>4, <1>6, <1>7, <1>9, <1>10

(* The three steps that only change sie and trapped.                       *)
LEMMA InterruptStep ==
  ASSUME SpinInv, NEW c \in Cpu, NEW x \in Context,
         Interrupt(c, x) \/ kerneltrapReturns(c, x) \/ (x = c /\ intr_on(c))
  PROVE  SpinInv'
<1>. USE SpinAssumption DEF SpinInv, SpinTypeOK
<1>1. /\ cur[c] = x /\ held[x] = {} /\ spinning[x] = NoLock
      /\ \A d \in Cpu : d # c => cur[d] # x
  BY DEF Interrupt, kerneltrapReturns, intr_on, Runs, OneCpu, Masked
<1>2. noff[c] = 0
  BY <1>1, NoffZero
<1>3. UNCHANGED <<cur, noff, intena, lockcpu, held, spinning, saved>>
  BY DEF Interrupt, kerneltrapReturns, intr_on
<1>4. SpinTypeOK'
  BY <1>3, Zenon DEF Interrupt, kerneltrapReturns, intr_on
<1>5. OneCpu' /\ Owners' /\ Nesting' /\ Counted'
  BY <1>3 DEF OneCpu, Owners, Nesting, Counted
<1>6. Masked'
  BY <1>1, <1>3 DEF Masked, Interrupt, kerneltrapReturns, intr_on
<1>7. Remembered'
  <2>1. \A y \in Context : y # x => trapped'[y] = trapped[y]
    BY DEF Interrupt, kerneltrapReturns, intr_on
  <2>2. \A d \in Cpu : d # c => sie'[d] = sie[d]
    BY DEF Interrupt, kerneltrapReturns, intr_on
  <2>3. x \in Thread => (sie'[c] <=> ~trapped'[x])
    BY DEF Interrupt, kerneltrapReturns, intr_on
  <2>. QED  BY <1>1, <1>2, <1>3, <2>1, <2>2, <2>3 DEF Remembered, Context
<1>. QED  BY <1>4, <1>5, <1>6, <1>7

LEMMA SchedStep ==
  ASSUME SpinInv, NEW c \in Cpu, NEW t \in Thread, sched(c, t)
  PROVE  SpinInv'
<1>. USE SpinAssumption DEF SpinInv, SpinTypeOK, Context
<1>1. /\ cur[c] = t /\ spinning[t] = NoLock /\ held[t] = {t} /\ c # t
      /\ \A d \in Cpu : d # c => cur[d] # t
      /\ \A d \in Cpu : cur[d] # c
  BY DEF sched, Runs, OneCpu
<1>2. held[c] = {} /\ spinning[c] = NoLock
  BY <1>1 DEF Owners
<1>3. SpinTypeOK'
  BY <1>1 DEF sched, SpinLock
<1>4. OneCpu'
  BY <1>1 DEF OneCpu, sched
<1>5. Owners'
  BY <1>1, <1>2 DEF Owners, sched
<1>6. Nesting'
  BY <1>1, <1>2, FS_EmptySet, Zenon DEF Nesting, sched
<1>7. Counted'
  BY <1>1, <1>2, Zenon DEF Counted, sched
<1>8. Masked'
  BY <1>1, <1>2 DEF Masked, sched
<1>9. Remembered'
  <2>1. noff[c] # 0
    BY <1>1, NoffZero, Zenon
  <2>2. intena[c] <=> ~trapped[t]
    BY <1>1, <2>1 DEF Remembered
  <2>3. UNCHANGED <<noff, intena, sie, trapped>> /\ cur'[c] = c /\ (saved'[t] <=> intena[c])
    BY DEF sched
  <2>4. \A d \in Cpu : d # c => cur'[d] = cur[d]
    BY DEF sched
  <2>5. \A u \in Thread : u # t => saved'[u] = saved[u]
    BY DEF sched
  <2>. QED  BY <1>1, <2>2, <2>3, <2>4, <2>5 DEF Remembered
<1>. QED  BY <1>3, <1>4, <1>5, <1>6, <1>7, <1>8, <1>9

LEMMA SchedReturnsStep ==
  ASSUME SpinInv, NEW c \in Cpu, NEW t \in Thread, schedReturns(c, t)
  PROVE  SpinInv'
<1>. USE SpinAssumption DEF SpinInv, SpinTypeOK, Context
<1>1. /\ cur[c] = c /\ spinning[c] = NoLock /\ held[c] = {t} /\ c # t
      /\ \A d \in Cpu : cur[d] # t
      /\ \A d \in Cpu : d # c => cur[d] # c
  BY DEF schedReturns, Runs, OneCpu
<1>2. held[t] = {} /\ spinning[t] = NoLock /\ (saved[t] <=> ~trapped[t])
  BY <1>1 DEF Owners, Remembered
<1>3. noff[c] = 1
  <2>1. Cardinality(held[c]) = 1
    BY <1>1, FS_Singleton, Zenon
  <2>2. cur[c] = c /\ spinning[c] = NoLock
    BY <1>1
  <2>3. noff[c] = Cardinality(held[c]) + (IF spinning[c] # NoLock THEN 1 ELSE 0)
    BY <2>2 DEF Counted
  <2>. QED  BY <2>1, <2>2, <2>3
<1>4. SpinTypeOK'
  BY <1>1 DEF schedReturns, IntenaRestored, SpinLock
<1>5. OneCpu'
  BY <1>1 DEF OneCpu, schedReturns
<1>6. Owners'
  BY <1>1, <1>2 DEF Owners, schedReturns, SpinLock
<1>7. Nesting'
  BY <1>1, <1>2, FS_EmptySet DEF Nesting, schedReturns
<1>8. Counted'
  <2>1. Cardinality(held[t]) = 0
    BY <1>2, FS_EmptySet, Zenon
  <2>2. noff'[c] = 0 /\ cur'[c] = t /\ held'[t] = held[t] /\ spinning' = spinning
    BY <1>1, <1>3 DEF schedReturns
  <2>3. \A d \in Cpu : d # c => noff'[d] = noff[d] /\ cur'[d] = cur[d] /\ held'[cur[d]] = held[cur[d]]
    BY <1>1 DEF schedReturns
  <2>4. spinning[t] = NoLock
    BY <1>2
  <2>. QED  BY <2>1, <2>2, <2>3, <2>4 DEF Counted
<1>9. Masked'
  BY <1>1, <1>2 DEF Masked, schedReturns
<1>10. Remembered'
  BY <1>1, <1>2, <1>3 DEF Remembered, schedReturns, IntenaRestored
<1>. QED  BY <1>4, <1>5, <1>6, <1>7, <1>8, <1>9, <1>10

-----------------------------------------------------------------------------
LEMMA InvImplies == SpinInv => InterruptsMatchLocks
<1>. SUFFICES ASSUME SpinInv, NEW c \in Cpu
     PROVE  LET x == cur[c] IN
            /\ (\E l \in SpinLock : lockcpu[l] = c) \/ spinning[x] # NoLock => ~sie[c]
            /\ spinning[x] # NoLock => lockcpu[spinning[x]] # c
            /\ noff[c] = Cardinality(held[x]) + (IF spinning[x] # NoLock THEN 1 ELSE 0)
            /\ x \in Thread /\ noff[c] = 0 => (sie[c] <=> ~trapped[x])
  BY Zenon DEF InterruptsMatchLocks
<1>. cur[c] \in Context /\ spinning[cur[c]] \in SpinLock \cup {NoLock}
  BY DEF SpinInv, SpinTypeOK
<1>1. (\E l \in SpinLock : lockcpu[l] = c) \/ spinning[cur[c]] # NoLock => ~sie[c]
  BY DEF SpinInv, Owners, Masked
<1>2. spinning[cur[c]] # NoLock => lockcpu[spinning[cur[c]]] # c
  BY SpinAssumption DEF SpinInv, Owners, Nesting
<1>3. noff[c] = Cardinality(held[cur[c]]) + (IF spinning[cur[c]] # NoLock THEN 1 ELSE 0)
  BY DEF SpinInv, Counted
<1>4. cur[c] \in Thread /\ noff[c] = 0 => (sie[c] <=> ~trapped[cur[c]])
  BY DEF SpinInv, Remembered
<1>. QED  BY <1>1, <1>2, <1>3, <1>4, Zenon

(* spinlock.c:24 and proc.c:585, for any number of CPUs and threads: locks *)
(* are held and waited for with interrupts off, noff counts them, and a    *)
(* thread that comes back from sched() on another CPU gets its own         *)
(* interrupt state back.                                                   *)
THEOREM LocksMaskInterrupts == SpinSpec => []InterruptsMatchLocks
<1>1. SpinInv /\ [SpinNext]_spinVars => SpinInv'
  <2>. SUFFICES ASSUME SpinInv, [SpinNext]_spinVars PROVE SpinInv'
    OBVIOUS
  <2>1. CASE UNCHANGED spinVars
    BY <2>1 DEF spinVars, SpinInv, SpinTypeOK, OneCpu, Owners, Nesting, Counted, Masked,
       Remembered
  <2>2. ASSUME NEW c \in Cpu, NEW x \in Context, NEW l \in SpinLock,
               push_off(c, x, l) \/ release(c, x, l)
        PROVE  SpinInv'
    BY <2>2, PushOffStep, ReleaseStep
  <2>3. ASSUME NEW c \in Cpu, NEW x \in Context,
               acquire(c, x) \/ Interrupt(c, x) \/ kerneltrapReturns(c, x)
        PROVE  SpinInv'
    BY <2>3, AcquireStep, InterruptStep
  <2>4. ASSUME NEW c \in Cpu, intr_on(c) PROVE SpinInv'
    BY <2>4, InterruptStep DEF Context
  <2>5. ASSUME NEW c \in Cpu, NEW t \in Thread, sched(c, t) \/ schedReturns(c, t)
        PROVE  SpinInv'
    BY <2>5, SchedStep, SchedReturnsStep
  <2>. QED  BY <2>1, <2>2, <2>3, <2>4, <2>5 DEF SpinNext
<1>. QED  BY <1>1, InitInv, InvImplies, PTL DEF SpinSpec

-----------------------------------------------------------------------------
(* The buffer cache: OneBuffer and BreadFresh.  A buffer that bget()       *)
(* recycles has no user and no pin, because refcnt counts both; so a block *)
(* whose last value is not on the disk yet always has a buffer, and a      *)
(* reader of the disk finds the last value.  Nothing depends on the order  *)
(* of the list, only on refcnt = 0.                                        *)

BufTypeOK ==
  /\ blockno \in [Buf -> DiskBlock \cup {NoBlock}]
  /\ valid \in [Buf -> BOOLEAN]
  /\ refcnt \in [Buf -> Nat]
  /\ data \in [Buf -> BlockData]
  /\ holder \in [Buf -> BufProc \cup {Nobody}]
  /\ pinned \in SUBSET Buf
  /\ platter \in [DiskBlock -> BlockData] /\ latest \in [DiskBlock -> BlockData]
  /\ bpc \in [BufProc -> BufPc]
  /\ pbuf \in [BufProc -> Buf]
  /\ want \in [BufProc -> DiskBlock \cup {NoBlock}]

Users(i) == {p \in BufProc : bpc[p] # "idle" /\ pbuf[p] = i}

(* refcnt: the processes from bget() to brelse(), and the pin.             *)
RefsCounted ==
  \A i \in Buf : /\ IsFiniteSet(Users(i))
                 /\ refcnt[i] = Cardinality(Users(i)) + (IF i \in pinned THEN 1 ELSE 0)

(* The buffer bget() chose is still the block's.                           *)
Wanted ==
  \A p \in BufProc : bpc[p] # "idle" => want[p] \in DiskBlock /\ blockno[pbuf[p]] = want[p]

(* b->lock, from acquiresleep() to releasesleep().                         *)
Holders ==
  /\ \A p \in BufProc : bpc[p] \in Using \cup {"locked"} => holder[pbuf[p]] = p
  /\ \A i \in Buf : holder[i] # Nobody =>
       pbuf[holder[i]] = i /\ bpc[holder[i]] \in Using \cup {"locked"}

ValidData ==
  /\ \A i \in Buf : valid[i] => blockno[i] \in DiskBlock /\ data[i] = latest[blockno[i]]
  /\ \A p \in BufProc : bpc[p] \in Using => valid[pbuf[p]]

(* A value that is not on the disk is in a buffer that cannot be recycled. *)
KeptFor(b, i) ==
  /\ blockno[i] = b /\ valid[i]
  /\ i \in pinned \/ \E p \in BufProc : pbuf[p] = i /\ bpc[p] = "dirty"

NotLost ==
  /\ \A b \in DiskBlock : platter[b] # latest[b] => \E i \in Buf : KeptFor(b, i)
  /\ \A p \in BufProc : bpc[p] = "written" => platter[want[p]] = latest[want[p]]

BufInv == BufTypeOK /\ RefsCounted /\ Wanted /\ Holders /\ ValidData /\ NotLost /\ OneBuffer

-----------------------------------------------------------------------------
LEMMA BufInit0 == BufInit => BufInv
<1>. SUFFICES ASSUME BufInit PROVE BufInv
  OBVIOUS
<1>1. BufTypeOK
  <2>1. 1 \in Buf
    BY BufAssumption DEF Buf
  <2>2. valid \in [Buf -> BOOLEAN]
    BY DEF BufInit
  <2>3. PICK d \in BlockData : data = [i \in Buf |-> d] /\ platter = [b \in DiskBlock |-> d]
    BY DEF BufInit
  <2>4. /\ data \in [Buf -> BlockData] /\ platter \in [DiskBlock -> BlockData]
        /\ latest \in [DiskBlock -> BlockData]
    BY <2>3 DEF BufInit
  <2>. QED  BY <2>1, <2>2, <2>4 DEF BufInit, BufTypeOK, BufPc
<1>2. \A i \in Buf : Users(i) = {}
  BY DEF BufInit, Users
<1>3. RefsCounted
  <2>1. \A i \in Buf : IsFiniteSet(Users(i)) /\ Cardinality(Users(i)) = 0
    BY <1>2, FS_EmptySet, Zenon
  <2>. QED  BY <2>1 DEF BufInit, RefsCounted
<1>4. Wanted /\ Holders /\ OneBuffer
  BY DEF BufInit, Wanted, Holders, OneBuffer, Using
<1>5. ValidData /\ NotLost
  BY DEF BufInit, ValidData, NotLost, Using
<1>. QED  BY <1>1, <1>3, <1>4, <1>5 DEF BufInv

(* A process that is about to look for a block holds and waits for none.   *)
LEMMA BgetUsers ==
  ASSUME BufInv, NEW p \in BufProc, bpc[p] = "idle", NEW i \in Buf,
         pbuf' = [pbuf EXCEPT ![p] = i], bpc' = [bpc EXCEPT ![p] = "wait"]
  PROVE  /\ Users(i)' = Users(i) \cup {p} /\ p \notin Users(i)
         /\ \A j \in Buf : j # i => Users(j)' = Users(j)
  BY DEF Users, BufInv, BufTypeOK

(* bget() finds the block.                                                 *)
LEMMA HitStep ==
  ASSUME BufInv, NEW p \in BufProc, NEW b \in DiskBlock, NEW i \in Buf,
         bpc[p] = "idle", blockno[i] = b,
         pbuf' = [pbuf EXCEPT ![p] = i], want' = [want EXCEPT ![p] = b],
         bpc' = [bpc EXCEPT ![p] = "wait"], refcnt' = [refcnt EXCEPT ![i] = @ + 1],
         UNCHANGED <<blockno, valid, data, holder, pinned, platter, latest>>
  PROVE  BufInv'
<1>. USE DEF BufInv
<1>1. BufTypeOK'
  BY DEF BufTypeOK, BufPc
<1>2. RefsCounted'
  <2>1. \A j \in Buf : j # i => Users(j)' = Users(j) /\ refcnt'[j] = refcnt[j]
    BY BgetUsers, Zenon DEF BufTypeOK
  <2>2. Users(i)' = Users(i) \cup {p} /\ p \notin Users(i)
    BY BgetUsers, Zenon
  <2>3. IsFiniteSet(Users(i)) /\ Cardinality(Users(i)) \in Nat
    BY FS_CardinalityType DEF RefsCounted
  <2>4. IsFiniteSet(Users(i)') /\ Cardinality(Users(i)') = Cardinality(Users(i)) + 1
    BY <2>2, <2>3, FS_AddElement
  <2>5. refcnt'[i] = refcnt[i] + 1 /\ refcnt[i] = Cardinality(Users(i)) + (IF i \in pinned THEN 1 ELSE 0)
    BY DEF RefsCounted, BufTypeOK
  <2>6. refcnt'[i] = Cardinality(Users(i)') + (IF i \in pinned' THEN 1 ELSE 0)
    BY <2>3, <2>4, <2>5
  <2>. QED  BY <2>1, <2>4, <2>6 DEF RefsCounted
<1>3. Wanted'
  BY DEF Wanted, BufTypeOK
<1>4. Holders'
  BY BufNames DEF Holders, BufTypeOK, Using
<1>5. ValidData'
  BY DEF ValidData, BufTypeOK, Using
<1>6. NotLost'
  <2>1. \A c \in DiskBlock, j \in Buf : KeptFor(c, j) => KeptFor(c, j)'
    BY DEF KeptFor, BufTypeOK
  <2>. QED  BY <2>1 DEF NotLost, BufTypeOK
<1>7. OneBuffer'
  BY DEF OneBuffer
<1>. QED  BY <1>1, <1>2, <1>3, <1>4, <1>5, <1>6, <1>7

(* bget() recycles a buffer with refcnt 0: nobody waits for it or uses it, *)
(* and it is not pinned.                                                   *)
LEMMA RecycleStep ==
  ASSUME BufInv, NEW p \in BufProc, NEW b \in DiskBlock, NEW i \in Buf,
         bpc[p] = "idle", Cached(b) = {}, refcnt[i] = 0,
         pbuf' = [pbuf EXCEPT ![p] = i], want' = [want EXCEPT ![p] = b],
         bpc' = [bpc EXCEPT ![p] = "wait"], refcnt' = [refcnt EXCEPT ![i] = 1],
         blockno' = [blockno EXCEPT ![i] = b], valid' = [valid EXCEPT ![i] = FALSE],
         UNCHANGED <<data, holder, pinned, platter, latest>>
  PROVE  BufInv'
<1>. USE DEF BufInv
<1>0. ~valid'[i] /\ \A j \in Buf : j # i => (valid'[j] <=> valid[j]) /\ blockno'[j] = blockno[j]
  BY DEF BufTypeOK
<1>1. BufTypeOK'
  <2>1. valid' \in [Buf -> BOOLEAN]
    BY DEF BufTypeOK
  <2>. QED  BY <2>1 DEF BufTypeOK, BufPc
<1>2. Users(i) = {} /\ i \notin pinned
  <2>1. Cardinality(Users(i)) \in Nat /\ IsFiniteSet(Users(i))
    BY FS_CardinalityType DEF RefsCounted
  <2>2. Cardinality(Users(i)) = 0 /\ i \notin pinned
    BY <2>1 DEF RefsCounted
  <2>. QED  BY <2>1, <2>2, FS_EmptySet
<1>3. RefsCounted'
  <2>1. \A j \in Buf : j # i => Users(j)' = Users(j) /\ refcnt'[j] = refcnt[j]
    BY BgetUsers, Zenon DEF BufTypeOK
  <2>0. Users(i)' = Users(i) \cup {p}
    BY BgetUsers, Zenon
  <2>2. refcnt'[i] = 1
    BY DEF BufTypeOK
  <2>3. IsFiniteSet(Users(i)') /\ Cardinality(Users(i)') = 1
    <3>1. IsFiniteSet(Users(i)) /\ Cardinality(Users(i)) = 0
      BY <1>2, FS_EmptySet, Zenon
    <3>2. p \notin Users(i)
      BY BgetUsers, Zenon
    <3>. QED  BY <2>0, <3>1, <3>2, FS_AddElement
  <2>4. refcnt'[i] = Cardinality(Users(i)') + (IF i \in pinned' THEN 1 ELSE 0)
    BY <1>2, <2>2, <2>3
  <2>. QED  BY <2>1, <2>3, <2>4 DEF RefsCounted
<1>4. \A q \in BufProc : q # p /\ bpc[q] # "idle" => pbuf[q] # i
  BY <1>2 DEF Users
<1>5. Wanted'
  BY <1>4 DEF Wanted, BufTypeOK
<1>6. Holders'
  BY BufNames DEF Holders, BufTypeOK, Using
<1>7. ValidData'
  <2>1. \A j \in Buf : valid'[j] => blockno'[j] \in DiskBlock /\ data'[j] = latest'[blockno'[j]]
    BY <1>0 DEF ValidData
  <2>2. ASSUME NEW q \in BufProc, bpc'[q] \in Using PROVE valid'[pbuf'[q]]
    <3>1. q # p /\ bpc'[q] = bpc[q] /\ pbuf'[q] = pbuf[q] /\ pbuf[q] \in Buf
      BY <2>2 DEF BufTypeOK, Using
    <3>2. valid[pbuf[q]] /\ pbuf[q] # i
      BY <1>4, <2>2, <3>1 DEF ValidData, Using
    <3>. QED  BY <1>0, <3>1, <3>2
  <2>. QED  BY <2>1, <2>2 DEF ValidData
<1>8. NotLost'
  <2>1. ASSUME NEW c \in DiskBlock, NEW j \in Buf, KeptFor(c, j) PROVE KeptFor(c, j)'
    <3>1. j # i
      BY <1>2, <2>1 DEF KeptFor, Users
    <3>2. j \in pinned \/ \E q \in BufProc : pbuf'[q] = j /\ bpc'[q] = "dirty"
      BY <2>1 DEF KeptFor, BufTypeOK
    <3>. QED  BY <1>0, <2>1, <3>1, <3>2 DEF KeptFor
  <2>. QED  BY <2>1 DEF NotLost, BufTypeOK
<1>9. OneBuffer'
  BY DEF OneBuffer, Cached, BufTypeOK
<1>. QED  BY <1>1, <1>3, <1>5, <1>6, <1>7, <1>8, <1>9

LEMMA BgetStep ==
  ASSUME BufInv, NEW p \in BufProc, NEW b \in DiskBlock, bget(p, b)
  PROVE  BufInv'
<1>1. PICK i \in Buf :
        /\ pbuf' = [pbuf EXCEPT ![p] = i]
        /\ \/ /\ i \in Cached(b)
              /\ refcnt' = [refcnt EXCEPT ![i] = @ + 1]
              /\ UNCHANGED <<blockno, valid>>
           \/ /\ Cached(b) = {} /\ LeastRecent(i)
              /\ blockno' = [blockno EXCEPT ![i] = b]
              /\ valid' = [valid EXCEPT ![i] = FALSE]
              /\ refcnt' = [refcnt EXCEPT ![i] = 1]
  BY Zenon DEF bget
<1>2. /\ bpc[p] = "idle" /\ want' = [want EXCEPT ![p] = b] /\ bpc' = [bpc EXCEPT ![p] = "wait"]
      /\ UNCHANGED <<data, holder, pinned, platter, latest>>
  BY DEF bget, BufGoTo
<1>3. CASE i \in Cached(b) /\ refcnt' = [refcnt EXCEPT ![i] = @ + 1] /\ UNCHANGED <<blockno, valid>>
  <2>1. blockno[i] = b
    BY <1>3 DEF Cached
  <2>. QED  BY <1>1, <1>2, <1>3, <2>1, HitStep, Zenon
<1>4. CASE /\ Cached(b) = {} /\ LeastRecent(i)
           /\ blockno' = [blockno EXCEPT ![i] = b]
           /\ valid' = [valid EXCEPT ![i] = FALSE]
           /\ refcnt' = [refcnt EXCEPT ![i] = 1]
  <2>1. refcnt[i] = 0
    BY <1>4 DEF LeastRecent, CanRecycle
  <2>. QED  BY <1>1, <1>2, <1>4, <2>1, RecycleStep, Zenon
<1>. QED  BY <1>1, <1>3, <1>4

(* A step of a process inside bget() .. brelse() that stays inside.        *)
LEMMA SameUsers ==
  ASSUME BufInv, NEW p \in BufProc, bpc[p] # "idle", NEW to \in BufPc \ {"idle"},
         bpc' = [bpc EXCEPT ![p] = to], pbuf' = pbuf
  PROVE  \A j \in Buf : Users(j)' = Users(j)
  BY DEF Users, BufInv, BufTypeOK

LEMMA BufAcquireStep ==
  ASSUME BufInv, NEW p \in BufProc, acquiresleep(p)
  PROVE  BufInv'
<1>. USE DEF BufInv
<1>0. PICK i \in Buf : i = pbuf[p]
  BY DEF BufTypeOK
<1>1. /\ bpc[p] = "wait" /\ holder[i] = Nobody /\ holder' = [holder EXCEPT ![i] = p]
      /\ bpc' = [bpc EXCEPT ![p] = "locked"]
      /\ UNCHANGED <<blockno, valid, refcnt, data, pinned, platter, pbuf, want, latest>>
  BY <1>0, Zenon DEF acquiresleep, BufGoTo
<1>2. BufTypeOK'
  BY <1>1 DEF BufTypeOK, BufPc
<1>3. RefsCounted'
  BY <1>1, SameUsers, Zenon DEF RefsCounted, BufPc
<1>4. Wanted' /\ OneBuffer'
  BY <1>1 DEF Wanted, OneBuffer, BufTypeOK
<1>5. Holders'
  BY <1>0, <1>1, BufNames DEF Holders, BufTypeOK, Using
<1>6. ValidData'
  BY <1>1 DEF ValidData, BufTypeOK, Using
<1>7. NotLost'
  <2>1. \A c \in DiskBlock, j \in Buf : KeptFor(c, j) => KeptFor(c, j)'
    BY <1>1 DEF KeptFor, BufTypeOK
  <2>. QED  BY <1>1, <2>1 DEF NotLost, BufTypeOK
<1>. QED  BY <1>2, <1>3, <1>4, <1>5, <1>6, <1>7

(* bread() reads the disk for a buffer that is not valid: the block has no *)
(* other buffer, so the disk holds its last value.                         *)
LEMMA BreadStep ==
  ASSUME BufInv, NEW p \in BufProc, bread(p)
  PROVE  BufInv'
<1>. USE DEF BufInv
<1>0. PICK i \in Buf : i = pbuf[p]
  BY DEF BufTypeOK
<1>1. /\ bpc[p] = "locked" /\ bpc' = [bpc EXCEPT ![p] = "use"]
      /\ data' = [data EXCEPT ![i] = IF valid[i] THEN @ ELSE platter[blockno[i]]]
      /\ valid' = [valid EXCEPT ![i] = TRUE]
      /\ UNCHANGED <<blockno, refcnt, holder, pinned, platter, pbuf, want, latest>>
  BY <1>0 DEF bread, BufGoTo
<1>2. blockno[i] = want[p] /\ blockno[i] \in DiskBlock /\ blockno[i] # NoBlock
  BY <1>0, <1>1, BufNames DEF Wanted
<1>3. data'[i] = latest[blockno[i]]
  <2>1. CASE valid[i]
    BY <1>1, <2>1 DEF ValidData, BufTypeOK
  <2>2. CASE ~valid[i]
    <3>1. data'[i] = platter[blockno[i]]
      BY <1>1, <2>2 DEF BufTypeOK
    <3>2. \A j \in Buf : ~KeptFor(blockno[i], j)
      BY <1>2, <2>2, Zenon DEF KeptFor, OneBuffer
    <3>. QED  BY <1>2, <3>1, <3>2, Zenon DEF NotLost
  <2>. QED  BY <2>1, <2>2
<1>4. /\ valid'[i] /\ valid' \in [Buf -> BOOLEAN]
      /\ \A j \in Buf : j # i => (valid'[j] <=> valid[j]) /\ data'[j] = data[j]
  BY <1>1 DEF BufTypeOK
<1>5. BufTypeOK'
  <2>1. data' \in [Buf -> BlockData]
    BY <1>1, <1>2 DEF BufTypeOK
  <2>. QED  BY <1>1, <1>4, <2>1 DEF BufTypeOK, BufPc, Using
<1>6. RefsCounted'
  BY <1>1, SameUsers, Zenon DEF RefsCounted, BufPc, Using
<1>7. Wanted' /\ OneBuffer'
  BY <1>1 DEF Wanted, OneBuffer, BufTypeOK
<1>8. Holders'
  BY <1>0, <1>1, BufNames DEF Holders, BufTypeOK, Using
<1>9. ValidData'
  <2>1. \A j \in Buf : valid'[j] => blockno'[j] \in DiskBlock /\ data'[j] = latest'[blockno'[j]]
    BY <1>1, <1>2, <1>3, <1>4 DEF ValidData
  <2>2. ASSUME NEW q \in BufProc, bpc'[q] \in Using PROVE valid'[pbuf'[q]]
    BY <1>0, <1>1, <1>4, <2>2 DEF ValidData, BufTypeOK
  <2>. QED  BY <2>1, <2>2, Zenon DEF ValidData
<1>10. NotLost'
  <2>1. ASSUME NEW c \in DiskBlock, NEW j \in Buf, KeptFor(c, j) PROVE KeptFor(c, j)'
    <3>1. j \in pinned' \/ \E q \in BufProc : pbuf'[q] = j /\ bpc'[q] = "dirty"
      BY <1>1, <2>1 DEF KeptFor, BufTypeOK
    <3>. QED  BY <1>1, <1>4, <2>1, <3>1 DEF KeptFor
  <2>. QED  BY <1>1, <2>1 DEF NotLost, BufTypeOK
<1>. QED  BY <1>5, <1>6, <1>7, <1>8, <1>9, <1>10

(* Two processes that use the same block use the same buffer: they are one.*)
LEMMA SoleUser ==
  ASSUME BufInv, NEW p \in BufProc, NEW q \in BufProc,
         bpc[p] \in Using, bpc[q] \in Using, want[p] = want[q]
  PROVE  p = q
<1>1. /\ blockno[pbuf[p]] = want[p] /\ blockno[pbuf[q]] = want[p] /\ want[p] # NoBlock
      /\ pbuf[p] \in Buf /\ pbuf[q] \in Buf
  BY BufNames DEF BufInv, Wanted, Using, BufTypeOK
<1>2. pbuf[p] = pbuf[q]
  BY <1>1 DEF BufInv, OneBuffer
<1>. QED  BY <1>2 DEF BufInv, Holders

(* The caller changes b->data.                                             *)
LEMMA ChangeStep ==
  ASSUME BufInv, NEW p \in BufProc, NEW d \in BlockData, Change(p, d)
  PROVE  BufInv'
<1>. USE DEF BufInv
<1>0. PICK i \in Buf, b \in DiskBlock : i = pbuf[p] /\ b = want[p]
  BY DEF BufTypeOK, Change, Wanted
<1>1. /\ bpc[p] = "use" /\ bpc' = [bpc EXCEPT ![p] = "dirty"]
      /\ data' = [data EXCEPT ![i] = d] /\ latest' = [latest EXCEPT ![b] = d]
      /\ UNCHANGED <<blockno, valid, refcnt, holder, pinned, platter, pbuf, want>>
  BY <1>0, Zenon DEF Change, BufGoTo
<1>2. blockno[i] = b /\ b # NoBlock /\ valid[i] /\ \A j \in Buf : blockno[j] = b => j = i
  <2>1. bpc[p] \in Using
    BY <1>1 DEF Using
  <2>2. blockno[i] = b /\ b # NoBlock
    BY <1>0, <1>1, BufNames DEF Wanted
  <2>3. valid[i]
    BY <1>0, <2>1 DEF ValidData
  <2>. QED  BY <2>2, <2>3 DEF OneBuffer
<1>3. BufTypeOK'
  BY <1>1 DEF BufTypeOK, BufPc, Using
<1>4. RefsCounted'
  BY <1>1, SameUsers, Zenon DEF RefsCounted, BufPc, Using
<1>5. Wanted' /\ OneBuffer'
  BY <1>1 DEF Wanted, OneBuffer, BufTypeOK
<1>6. Holders'
  BY <1>0, <1>1, BufNames DEF Holders, BufTypeOK, Using
<1>7. ValidData'
  <2>1. \A j \in Buf : valid'[j] => blockno'[j] \in DiskBlock /\ data'[j] = latest'[blockno'[j]]
    BY <1>1, <1>2 DEF ValidData, BufTypeOK
  <2>. QED  BY <1>1, <2>1 DEF ValidData, BufTypeOK, Using
<1>8. KeptFor(b, i)'
  BY <1>0, <1>1, <1>2 DEF KeptFor, BufTypeOK
<1>9. \A c \in DiskBlock, j \in Buf : KeptFor(c, j) => KeptFor(c, j)'
  BY <1>1 DEF KeptFor, BufTypeOK
<1>10. ASSUME NEW q \in BufProc, bpc'[q] = "written" PROVE platter'[want'[q]] = latest'[want'[q]]
  <2>1. q # p /\ bpc[q] = "written"
    BY <1>1, <1>10 DEF BufTypeOK
  <2>2. want[q] # b
    BY <1>0, <1>1, <2>1, SoleUser, Zenon DEF Using
  <2>. QED  BY <1>1, <2>1, <2>2 DEF NotLost, BufTypeOK, Wanted
<1>11. NotLost'
  <2>1. ASSUME NEW c \in DiskBlock, platter'[c] # latest'[c] PROVE \E j \in Buf : KeptFor(c, j)'
    <3>1. CASE c = b
      BY <1>8, <3>1
    <3>2. CASE c # b
      BY <1>1, <1>9, <2>1, <3>2 DEF NotLost, BufTypeOK
    <3>. QED  BY <3>1, <3>2
  <2>. QED  BY <1>10, <2>1, Zenon DEF NotLost
<1>. QED  BY <1>3, <1>4, <1>5, <1>6, <1>7, <1>11

LEMMA BwriteStep ==
  ASSUME BufInv, NEW p \in BufProc, bwrite(p)
  PROVE  BufInv'
<1>. USE DEF BufInv
<1>0. PICK i \in Buf, b \in DiskBlock : i = pbuf[p] /\ b = want[p]
  BY DEF BufTypeOK, bwrite, Wanted
<1>1. /\ bpc[p] \in {"use", "dirty"} /\ bpc' = [bpc EXCEPT ![p] = "written"]
      /\ UNCHANGED <<blockno, valid, refcnt, data, holder, pinned, pbuf, want, latest>>
  BY <1>0, Zenon DEF bwrite, BufGoTo
<1>2. /\ blockno[i] = b /\ b # NoBlock /\ valid[i] /\ data[i] = latest[b]
      /\ \A j \in Buf : blockno[j] = b => j = i
  BY <1>0, <1>1, BufNames DEF Wanted, ValidData, OneBuffer, Using
<1>3. platter' = [platter EXCEPT ![b] = latest[b]]
  BY <1>0, <1>2, Zenon DEF bwrite
<1>4. BufTypeOK'
  BY <1>1, <1>3 DEF BufTypeOK, BufPc, Using
<1>5. RefsCounted'
  BY <1>1, SameUsers, Zenon DEF RefsCounted, BufPc, Using
<1>6. Wanted' /\ OneBuffer'
  BY <1>1 DEF Wanted, OneBuffer, BufTypeOK
<1>7. Holders'
  BY <1>0, <1>1, BufNames DEF Holders, BufTypeOK, Using
<1>8. ValidData'
  BY <1>1 DEF ValidData, BufTypeOK, Using
<1>9. NotLost'
  <2>1. ASSUME NEW c \in DiskBlock, platter'[c] # latest'[c] PROVE \E j \in Buf : KeptFor(c, j)'
    <3>1. c # b /\ platter[c] # latest[c]
      BY <1>1, <1>3, <2>1 DEF BufTypeOK
    <3>2. PICK j \in Buf : KeptFor(c, j)
      BY <3>1, ZenonT(30) DEF NotLost
    <3>3. j # i
      BY <1>2, <3>1, <3>2 DEF KeptFor
    <3>. QED  BY <1>0, <1>1, <3>2, <3>3 DEF KeptFor, BufTypeOK
  <2>2. ASSUME NEW q \in BufProc, bpc'[q] = "written" PROVE platter'[want'[q]] = latest'[want'[q]]
    <3>1. CASE want[q] = b
      BY <1>1, <1>3, <3>1 DEF BufTypeOK
    <3>2. CASE want[q] # b
      <4>1. q # p /\ bpc[q] = "written"
        BY <1>0, <1>1, <2>2, <3>2 DEF BufTypeOK
      <4>. QED  BY <1>1, <1>3, <3>2, <4>1 DEF NotLost, BufTypeOK, Wanted
    <3>. QED  BY <3>1, <3>2
  <2>. QED  BY <2>1, <2>2, Zenon DEF NotLost
<1>. QED  BY <1>4, <1>5, <1>6, <1>7, <1>8, <1>9

(* refcnt[i] as a number.                                                  *)
LEMMA RefsNat ==
  ASSUME BufInv, NEW i \in Buf
  PROVE  /\ refcnt[i] \in Nat /\ IsFiniteSet(Users(i)) /\ Cardinality(Users(i)) \in Nat
         /\ refcnt[i] = Cardinality(Users(i)) + (IF i \in pinned THEN 1 ELSE 0)
  BY FS_CardinalityType DEF BufInv, RefsCounted, BufTypeOK

(* log_write() pins the buffer before it may be given up.                  *)
LEMMA BpinStep ==
  ASSUME BufInv, NEW p \in BufProc, bpin(p)
  PROVE  BufInv'
<1>. USE DEF BufInv
<1>0. PICK i \in Buf : i = pbuf[p]
  BY DEF BufTypeOK
<1>1. /\ bpc[p] = "dirty" /\ bpc' = [bpc EXCEPT ![p] = "use"]
      /\ UNCHANGED <<blockno, valid, data, holder, platter, pbuf, want, latest>>
      /\ \/ i \in pinned /\ UNCHANGED <<refcnt, pinned>>
         \/ /\ i \notin pinned /\ refcnt' = [refcnt EXCEPT ![i] = @ + 1]
            /\ pinned' = pinned \cup {i}
  BY <1>0 DEF bpin, BufGoTo
<1>2. /\ i \in pinned' /\ pinned' \in SUBSET Buf /\ refcnt' \in [Buf -> Nat]
      /\ \A j \in Buf : j # i => (j \in pinned' <=> j \in pinned) /\ refcnt'[j] = refcnt[j]
      /\ refcnt'[i] = IF i \in pinned THEN refcnt[i] ELSE refcnt[i] + 1
  BY <1>1 DEF BufTypeOK
<1>3. BufTypeOK'
  BY <1>1, <1>2 DEF BufTypeOK, BufPc, Using
<1>4. \A j \in Buf : Users(j)' = Users(j)
  BY <1>1, SameUsers, Zenon DEF BufPc, Using
<1>5. RefsCounted'
  <2>. SUFFICES ASSUME NEW j \in Buf
                PROVE  refcnt'[j] = Cardinality(Users(j)) + (IF j \in pinned' THEN 1 ELSE 0)
    BY <1>4, RefsNat, Zenon DEF RefsCounted
  <2>. QED  BY <1>2, RefsNat
<1>6. Wanted' /\ OneBuffer'
  BY <1>1 DEF Wanted, OneBuffer, BufTypeOK
<1>7. Holders'
  BY <1>0, <1>1, BufNames DEF Holders, BufTypeOK, Using
<1>8. ValidData'
  BY <1>1 DEF ValidData, BufTypeOK, Using
<1>9. NotLost'
  <2>1. ASSUME NEW c \in DiskBlock, NEW j \in Buf, KeptFor(c, j) PROVE KeptFor(c, j)'
    <3>1. CASE j = i
      BY <1>1, <1>2, <2>1, <3>1, Zenon DEF KeptFor
    <3>2. CASE j # i
      BY <1>0, <1>1, <1>2, <2>1, <3>2 DEF KeptFor, BufTypeOK
    <3>. QED  BY <3>1, <3>2
  <2>. QED  BY <1>1, <2>1 DEF NotLost, BufTypeOK
<1>. QED  BY <1>3, <1>5, <1>6, <1>7, <1>8, <1>9

(* install_trans() unpins what it has just written.                        *)
LEMMA BunpinStep ==
  ASSUME BufInv, NEW p \in BufProc, bunpin(p)
  PROVE  BufInv'
<1>. USE DEF BufInv
<1>0. PICK i \in Buf, b \in DiskBlock : i = pbuf[p] /\ b = want[p]
  BY DEF BufTypeOK, bunpin, Wanted
<1>1. /\ bpc[p] = "written" /\ i \in pinned
      /\ refcnt' = [refcnt EXCEPT ![i] = @ - 1] /\ pinned' = pinned \ {i}
      /\ UNCHANGED <<blockno, valid, data, holder, platter, bpc, pbuf, want, latest>>
  BY <1>0, Zenon DEF bunpin
<1>2. blockno[i] = b /\ platter[b] = latest[b]
  BY <1>0, <1>1, Zenon DEF Wanted, NotLost
<1>3. refcnt[i] \in Nat \ {0}
  BY <1>1, RefsNat
<1>4. BufTypeOK'
  <2>1. refcnt' \in [Buf -> Nat]
    BY <1>1, <1>3 DEF BufTypeOK
  <2>. QED  BY <1>1, <2>1 DEF BufTypeOK
<1>5. RefsCounted'
  <2>1. \A j \in Buf : Users(j)' = Users(j)
    BY <1>1 DEF Users
  <2>. SUFFICES ASSUME NEW j \in Buf
                PROVE  refcnt'[j] = Cardinality(Users(j)) + (IF j \in pinned' THEN 1 ELSE 0)
    BY <2>1, RefsNat DEF RefsCounted
  <2>2. CASE j = i
    BY <1>1, <2>2, RefsNat DEF BufTypeOK
  <2>3. CASE j # i
    BY <1>1, <2>3, RefsNat DEF BufTypeOK
  <2>. QED  BY <2>2, <2>3
<1>6. Wanted' /\ OneBuffer' /\ Holders' /\ ValidData'
  BY <1>1, Zenon DEF Wanted, OneBuffer, Holders, ValidData
<1>7. NotLost'
  <2>1. ASSUME NEW c \in DiskBlock, platter'[c] # latest'[c] PROVE \E j \in Buf : KeptFor(c, j)'
    <3>1. PICK j \in Buf : KeptFor(c, j)
      BY <1>1, <2>1, Zenon DEF NotLost
    <3>2. j # i
      BY <1>1, <1>2, <2>1, <3>1, Zenon DEF KeptFor
    <3>. QED  BY <1>1, <3>1, <3>2, Zenon DEF KeptFor
  <2>. QED  BY <1>1, <2>1, Zenon DEF NotLost
<1>. QED  BY <1>4, <1>5, <1>6, <1>7

LEMMA BufReleaseStep ==
  ASSUME BufInv, NEW p \in BufProc, releasesleep(p)
  PROVE  BufInv'
<1>. USE DEF BufInv
<1>0. PICK i \in Buf : i = pbuf[p]
  BY DEF BufTypeOK
<1>1. /\ bpc[p] \in {"use", "written"} /\ holder[i] = p /\ holder' = [holder EXCEPT ![i] = Nobody]
      /\ bpc' = [bpc EXCEPT ![p] = "unref"]
      /\ UNCHANGED <<blockno, valid, refcnt, data, pinned, platter, pbuf, want, latest>>
  BY <1>0, Zenon DEF releasesleep, BufGoTo
<1>2. BufTypeOK'
  BY <1>1 DEF BufTypeOK, BufPc
<1>3. RefsCounted'
  BY <1>1, SameUsers, Zenon DEF RefsCounted, BufPc
<1>4. Wanted' /\ OneBuffer'
  BY <1>1 DEF Wanted, OneBuffer, BufTypeOK
<1>5. Holders'
  BY <1>0, <1>1, BufNames DEF Holders, BufTypeOK, Using
<1>6. ValidData'
  BY <1>1 DEF ValidData, BufTypeOK, Using
<1>7. NotLost'
  <2>1. \A c \in DiskBlock, j \in Buf : KeptFor(c, j) => KeptFor(c, j)'
    BY <1>1 DEF KeptFor, BufTypeOK
  <2>. QED  BY <1>1, <2>1 DEF NotLost, BufTypeOK
<1>. QED  BY <1>2, <1>3, <1>4, <1>5, <1>6, <1>7

LEMMA BrelseStep ==
  ASSUME BufInv, NEW p \in BufProc, brelse(p)
  PROVE  BufInv'
<1>. USE DEF BufInv
<1>0. PICK i \in Buf : i = pbuf[p]
  BY DEF BufTypeOK
<1>1. /\ bpc[p] = "unref" /\ bpc' = [bpc EXCEPT ![p] = "idle"]
      /\ refcnt' = [refcnt EXCEPT ![i] = @ - 1]
      /\ UNCHANGED <<blockno, valid, data, holder, pinned, platter, pbuf, want, latest>>
  BY <1>0 DEF brelse, BufGoTo
<1>2. /\ p \in Users(i) /\ Users(i)' = Users(i) \ {p}
      /\ \A j \in Buf : j # i => Users(j)' = Users(j)
  BY <1>0, <1>1 DEF Users, BufTypeOK
<1>3. /\ IsFiniteSet(Users(i)') /\ Cardinality(Users(i)') = Cardinality(Users(i)) - 1
      /\ Cardinality(Users(i)') \in Nat
  <2>1. IsFiniteSet(Users(i))
    BY RefsNat
  <2>2. IsFiniteSet(Users(i)') /\ Cardinality(Users(i)') = Cardinality(Users(i)) - 1
    BY <1>2, <2>1, FS_RemoveElement
  <2>. QED  BY <2>2, FS_CardinalityType
<1>4. refcnt'[i] = refcnt[i] - 1 /\ \A j \in Buf : j # i => refcnt'[j] = refcnt[j]
  BY <1>1 DEF BufTypeOK
<1>5. refcnt[i] \in Nat \ {0}
  BY <1>3, RefsNat
<1>6. BufTypeOK'
  <2>1. refcnt' \in [Buf -> Nat]
    BY <1>1, <1>5 DEF BufTypeOK
  <2>. QED  BY <1>1, <2>1 DEF BufTypeOK, BufPc
<1>7. RefsCounted'
  <2>1. refcnt'[i] = Cardinality(Users(i)') + (IF i \in pinned THEN 1 ELSE 0)
    <3>. HIDE DEF BufInv
    <3>1. /\ Cardinality(Users(i)) \in Nat
          /\ refcnt[i] = Cardinality(Users(i)) + (IF i \in pinned THEN 1 ELSE 0)
      BY RefsNat, Zenon
    <3>. QED  BY <1>3, <1>4, <3>1
  <2>2. \A j \in Buf : j # i => Users(j)' = Users(j) /\ refcnt'[j] = refcnt[j]
    BY <1>2, <1>4
  <2>. QED  BY <1>1, <1>3, <2>1, <2>2 DEF RefsCounted
<1>8. Wanted' /\ OneBuffer'
  BY <1>1 DEF Wanted, OneBuffer, BufTypeOK
<1>9. Holders' /\ ValidData'
  BY <1>0, <1>1, BufNames DEF Holders, ValidData, BufTypeOK, Using
<1>10. NotLost'
  <2>1. \A c \in DiskBlock, j \in Buf : KeptFor(c, j) => KeptFor(c, j)'
    BY <1>1 DEF KeptFor, BufTypeOK
  <2>. QED  BY <1>1, <2>1 DEF NotLost, BufTypeOK
<1>. QED  BY <1>6, <1>7, <1>8, <1>9, <1>10

LEMMA BufAlways == BufSpec => []BufInv
<1>1. BufInv /\ [BufNext]_bufVars => BufInv'
  <2>. SUFFICES ASSUME BufInv, [BufNext]_bufVars PROVE BufInv'
    OBVIOUS
  <2>1. CASE UNCHANGED bufVars
    <3>. USE <2>1 DEF bufVars
    <3>1. BufTypeOK' /\ Wanted' /\ Holders' /\ OneBuffer'
      BY DEF BufInv, BufTypeOK, Wanted, Holders, OneBuffer
    <3>2. RefsCounted'
      BY ZenonT(30) DEF BufInv, RefsCounted, Users
    <3>3. ValidData' /\ NotLost'
      BY DEF BufInv, ValidData, NotLost, KeptFor
    <3>. QED  BY <3>1, <3>2, <3>3 DEF BufInv
  <2>2. ASSUME NEW p \in BufProc, BufStep(p) PROVE BufInv'
    BY <2>2, BgetStep, BufAcquireStep, BreadStep, ChangeStep, BwriteStep, BpinStep, BunpinStep,
       BufReleaseStep, BrelseStep DEF BufStep
  <2>. QED  BY <2>1, <2>2 DEF BufNext
<1>. QED  BY <1>1, BufInit0, PTL DEF BufSpec

(* bget() never gives a block two buffers, for any number of buffers and   *)
(* processes and whatever buffer with refcnt 0 it takes.                   *)
THEOREM BlockHasOneBuffer == BufSpec => []OneBuffer
<1>1. BufInv => OneBuffer
  BY DEF BufInv
<1>. QED  BY <1>1, BufAlways, PTL

(* bread() returns the block that was asked for, locked by its caller,     *)
(* with what was last put in it, for any number of buffers and processes.  *)
THEOREM BreadIsFresh == BufSpec => []BreadFresh
<1>1. BufInv => BreadFresh
  <2>. SUFFICES ASSUME BufInv, NEW p \in BufProc, bpc[p] \in Using
                PROVE  /\ blockno[pbuf[p]] = want[p] /\ holder[pbuf[p]] = p
                       /\ data[pbuf[p]] = latest[want[p]]
    BY DEF BreadFresh
  <2>1. blockno[pbuf[p]] = want[p] /\ holder[pbuf[p]] = p /\ valid[pbuf[p]] /\ pbuf[p] \in Buf
    BY DEF BufInv, Wanted, Holders, ValidData, Using, BufTypeOK
  <2>. QED  BY <2>1 DEF BufInv, ValidData
<1>. QED  BY <1>1, BufAlways, PTL
=============================================================================
