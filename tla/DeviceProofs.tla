---------------------------- MODULE DeviceProofs ----------------------------
(***************************************************************************)
(* Counters that wrap around and the circular buffers they index: the      *)
(* arithmetic that ticks, a pipe, the console and the rings of the disk    *)
(* share; then the proofs about the first two devices, Clock for every     *)
(* width of ticks, and Console for every size of the buffer that divides   *)
(* the range of the indices and any number of readers.                     *)
(***************************************************************************)
EXTENDS Clock, Console, Sequences, FiniteSetTheorems, WellFoundedInduction,
        TLAPS

(* How long, in seconds, each prover may take over a step.                 *)
USE SMTT(30), ZenonT(30)

(* The smallest of a set of numbers.                                       *)
LEMMA LeastNat ==
  ASSUME NEW S \in SUBSET Nat, S # {}
  PROVE  \E x \in S : \A y \in S : x <= y
<1>. DEFINE R == OpToRel(<, Nat)
<1>1. IsWellFoundedOn(R, Nat)
  BY NatLessThanWellFounded, Zenon
<1>2. \A x, y \in Nat : x < y => <<x, y>> \in R
  BY DEF OpToRel
<1>. HIDE DEF R
<1>3. PICK x \in S : \A y \in S : ~ (<<y, x>> \in R)
  BY <1>1, WFMin, Zenon
<1>4. \A y \in S : y \in Nat /\ x \in Nat /\ ~ (y < x)
  BY <1>2, <1>3, Zenon
<1>5. \A y \in S : x <= y
  BY <1>4
<1>. QED BY <1>5

-----------------------------------------------------------------------------
(* Counters that wrap around at N, and buffers of M slots, where M divides *)
(* N.                                                                      *)
LEMMA ModRange ==
  ASSUME NEW M \in Int, M > 0, NEW x \in Int
  PROVE  x % M \in 0 .. M - 1
OBVIOUS

LEMMA ModIs ==
  ASSUME NEW M \in Int, M > 0, NEW x \in Int, NEW q \in Int, NEW y \in 0 .. M - 1,
         x = q * M + y
  PROVE  x % M = y
OBVIOUS

LEMMA ModWitness ==
  ASSUME NEW M \in Int, M > 0, NEW x \in Int
  PROVE  \E q \in Int : x = q * M + (x % M)
<1>1. x \div M \in Int
  OBVIOUS
<1>2. x = M * (x \div M) + (x % M)
  OBVIOUS
<1>3. x = (x \div M) * M + (x % M)
  BY <1>1, <1>2
<1> QED BY <1>1, <1>3

LEMMA ModSame ==
  ASSUME NEW M \in Int, M > 0, NEW x \in Int, NEW y \in Int, NEW q \in Int,
         x = q * M + y
  PROVE  x % M = y % M
<1>1. PICK k \in Int : y = k * M + (y % M)
  BY ModWitness
<1>2. y % M \in 0 .. M - 1
  BY ModRange
<1> DEFINE z == y % M
           t == q + k
<1>3. z \in 0 .. M - 1 /\ z \in Int /\ t \in Int /\ y = k * M + z
  BY <1>1, <1>2
<1> HIDE DEF z
<1>4. x = t * M + z
  BY <1>3
<1> HIDE DEF t
<1>5. x % M = z
  BY <1>3, <1>4, ModIs
<1> QED BY <1>5 DEF z

Ring(M, N, x, y) ==
  M \in Int /\ M > 0 /\ N \in Int /\ N > 0 /\ N % M = 0 /\ x \in Int /\ y \in Int

LEMMA ModMod ==
  ASSUME NEW M, NEW N, NEW x, Ring(M, N, x, 0)
  PROVE  (x % N) % M = x % M
<1> USE DEF Ring
<1>1. PICK k \in Int : N = k * M + 0
  BY ModWitness
<1>2. PICK q \in Int : x = q * N + (x % N)
  BY ModWitness
<1>3. x % N \in Int
  BY ModRange
<1> DEFINE z == x % N
           t == q * k
<1>4. x = q * N + z /\ z \in Int /\ t \in Int
  BY <1>2, <1>3
<1> HIDE DEF z
<1>5. q * N = (q * k) * M
  BY <1>1
<1>6. x = t * M + z
  BY <1>4, <1>5
<1>7. z \in Int /\ t \in Int
  BY <1>4
<1> HIDE DEF t
<1>8. x % M = z % M
  BY <1>6, <1>7, ModSame, Zenon
<1> QED BY <1>8 DEF z

(* (x + n) % N and (x - n) % N stand for x + n and x - n in a difference.  *)
LEMMA ModInner ==
  ASSUME NEW M \in Int, M > 0, NEW x \in Int, NEW y \in Int
  PROVE  /\ ((x % M) + y) % M = (x + y) % M
         /\ (y - (x % M)) % M = (y - x) % M
<1>1. PICK q \in Int : x = q * M + (x % M)
  BY ModWitness
<1> DEFINE z == x % M
<1>2. z \in Int /\ x = q * M + z
  BY <1>1, ModRange
<1> HIDE DEF z
<1> DEFINE a == x + y  b == z + y  c == y - x  d == y - z  n == -q
<1>3. a \in Int /\ b \in Int /\ c \in Int /\ d \in Int /\ n \in Int
  BY <1>2
<1>4. a = q * M + b /\ c = n * M + d
  BY <1>2
<1> HIDE DEF a, b, c, d, n
<1>5. a % M = b % M
  BY <1>3, <1>4, ModSame, Zenon
<1>6. c % M = d % M
  BY <1>3, <1>4, ModSame, Zenon
<1> QED BY <1>5, <1>6 DEF a, b, c, d, z

LEMMA RingInner ==
  ASSUME NEW M, NEW N, NEW x, NEW y, Ring(M, N, x, y)
  PROVE  ((x % N) + y) % M = (x + y) % M
<1> DEFINE z == x % N
<1>0. Ring(M, N, x, 0)
  BY DEF Ring
<1>1. z \in Int /\ z % M = x % M
  <2>1. x % N \in Int
    BY ModRange DEF Ring
  <2> QED BY <1>0, <2>1, ModMod
<1> HIDE DEF z
<1> USE DEF Ring
<1>2. (z + y) % M = ((z % M) + y) % M
  BY <1>1, ModInner, Zenon
<1>3. (x + y) % M = ((x % M) + y) % M
  BY ModInner, Zenon
<1> QED BY <1>1, <1>2, <1>3 DEF z

(* What a counter shows ahead of another, after either of them advances.   *)
LEMMA RingCount ==
  ASSUME NEW N, NEW hi, NEW lo, NEW n \in Nat, Ring(N, N, hi, lo)
  PROVE  LET c == (hi - lo) % N IN
         /\ c + n < N => (((hi + n) % N) - lo) % N = c + n
         /\ n <= c => (hi - ((lo + n) % N)) % N = c - n
<1> USE DEF Ring
<1> DEFINE c == (hi - lo) % N
<1>1. c \in 0 .. N - 1 /\ c \in Int
  BY ModRange
<1>2. (((hi + n) % N) - lo) % N = (hi + n - lo) % N
  <2>1. -lo \in Int /\ hi + n \in Int /\ \A z \in Int : z + (-lo) = z - lo
    OBVIOUS
  <2>2. (hi + n) % N \in Int
    BY <2>1, ModRange
  <2>3. (((hi + n) % N) + (-lo)) % N = (hi + n + (-lo)) % N
    BY <2>1, ModInner, Zenon
  <2> QED BY <2>1, <2>2, <2>3
<1>3. (hi - ((lo + n) % N)) % N = (hi - (lo + n)) % N
  <2>1. lo + n \in Int
    OBVIOUS
  <2> QED BY <2>1, ModInner, Zenon
<1>4. PICK q \in Int : hi - lo = q * N + c
  BY ModWitness
<1> HIDE DEF c
<1>5. hi + n - lo = q * N + (c + n) /\ hi - (lo + n) = q * N + (c - n)
  BY <1>1, <1>4
<1>6. c + n < N => (hi + n - lo) % N = c + n
  BY <1>1, <1>5, ModIs
<1>7. n <= c => (hi - (lo + n)) % N = c - n
  BY <1>1, <1>5, ModIs
<1> QED BY <1>2, <1>3, <1>6, <1>7 DEF c

(* The slots of a ring: the k-th one after lo is ahead of the first free    *)
(* one, hi, by what is left of the buffer.                                  *)
RingAt(M, N, hi, lo, k, c) ==
  /\ M \in Int /\ M > 0 /\ N \in Int /\ N > 0 /\ N % M = 0
  /\ hi \in Int /\ lo \in Int /\ k \in Nat /\ c \in Int
  /\ c = (hi - lo) % N /\ k < c /\ c <= M

LEMMA RingSlot ==
  ASSUME NEW M, NEW N, NEW hi, NEW lo, NEW k, NEW c, RingAt(M, N, hi, lo, k, c)
  PROVE  (((lo + k) % M) - hi) % M = M - c + k
<1> USE DEF RingAt
<1>1. PICK q \in Int : hi - lo = q * N + c
  BY ModWitness
<1>2. PICK j \in Int : N = j * M + 0
  BY ModWitness
<1>3. (((lo + k) % M) - hi) % M = (lo + k - hi) % M
  <2>1. -hi \in Int /\ lo + k \in Int /\ \A z \in Int : z + (-hi) = z - hi
    OBVIOUS
  <2>2. (lo + k) % M \in Int
    BY <2>1, ModRange
  <2>3. (((lo + k) % M) + (-hi)) % M = (lo + k + (-hi)) % M
    <3> DEFINE x == lo + k
               y == -hi
    <3>1. M \in Int /\ M > 0 /\ x \in Int /\ y \in Int
      BY <2>1
    <3> HIDE DEF x, y, RingAt
    <3>2. ((x % M) + y) % M = (x + y) % M
      BY <3>1, ModInner, Zenon
    <3> QED BY <3>2 DEF x, y
  <2> QED BY <2>1, <2>2, <2>3
<1>4. q * N = (q * j) * M
  BY <1>2
<1>5. lo + k - hi = k - c - (q * j) * M /\ q * j \in Int
  BY <1>1, <1>4
<1> DEFINE t == q * j
<1>6. -t - 1 \in Int /\ M - c + k \in 0 .. M - 1 /\ lo + k - hi \in Int
  BY <1>5
<1> HIDE DEF t
<1>7. lo + k - hi = (-t - 1) * M + (M - c + k)
  <2>1. lo + k - hi = k - c - t * M /\ t \in Int
    BY <1>5 DEF t
  <2> QED BY <2>1
<1>8. (lo + k - hi) % M = M - c + k
  <2> DEFINE a == lo + k - hi  b == M - c + k  s == -t - 1
  <2>1. a \in Int /\ b \in 0 .. M - 1 /\ s \in Int /\ a = s * M + b
    BY <1>6, <1>7
  <2> HIDE DEF a, b, s
  <2>2. a % M = b
    BY <2>1, ModIs
  <2> QED BY <2>2 DEF a, b
<1> QED BY <1>3, <1>8

-----------------------------------------------------------------------------
(* Prefixes and suffixes, by their elements.                               *)
LEMMA PrefixIf ==
  ASSUME NEW T, NEW s \in Seq(T), NEW t \in Seq(T), Len(s) <= Len(t),
         \A k \in 1 .. Len(s) : s[k] = t[k]
  PROVE  \E n \in 0 .. Len(t) : s = SubSeq(t, 1, n)
<1>1. Len(s) \in 0 .. Len(t)
  OBVIOUS
<1>2. s = SubSeq(t, 1, Len(s))
  OBVIOUS
<1> QED BY <1>1, <1>2, Zenon

LEMMA SameSeq ==
  ASSUME NEW X, NEW s \in Seq(X), NEW t \in Seq(X), Len(s) = Len(t),
         \A k \in 1 .. Len(s) : s[k] = t[k]
  PROVE  s = t
OBVIOUS

LEMMA SuffixIf ==
  ASSUME NEW T, NEW s \in Seq(T), NEW t \in Seq(T), Len(s) <= Len(t),
         \A k \in 1 .. Len(s) : s[k] = t[Len(t) - Len(s) + k]
  PROVE  \E n \in 0 .. Len(t) : s = SubSeq(t, n + 1, Len(t))
<1> DEFINE n == Len(t) - Len(s)
<1>1. n \in 0 .. Len(t) /\ n \in Nat /\ Len(s) = Len(t) - n
  OBVIOUS
<1> HIDE DEF n
<1>2. s = SubSeq(t, n + 1, Len(t))
  <2>1. Len(SubSeq(t, n + 1, Len(t))) = Len(s) /\ SubSeq(t, n + 1, Len(t)) \in Seq(T)
    BY <1>1
  <2>2. \A k \in 1 .. Len(s) : SubSeq(t, n + 1, Len(t))[k] = t[n + k]
    BY <1>1
  <2>3. \A k \in 1 .. Len(s) : s[k] = t[n + k]
    BY DEF n
  <2> QED BY <2>1, <2>2, <2>3, SameSeq, Zenon
<1> QED BY <1>1, <1>2

-----------------------------------------------------------------------------
(* sys_sleep() and clockintr().                                            *)

ClockTypeOK ==
  /\ ticks \in 0 .. TICKMOD - 1
  /\ sleeper \in [ClockProc -> [pc: {"idle", "test", "asleep", "done"}, n: 0 .. MaxSleep,
                                ticks0: 0 .. TICKMOD - 1]]
  /\ ckill \subseteq ClockProc
  /\ since \in [ClockProc -> 0 .. TICKMOD - 1]

(* The ticks from the value y of the counter to its value x.               *)
Elapsed(x, y) == IF x >= y THEN x - y ELSE x - y + TICKMOD

(* What the inductive argument needs: while a process is in its loop, the  *)
(* unsigned difference that it tests is the number of ticks since its      *)
(* call, on whichever side of a wrap ticks and ticks0 are.                 *)
ElapsedAgrees ==
  \A p \in ClockProc : sleeper[p].pc \in {"test", "asleep"} =>
    since[p] = Elapsed(ticks, sleeper[p].ticks0)

ClockInv == ClockTypeOK /\ ElapsedAgrees /\ SleepsLongEnough

(* The arithmetic of a wrapping counter: one above it, and the difference  *)
(* of two of its values.                                                   *)
LEMMA Wraps ==
  ASSUME NEW M \in Int, M > 0, NEW x \in 0 .. M - 1, NEW y \in 0 .. M - 1
  PROVE  /\ (x + 1) % M = IF x + 1 = M THEN 0 ELSE x + 1
         /\ (x - y) % M = IF x >= y THEN x - y ELSE x - y + M
<1>1. (x + 1) % M = IF x + 1 = M THEN 0 ELSE x + 1
  OBVIOUS
<1>2. CASE x >= y
  BY <1>1, <1>2
<1>3. CASE x < y
  BY <1>1, <1>3
<1> QED BY <1>2, <1>3

(* The elapsed ticks go up by one with each tick, short of a whole turn.   *)
LEMMA ElapsedTicks ==
  ASSUME NEW x \in 0 .. TICKMOD - 1, NEW y \in 0 .. TICKMOD - 1,
         Elapsed(x, y) < TICKMOD - 1
  PROVE  Elapsed(IF x + 1 = TICKMOD THEN 0 ELSE x + 1, y) = Elapsed(x, y) + 1
BY ClockAssumption DEF Elapsed

LEMMA ClockInitOK == ClockInit => ClockInv
BY ClockAssumption DEF ClockInit, ClockInv, ClockTypeOK, ElapsedAgrees, SleepsLongEnough

LEMMA ClockNextOK == ClockInv /\ [ClockNext]_clockVars => ClockInv'
<1> SUFFICES ASSUME ClockInv, [ClockNext]_clockVars PROVE ClockInv'
  OBVIOUS
<1> USE ClockAssumption DEF ClockInv, ClockTypeOK
<1>1. CASE clockintr
  <2>1. ticks' = IF ticks + 1 = TICKMOD THEN 0 ELSE ticks + 1
    BY <1>1, Wraps DEF clockintr
  <2>2. ClockTypeOK'
    BY <1>1, <2>1 DEF clockintr, Wake
  <2>3. ASSUME NEW p \in ClockProc
        PROVE  /\ sleeper'[p].n = sleeper[p].n /\ sleeper'[p].ticks0 = sleeper[p].ticks0
               /\ sleeper'[p].pc = IF sleeper[p].pc = "asleep" THEN "test" ELSE sleeper[p].pc
               /\ since'[p] = IF since[p] < TICKMOD - 1 THEN since[p] + 1 ELSE since[p]
    BY <1>1 DEF clockintr, Wake
  <2>4. ElapsedAgrees'
    <3>1. SUFFICES ASSUME NEW p \in ClockProc, sleeper[p].pc \in {"test", "asleep"}
                   PROVE  since'[p] = Elapsed(ticks', sleeper[p].ticks0)
      BY <2>3 DEF ElapsedAgrees
    <3>2. since[p] < TICKMOD - 1
      BY <1>1, <3>1 DEF clockintr, InTime, SleepsLongEnough
    <3>3. since[p] = Elapsed(ticks, sleeper[p].ticks0)
      BY <3>1 DEF ElapsedAgrees
    <3>4. sleeper[p].ticks0 \in 0 .. TICKMOD - 1 /\ since[p] \in 0 .. TICKMOD - 1
      OBVIOUS
    <3>5. Elapsed(ticks', sleeper[p].ticks0) = since[p] + 1
      BY <2>1, <3>2, <3>3, <3>4, ElapsedTicks
    <3> QED BY <2>3, <3>2, <3>5
  <2>5. SleepsLongEnough'
    BY <2>2, <2>3 DEF SleepsLongEnough
  <2> QED BY <2>2, <2>4, <2>5
<1>2. ASSUME NEW p \in ClockProc, NEW n \in -1 .. MaxSleep, sys_sleep(p, n) PROVE ClockInv'
  BY <1>2 DEF sys_sleep, Elapsed, ElapsedAgrees, SleepsLongEnough
<1>3. ASSUME NEW p \in ClockProc, SleepLoop(p) PROVE ClockInv'
  <2>1. TooEarly(p) <=> since[p] < sleeper[p].n
    <3>1. (ticks - sleeper[p].ticks0) % TICKMOD = Elapsed(ticks, sleeper[p].ticks0)
      BY Wraps DEF Elapsed
    <3> QED BY <1>3, <3>1 DEF SleepLoop, TooEarly, ElapsedAgrees
  <2> QED BY <1>3, <2>1 DEF SleepLoop, ElapsedAgrees, SleepsLongEnough
<1>4. ASSUME NEW p \in ClockProc, SleepReturns(p) PROVE ClockInv'
  BY <1>4 DEF SleepReturns, ElapsedAgrees, SleepsLongEnough
<1>5. ASSUME NEW p \in ClockProc, killSleeping(p) PROVE ClockInv'
  BY <1>5 DEF killSleeping, Wake, ElapsedAgrees, SleepsLongEnough
<1>6. CASE UNCHANGED clockVars
  BY <1>6 DEF clockVars, ElapsedAgrees, SleepsLongEnough
<1> QED BY <1>1, <1>2, <1>3, <1>4, <1>5, <1>6 DEF ClockNext

(* sys_sleep(): a call that was not cut short by a kill lasted at least as *)
(* many clock interrupts as it was asked for, for every width of ticks and *)
(* every number of processes.                                              *)
THEOREM SleepLastsLongEnough == ClockSpec => []SleepsLongEnough
<1>1. ClockInv => SleepsLongEnough
  BY DEF ClockInv
<1> QED BY <1>1, ClockInitOK, ClockNextOK, PTL DEF ClockSpec

-----------------------------------------------------------------------------
(* The console: the circular buffer with its three wrapping indices is a   *)
(* terminal (Terminal), and every ^D ends exactly one read with 0 bytes.   *)

(* The k-th character from r on.                                           *)
Cell(k) == cbuf[(r + k) % INPUT_BUF_SIZE]

ConsTypeOK ==
  /\ r \in 0 .. CONSMOD - 1 /\ w \in 0 .. CONSMOD - 1 /\ e \in 0 .. CONSMOD - 1
  /\ cbuf \in [0 .. INPUT_BUF_SIZE - 1 -> Letters]
  /\ reader \in [ConsProc -> [state: {"idle", "ready", "locked", "asleep"},
                              n: 0 .. MaxRead, target: 0 .. MaxRead]]
  /\ zeros \in Nat /\ eofs \in Nat

(* A read in progress has bytes to go, and never more than it asked for.   *)
ReadsOK == \A p \in ConsProc : reader[p].state # "idle" =>
             1 <= reader[p].n /\ reader[p].n <= reader[p].target

(* w is between r and e, and they are no further apart than the buffer.    *)
IndicesOrdered ==
  /\ Diff(e, r) = Diff(w, r) + Diff(e, w)
  /\ Diff(e, r) <= INPUT_BUF_SIZE

(* ^D is entered as soon as it is typed.                                   *)
NoEofTyped == \A k \in Diff(w, r) .. Diff(e, r) - 1 : Cell(k) # "^D"

BufInv  == ConsTypeOK /\ IndicesOrdered
ConsInv == BufInv /\ ReadsOK /\ NoEofTyped /\ EofDelivered

-----------------------------------------------------------------------------
(* Arithmetic of the indices.                                              *)

LEMMA ConsConst ==
  /\ INPUT_BUF_SIZE \in Int /\ INPUT_BUF_SIZE > 0 /\ CONSMOD \in Int /\ CONSMOD > 0
  /\ CONSMOD % INPUT_BUF_SIZE = 0 /\ INPUT_BUF_SIZE < CONSMOD
  /\ MaxRead \in Nat
BY ConsAssumption

LEMMA DiffType ==
  ASSUME NEW a \in Int, NEW b \in Int
  PROVE  Diff(a, b) \in 0 .. CONSMOD - 1
<1>1. a - b \in Int
  OBVIOUS
<1> QED BY <1>1, ConsConst, ModRange DEF Diff

(* An index that goes back.                                                *)
LEMMA RingBack ==
  ASSUME NEW N, NEW hi, NEW lo, NEW n \in Nat, Ring(N, N, hi, lo), n <= (hi - lo) % N
  PROVE  (((hi - n) % N) - lo) % N = ((hi - lo) % N) - n
<1> USE DEF Ring
<1> DEFINE c == (hi - lo) % N
<1>1. c \in 0 .. N - 1 /\ c \in Int
  BY ModRange
<1>2. (((hi - n) % N) - lo) % N = (hi - n - lo) % N
  <2>1. -lo \in Int /\ hi - n \in Int /\ \A z \in Int : z + (-lo) = z - lo
    OBVIOUS
  <2>2. (hi - n) % N \in Int
    BY <2>1, ModRange
  <2>3. (((hi - n) % N) + (-lo)) % N = (hi - n + (-lo)) % N
    BY <2>1, ModInner, Zenon
  <2> QED BY <2>1, <2>2, <2>3
<1>3. PICK q \in Int : hi - lo = q * N + c
  BY ModWitness
<1> HIDE DEF c
<1>4. hi - n - lo = q * N + (c - n)
  BY <1>1, <1>3
<1>5. n <= c
  BY DEF c
<1>6. (hi - n - lo) % N = c - n
  BY <1>1, <1>4, <1>5, ModIs
<1> QED BY <1>2, <1>6 DEF c

(* hi is as far from lo as their difference says.                          *)
LEMMA RingUp ==
  ASSUME NEW N, NEW hi, NEW lo, Ring(N, N, hi, lo), hi \in 0 .. N - 1
  PROVE  hi = (lo + ((hi - lo) % N)) % N
<1> USE DEF Ring
<1> DEFINE c == (hi - lo) % N
<1>1. c \in 0 .. N - 1 /\ c \in Int
  BY ModRange
<1>2. PICK q \in Int : hi - lo = q * N + c
  BY ModWitness
<1> HIDE DEF c
<1>3. lo + c \in Int /\ -q \in Int /\ lo + c = (-q) * N + hi
  BY <1>1, <1>2
<1>4. (lo + c) % N = hi
  BY <1>3, ModIs, Zenon
<1> QED BY <1>4 DEF c

(* The slot where the next character goes holds none of the others.        *)
LEMMA RingFree ==
  ASSUME NEW M, NEW N, NEW hi, NEW lo, NEW k, NEW c, RingAt(M, N, hi, lo, k, c)
  PROVE  c < M => (lo + k) % M # hi % M
<1>1. (((lo + k) % M) - hi) % M = M - c + k
  BY RingSlot
<1> USE DEF RingAt
<1> SUFFICES ASSUME c < M, (lo + k) % M = hi % M PROVE FALSE
  OBVIOUS
<1>2. ((hi % M) - hi) % M = 0
  <2>1. ((hi % M) + (-hi)) % M = (hi + (-hi)) % M
    <3>1. -hi \in Int
      OBVIOUS
    <3> QED BY <3>1, ModInner, Zenon
  <2>2. hi + (-hi) = 0 /\ 0 % M = 0 /\ hi % M \in Int /\ \A z \in Int : z + (-hi) = z - hi
    BY ModRange
  <2> QED BY <2>1, <2>2
<1>3. M - c + k = 0
  BY <1>1, <1>2
<1> QED BY <1>3

LEMMA IndexTypes ==
  ASSUME BufInv
  PROVE  /\ r \in Int /\ w \in Int /\ e \in Int
         /\ r \in 0 .. CONSMOD - 1 /\ w \in 0 .. CONSMOD - 1 /\ e \in 0 .. CONSMOD - 1
         /\ cbuf \in [0 .. INPUT_BUF_SIZE - 1 -> Letters]
         /\ Diff(w, r) \in Nat /\ Diff(e, w) \in Nat /\ Diff(e, r) \in Nat
         /\ Diff(e, r) = Diff(w, r) + Diff(e, w) /\ Diff(e, r) <= INPUT_BUF_SIZE
         /\ Ring(CONSMOD, CONSMOD, w, r) /\ Ring(CONSMOD, CONSMOD, e, w)
         /\ Ring(CONSMOD, CONSMOD, e, r)
<1>1. /\ r \in Int /\ w \in Int /\ e \in Int
      /\ r \in 0 .. CONSMOD - 1 /\ w \in 0 .. CONSMOD - 1 /\ e \in 0 .. CONSMOD - 1
  BY ConsConst DEF BufInv, ConsTypeOK
<1>2. Diff(w, r) \in Nat /\ Diff(e, w) \in Nat /\ Diff(e, r) \in Nat
  BY <1>1, DiffType
<1>3. CONSMOD % CONSMOD = 0
  BY ConsConst
<1> QED BY <1>1, <1>2, <1>3, ConsConst DEF BufInv, ConsTypeOK, IndicesOrdered, Ring

-----------------------------------------------------------------------------
(* The two stretches of the buffer, by their characters.                   *)

SpanFacts ==
  /\ Span(r, w) \in Seq(Letters) /\ Len(Span(r, w)) = Diff(w, r)
  /\ \A k \in 1 .. Diff(w, r) : Span(r, w)[k] = Cell(k - 1)
  /\ Span(w, e) \in Seq(Letters) /\ Len(Span(w, e)) = Diff(e, w)
  /\ \A k \in 1 .. Diff(e, w) : Span(w, e)[k] = Cell(Diff(w, r) + k - 1)
  /\ Diff(w, r) \in Nat /\ Diff(e, w) \in Nat /\ Diff(e, r) \in Nat
  /\ Diff(e, r) = Diff(w, r) + Diff(e, w) /\ Diff(e, r) <= INPUT_BUF_SIZE

LEMMA CellType ==
  ASSUME BufInv, NEW k \in Int
  PROVE  Cell(k) \in Letters
<1>1. r + k \in Int
  BY IndexTypes
<1>2. (r + k) % INPUT_BUF_SIZE \in 0 .. INPUT_BUF_SIZE - 1
  BY <1>1, ConsConst, ModRange
<1> QED BY <1>2, IndexTypes DEF Cell

LEMMA SpanIs == BufInv => SpanFacts
<1> SUFFICES ASSUME BufInv PROVE SpanFacts
  OBVIOUS
<1>1. ASSUME NEW x \in Int
      PROVE  CharAt(x % CONSMOD) = cbuf[x % INPUT_BUF_SIZE]
  <2>1. Ring(INPUT_BUF_SIZE, CONSMOD, x, 0)
    BY ConsConst DEF Ring
  <2>2. (x % CONSMOD) % INPUT_BUF_SIZE = x % INPUT_BUF_SIZE
    BY <2>1, ModMod
  <2> QED BY <2>2 DEF CharAt
<1>2. ASSUME NEW k \in 1 .. Diff(w, r)
      PROVE  CharAt((r + k - 1) % CONSMOD) = Cell(k - 1)
  <2>1. r + k - 1 \in Int /\ r + k - 1 = r + (k - 1)
    BY IndexTypes
  <2>2. CharAt((r + k - 1) % CONSMOD) = cbuf[(r + k - 1) % INPUT_BUF_SIZE]
    BY <1>1, <2>1
  <2> QED BY <2>1, <2>2 DEF Cell
<1>3. ASSUME NEW k \in 1 .. Diff(e, w)
      PROVE  CharAt((w + k - 1) % CONSMOD) = Cell(Diff(w, r) + k - 1)
  <2> DEFINE a == r + Diff(w, r)
             b == k - 1
  <2>1. /\ w + k - 1 \in Int /\ w + k - 1 = w + b /\ a \in Int /\ b \in Int
        /\ r + (Diff(w, r) + k - 1) = a + b
    BY IndexTypes
  <2>2. w = a % CONSMOD
    BY IndexTypes, RingUp DEF Diff
  <2> HIDE DEF a, b
  <2>3. Ring(INPUT_BUF_SIZE, CONSMOD, a, b)
    BY <2>1, ConsConst DEF Ring
  <2>4. ((a % CONSMOD) + b) % INPUT_BUF_SIZE = (a + b) % INPUT_BUF_SIZE
    BY <2>3, RingInner
  <2>5. CharAt((w + k - 1) % CONSMOD) = cbuf[(w + k - 1) % INPUT_BUF_SIZE]
    BY <1>1, <2>1
  <2> QED BY <2>1, <2>2, <2>4, <2>5 DEF Cell
<1>4. /\ \A k \in 1 .. Diff(w, r) : Cell(k - 1) \in Letters
      /\ \A k \in 1 .. Diff(e, w) : Cell(Diff(w, r) + k - 1) \in Letters
  <2>1. ASSUME NEW k \in 1 .. Diff(w, r) PROVE Cell(k - 1) \in Letters
    BY CellType
  <2>2. ASSUME NEW k \in 1 .. Diff(e, w) PROVE Cell(Diff(w, r) + k - 1) \in Letters
    <3>1. Diff(w, r) + k - 1 \in Int
      BY IndexTypes
    <3> QED BY <3>1, CellType
  <2> QED BY <2>1, <2>2
<1>5. /\ Span(r, w) \in Seq(Letters) /\ Len(Span(r, w)) = Diff(w, r)
      /\ \A k \in 1 .. Diff(w, r) : Span(r, w)[k] = Cell(k - 1)
  BY <1>2, <1>4, IndexTypes DEF Span
<1>6. /\ Span(w, e) \in Seq(Letters) /\ Len(Span(w, e)) = Diff(e, w)
      /\ \A k \in 1 .. Diff(e, w) : Span(w, e)[k] = Cell(Diff(w, r) + k - 1)
  BY <1>3, <1>4, IndexTypes DEF Span
<1> QED BY <1>5, <1>6, IndexTypes DEF SpanFacts

LEMMA SpanNext == BufInv' => SpanFacts'
BY SpanIs, PTL

(* A character is stored behind the others.                                *)
LEMMA StoreCells ==
  ASSUME BufInv, ~ Full, NEW c,
         cbuf' = [cbuf EXCEPT ![e % INPUT_BUF_SIZE] = c], r' = r,
         e' = (e + 1) % CONSMOD
  PROVE  /\ Diff(e', r) = Diff(e, r) + 1 /\ Diff(e', w) = Diff(e, w) + 1
         /\ Diff(e', e') = 0 /\ e' \in 0 .. CONSMOD - 1
         /\ \A k \in 0 .. Diff(e, r) - 1 : Cell(k)' = Cell(k)
         /\ \A k \in Nat : k = Diff(e, r) => Cell(k)' = c
<1>1. Diff(e, r) < INPUT_BUF_SIZE
  BY IndexTypes, ConsConst DEF Full
<1>2. Diff(e', r) = Diff(e, r) + 1 /\ Diff(e', w) = Diff(e, w) + 1
  <2>1. Diff(e, r) + 1 < CONSMOD /\ Diff(e, w) + 1 < CONSMOD /\ 1 \in Nat
    BY <1>1, IndexTypes, ConsConst
  <2>2. (((e + 1) % CONSMOD) - r) % CONSMOD = Diff(e, r) + 1
    BY <2>1, IndexTypes, RingCount DEF Diff
  <2>3. (((e + 1) % CONSMOD) - w) % CONSMOD = Diff(e, w) + 1
    BY <2>1, IndexTypes, RingCount DEF Diff
  <2> QED BY <2>2, <2>3 DEF Diff
<1>3. e' \in 0 .. CONSMOD - 1
  <2>1. e + 1 \in Int
    BY IndexTypes
  <2> QED BY <2>1, ConsConst, ModRange
<1>4. Diff(e', e') = 0
  BY <1>3, ConsConst DEF Diff
<1>5. ASSUME NEW k \in 0 .. Diff(e, r) - 1 PROVE Cell(k)' = Cell(k)
  <2>1. RingAt(INPUT_BUF_SIZE, CONSMOD, e, r, k, Diff(e, r))
    BY <1>1, IndexTypes, ConsConst DEF RingAt, Diff
  <2>2. (r + k) % INPUT_BUF_SIZE # e % INPUT_BUF_SIZE
    BY <1>1, <2>1, RingFree
  <2>3. (r + k) % INPUT_BUF_SIZE \in 0 .. INPUT_BUF_SIZE - 1
    <3>1. r + k \in Int
      BY IndexTypes
    <3> QED BY <3>1, ConsConst, ModRange
  <2> QED BY <2>2, <2>3, IndexTypes DEF Cell
<1>6. ASSUME NEW k \in Nat, k = Diff(e, r) PROVE Cell(k)' = c
  <2>1. r + k \in Int /\ e = (r + k) % CONSMOD
    BY <1>6, IndexTypes, RingUp DEF Diff
  <2>2. Ring(INPUT_BUF_SIZE, CONSMOD, r + k, 0)
    BY <2>1, ConsConst DEF Ring
  <2>3. e % INPUT_BUF_SIZE = (r + k) % INPUT_BUF_SIZE
    BY <2>1, <2>2, ModMod
  <2>4. e % INPUT_BUF_SIZE \in 0 .. INPUT_BUF_SIZE - 1
    BY IndexTypes, ConsConst, ModRange
  <2>5. Cell(k)' = cbuf'[(r + k) % INPUT_BUF_SIZE]
    BY DEF Cell
  <2> QED BY <2>3, <2>4, <2>5, IndexTypes
<1> QED BY <1>2, <1>3, <1>4, <1>5, <1>6

(* The line is shortened by n characters.                                  *)
LEMMA EditBack ==
  ASSUME BufInv, NEW n \in 0 .. Diff(e, w), e' = (e - n) % CONSMOD
  PROVE  /\ Diff(e', w) = Diff(e, w) - n /\ Diff(e', r) = Diff(e, r) - n
         /\ e' \in 0 .. CONSMOD - 1
<1>1. n \in Nat /\ n <= Diff(e, w) /\ n <= Diff(e, r) /\ e - n \in Int
  BY IndexTypes
<1>2. (((e - n) % CONSMOD) - w) % CONSMOD = Diff(e, w) - n
  BY <1>1, IndexTypes, RingBack DEF Diff
<1>3. (((e - n) % CONSMOD) - r) % CONSMOD = Diff(e, r) - n
  BY <1>1, IndexTypes, RingBack DEF Diff
<1>4. (e - n) % CONSMOD \in 0 .. CONSMOD - 1
  BY <1>1, ConsConst, ModRange
<1> QED BY <1>2, <1>3, <1>4 DEF Diff

(* ^U goes back to a new line or to w, wherever the first of them is.      *)
LEMMA KillToIn ==
  ASSUME BufInv
  PROVE  KillTo \in 0 .. Diff(e, w)
<1> DEFINE d == Diff(e, w)
           Stop(k) == k = d \/ CharAt((e - k - 1) % CONSMOD) = "\n"
           S == {k \in 0 .. d : Stop(k)}
<1>1. d \in Nat /\ e \in Int
  BY IndexTypes
<1> HIDE DEF d
<1>2. S \in SUBSET Nat /\ d \in S
  BY <1>1
<1>3. PICK x \in S : \A y \in S : x <= y
  BY <1>2, LeastNat, Zenon
<1>4. ASSUME NEW j \in 1 .. x PROVE CharAt((e - j) % CONSMOD) # "\n"
  <2>1. j - 1 \in 0 .. d /\ j - 1 < x /\ e - (j - 1) - 1 = e - j
    BY <1>1, <1>3
  <2>2. j - 1 \notin S
    BY <1>3, <2>1
  <2> QED BY <2>1, <2>2
<1>5. x \in 0 .. d /\ (x = d \/ CharAt((e - x - 1) % CONSMOD) = "\n")
  BY <1>3
<1>6. \E k \in 0 .. d :
        /\ \A j \in 1 .. k : CharAt((e - j) % CONSMOD) # "\n"
        /\ k = d \/ CharAt((e - k - 1) % CONSMOD) = "\n"
  BY <1>4, <1>5, Zenon
<1> QED BY <1>6, Zenon DEF KillTo, d

(* A character leaves at the other end.                                    *)
LEMMA TakeCells ==
  ASSUME BufInv, r # w, r' = (r + 1) % CONSMOD, cbuf' = cbuf
  PROVE  /\ Diff(w, r) >= 1
         /\ Diff(w, r') = Diff(w, r) - 1 /\ Diff(e, r') = Diff(e, r) - 1
         /\ r' \in 0 .. CONSMOD - 1
         /\ \A k \in Nat : Cell(k)' = Cell(k + 1)
<1>1. Diff(w, r) >= 1
  <2>1. Diff(w, r) # 0
    <3>1. SUFFICES ASSUME Diff(w, r) = 0 PROVE FALSE
      OBVIOUS
    <3>2. w = (r + 0) % CONSMOD
      BY <3>1, IndexTypes, RingUp DEF Diff
    <3>3. (r + 0) % CONSMOD = r
      BY IndexTypes, ConsConst
    <3> QED BY <3>2, <3>3
  <2> QED BY <2>1, IndexTypes
<1>2. 1 \in Nat /\ 1 <= Diff(w, r) /\ 1 <= Diff(e, r) /\ r + 1 \in Int
  BY <1>1, IndexTypes
<1>3. (w - ((r + 1) % CONSMOD)) % CONSMOD = Diff(w, r) - 1
  BY <1>2, IndexTypes, RingCount DEF Diff
<1>4. (e - ((r + 1) % CONSMOD)) % CONSMOD = Diff(e, r) - 1
  BY <1>2, IndexTypes, RingCount DEF Diff
<1>5. r' \in 0 .. CONSMOD - 1
  BY <1>2, ConsConst, ModRange
<1>6. ASSUME NEW k \in Nat PROVE Cell(k)' = Cell(k + 1)
  <2> DEFINE a == r + 1
  <2>1. a \in Int /\ k \in Int /\ r + (k + 1) = a + k
    BY IndexTypes
  <2>2. r' = a % CONSMOD
    OBVIOUS
  <2> HIDE DEF a
  <2>3. Ring(INPUT_BUF_SIZE, CONSMOD, a, k)
    BY <2>1, ConsConst DEF Ring
  <2>4. ((a % CONSMOD) + k) % INPUT_BUF_SIZE = (a + k) % INPUT_BUF_SIZE
    BY <2>3, RingInner
  <2> QED BY <2>1, <2>2, <2>4 DEF Cell
<1> QED BY <1>1, <1>3, <1>4, <1>5, <1>6 DEF Diff

-----------------------------------------------------------------------------
(* Counting ^D.                                                            *)

Shifted(n, S, T) ==
  /\ n \in Nat /\ n >= 1 /\ S \in SUBSET (1 .. n) /\ T \in SUBSET (1 .. n - 1)
  /\ \A k \in 1 .. n - 1 : k \in T <=> k + 1 \in S

LEMMA DropFirst ==
  ASSUME NEW n, NEW S, NEW T, Shifted(n, S, T)
  PROVE  Cardinality(S) = Cardinality(T) + (IF 1 \in S THEN 1 ELSE 0)
<1> USE DEF Shifted
<1>1. IsFiniteSet(1 .. n) /\ IsFiniteSet(1 .. n - 1)
  <2>1. 1 \in Int /\ n \in Int /\ n - 1 \in Int
    OBVIOUS
  <2> QED BY <2>1, FS_Interval
<1>2. IsFiniteSet(S) /\ IsFiniteSet(T)
  BY <1>1, FS_Subset, Zenon
<1> DEFINE f == [k \in T |-> k + 1]
<1>3. f \in Bijection(T, S \ {1})
  <2>1. f \in [T -> S \ {1}]
    OBVIOUS
  <2>2. \A a, b \in T : f[a] = f[b] => a = b
    OBVIOUS
  <2>3. ASSUME NEW t \in S \ {1} PROVE \E s \in T : f[s] = t
    <3>1. t - 1 \in 1 .. n - 1 /\ (t - 1) + 1 = t
      OBVIOUS
    <3>2. t - 1 \in T
      BY <3>1
    <3> QED BY <3>1, <3>2
  <2> QED BY <2>1, <2>2, <2>3 DEF Bijection, Injection, Surjection, IsInjective
<1>4. Cardinality(S \ {1}) = Cardinality(T)
  BY <1>2, <1>3, FS_Bijection DEF ExistsBijection
<1>5. Cardinality(S \ {1}) = IF 1 \in S THEN Cardinality(S) - 1 ELSE Cardinality(S)
  BY <1>2, FS_RemoveElement, Zenon
<1>6. Cardinality(S) \in Nat
  BY <1>2, FS_CardinalityType
<1> QED BY <1>4, <1>5, <1>6

-----------------------------------------------------------------------------
(* What a step may do to the buffer: a character is stored, and perhaps    *)
(* entered with the line before it; the line is cut; a character is taken. *)

Stored(c, ent) ==
  /\ ~ Full
  /\ cbuf' = [cbuf EXCEPT ![e % INPUT_BUF_SIZE] = c]
  /\ e' = (e + 1) % CONSMOD /\ w' = (IF ent THEN e' ELSE w) /\ r' = r
Cut(n) == e' = (e - n) % CONSMOD /\ UNCHANGED <<cbuf, r, w>>
Taken  == r # w /\ r' = (r + 1) % CONSMOD /\ UNCHANGED <<cbuf, w, e>>

LEMMA StoredOK ==
  ASSUME BufInv, NEW c \in Letters, NEW ent \in BOOLEAN, Stored(c, ent)
  PROVE  /\ {r', w', e'} \subseteq 0 .. CONSMOD - 1
         /\ cbuf' \in [0 .. INPUT_BUF_SIZE - 1 -> Letters]
         /\ Diff(e', r') = Diff(e, r) + 1
         /\ Diff(w', r') = (IF ent THEN Diff(e, r) + 1 ELSE Diff(w, r))
         /\ Diff(e', w') = (IF ent THEN 0 ELSE Diff(e, w) + 1)
         /\ IndicesOrdered'
<1>1. /\ Diff(e', r) = Diff(e, r) + 1 /\ Diff(e', w) = Diff(e, w) + 1
      /\ Diff(e', e') = 0 /\ e' \in 0 .. CONSMOD - 1
  BY StoreCells, Zenon DEF Stored
<1>2. r' = r /\ w' = (IF ent THEN e' ELSE w)
  BY DEF Stored
<1>3. cbuf' \in [0 .. INPUT_BUF_SIZE - 1 -> Letters]
  BY IndexTypes, Zenon DEF Stored
<1>4. /\ Diff(e', r') = Diff(e, r) + 1
      /\ Diff(w', r') = (IF ent THEN Diff(e, r) + 1 ELSE Diff(w, r))
      /\ Diff(e', w') = (IF ent THEN 0 ELSE Diff(e, w) + 1)
  BY <1>1, <1>2
<1>5. Diff(e, r) < INPUT_BUF_SIZE
  BY IndexTypes, ConsConst DEF Stored, Full
<1>6. Diff(e', r') = Diff(w', r') + Diff(e', w') /\ Diff(e', r') <= INPUT_BUF_SIZE
  BY <1>4, <1>5, IndexTypes, ConsConst
<1> QED BY <1>1, <1>2, <1>3, <1>4, <1>6, IndexTypes DEF IndicesOrdered

LEMMA CutOK ==
  ASSUME BufInv, NEW n \in 0 .. Diff(e, w), Cut(n)
  PROVE  /\ e' \in 0 .. CONSMOD - 1
         /\ Diff(w', r') = Diff(w, r) /\ Diff(e', w') = Diff(e, w) - n
         /\ IndicesOrdered'
<1>1. /\ Diff(e', w) = Diff(e, w) - n /\ Diff(e', r) = Diff(e, r) - n
      /\ e' \in 0 .. CONSMOD - 1
  BY EditBack DEF Cut
<1>2. r' = r /\ w' = w
  BY DEF Cut
<1>3. Diff(e', r') = Diff(w', r') + Diff(e', w') /\ Diff(e', r') <= INPUT_BUF_SIZE
  BY <1>1, <1>2, IndexTypes, ConsConst
<1> QED BY <1>1, <1>2, <1>3 DEF IndicesOrdered

LEMMA TakenOK ==
  ASSUME BufInv, Taken
  PROVE  /\ r' \in 0 .. CONSMOD - 1
         /\ Diff(w', r') = Diff(w, r) - 1 /\ Diff(e', w') = Diff(e, w)
         /\ Diff(w, r) >= 1
         /\ IndicesOrdered'
<1>1. /\ Diff(w, r') = Diff(w, r) - 1 /\ Diff(e, r') = Diff(e, r) - 1
      /\ r' \in 0 .. CONSMOD - 1 /\ Diff(w, r) >= 1
  BY TakeCells DEF Taken
<1>2. e' = e /\ w' = w
  BY DEF Taken
<1>3. Diff(e', r') = Diff(w', r') + Diff(e', w') /\ Diff(e', r') <= INPUT_BUF_SIZE
  BY <1>1, <1>2, IndexTypes, ConsConst
<1> QED BY <1>1, <1>2, <1>3 DEF IndicesOrdered

LEMMA ConcatAt ==
  ASSUME NEW X, NEW s \in Seq(X), NEW t \in Seq(X)
  PROVE  /\ s \o t \in Seq(X) /\ Len(s \o t) = Len(s) + Len(t)
         /\ \A k \in 1 .. Len(s) : (s \o t)[k] = s[k]
         /\ \A k \in 1 .. Len(t) : (s \o t)[Len(s) + k] = t[k]
OBVIOUS

(* Each of them is a step of a terminal.                                   *)
LEMMA MovesAreTerminal ==
  ASSUME BufInv, BufInv',
         \/ \E c \in Letters, ent \in BOOLEAN : Stored(c, ent)
         \/ \E n \in 0 .. Diff(e, w) : Cut(n)
         \/ Taken
         \/ UNCHANGED <<cbuf, r, w, e>>
  PROVE  [Term!TermNext]_<<Span(r, w), Span(w, e)>>
<1> DEFINE S == Span(r, w)
           T == Span(w, e)
<1>1. /\ S \in Seq(Letters) /\ Len(S) = Diff(w, r)
      /\ \A k \in 1 .. Diff(w, r) : S[k] = Cell(k - 1)
      /\ T \in Seq(Letters) /\ Len(T) = Diff(e, w)
      /\ \A k \in 1 .. Diff(e, w) : T[k] = Cell(Diff(w, r) + k - 1)
      /\ Diff(w, r) \in Nat /\ Diff(e, w) \in Nat
      /\ Diff(e, r) = Diff(w, r) + Diff(e, w) /\ Diff(e, r) <= INPUT_BUF_SIZE
  BY SpanIs DEF SpanFacts
<1>2. /\ S' \in Seq(Letters) /\ Len(S') = Diff(w', r')
      /\ \A k \in 1 .. Diff(w', r') : S'[k] = Cell(k - 1)'
      /\ T' \in Seq(Letters) /\ Len(T') = Diff(e', w')
      /\ \A k, m \in Int : k \in 1 .. Diff(e', w') /\ m = Diff(w', r') + k - 1 => T'[k] = Cell(m)'
      /\ Diff(w', r') \in Nat /\ Diff(e', w') \in Nat
  <2>1. SpanFacts'
    BY SpanNext
  <2>2. ASSUME NEW k \in Int, NEW m \in Int, k \in 1 .. Diff(e', w'), m = Diff(w', r') + k - 1
        PROVE  T'[k] = Cell(m)'
    BY <2>1, <2>2 DEF SpanFacts, Cell
  <2>3. /\ S' \in Seq(Letters) /\ Len(S') = Diff(w', r')
        /\ \A k \in 1 .. Diff(w', r') : S'[k] = Cell(k - 1)'
        /\ T' \in Seq(Letters) /\ Len(T') = Diff(e', w')
        /\ Diff(w', r') \in Nat /\ Diff(e', w') \in Nat
    BY <2>1 DEF SpanFacts
  <2> QED BY <2>2, <2>3
<1>3. ASSUME NEW c \in Letters, NEW ent \in BOOLEAN, Stored(c, ent) PROVE Term!Type
  <2>1. /\ Diff(w', r') = (IF ent THEN Diff(e, r) + 1 ELSE Diff(w, r))
        /\ Diff(e', w') = (IF ent THEN 0 ELSE Diff(e, w) + 1)
    BY <1>3, StoredOK
  <2>2. /\ \A k \in 0 .. Diff(e, r) - 1 : Cell(k)' = Cell(k)
        /\ \A k \in Nat : k = Diff(e, r) => Cell(k)' = c
    BY <1>3, StoreCells, Zenon DEF Stored
  <2>3. Len(S) + Len(T) < INPUT_BUF_SIZE
    BY <1>1, <1>3, ConsConst DEF Stored, Full
  <2> HIDE DEF S, T
  <2>4. CASE ent
    <3>1. T' = <<>>
      BY <1>2, <2>1, <2>4
    <3> DEFINE U == S \o Append(T, c)
    <3>2. /\ U \in Seq(Letters) /\ Len(U) = Len(S) + Len(T) + 1
          /\ \A k \in 1 .. Len(S) : U[k] = S[k]
          /\ \A k \in 1 .. Len(T) : U[Len(S) + k] = T[k]
          /\ U[Len(S) + Len(T) + 1] = c
      <4> DEFINE V == Append(T, c)
      <4>1. V \in Seq(Letters) /\ Len(V) = Len(T) + 1 /\ V[Len(T) + 1] = c
            /\ \A k \in 1 .. Len(T) : V[k] = T[k]
        BY <1>1
      <4> HIDE DEF V
      <4>2. /\ S \o V \in Seq(Letters) /\ Len(S \o V) = Len(S) + Len(V)
            /\ \A k \in 1 .. Len(S) : (S \o V)[k] = S[k]
            /\ \A k \in 1 .. Len(V) : (S \o V)[Len(S) + k] = V[k]
        BY <1>1, <4>1, ConcatAt
      <4>4. /\ Len(T) + 1 \in 1 .. Len(V) /\ Len(S) + (Len(T) + 1) = Len(S) + Len(T) + 1
            /\ Len(S) + Len(V) = Len(S) + Len(T) + 1
            /\ \A k \in 1 .. Len(T) : k \in 1 .. Len(V)
        <5>1. Len(S) \in Nat /\ Len(T) \in Nat
          BY <1>1
        <5> QED BY <4>1, <5>1
      <4>5. U = S \o V
        BY DEF V
      <4> HIDE DEF U
      <4> QED BY <4>1, <4>2, <4>4, <4>5
    <3> HIDE DEF U
    <3>3. ASSUME NEW k \in 1 .. Len(U) PROVE S'[k] = U[k]
      <4>0. k \in 1 .. Diff(w', r') /\ S'[k] = Cell(k - 1)'
        BY <1>1, <1>2, <2>1, <2>4, <3>2
      <4>1. CASE k \in 1 .. Len(S)
        <5>1. k - 1 \in 0 .. Diff(e, r) - 1 /\ k \in 1 .. Diff(w, r)
          BY <1>1, <4>1
        <5> QED BY <1>1, <2>2, <3>2, <4>0, <4>1, <5>1
      <4>2. CASE k = Diff(e, r) + 1
        <5>1. k - 1 \in Nat /\ k - 1 = Diff(e, r) /\ k = Len(S) + Len(T) + 1
          BY <1>1, <4>2
        <5> QED BY <2>2, <3>2, <4>0, <5>1
      <4>3. CASE k - Len(S) \in 1 .. Len(T)
        <5> DEFINE j == k - Len(S)
        <5>1. j \in 1 .. Len(T) /\ j \in 1 .. Diff(e, w) /\ Len(S) + j = k
              /\ Diff(w, r) + j - 1 = k - 1 /\ k - 1 \in 0 .. Diff(e, r) - 1
          BY <1>1, <4>3
        <5> HIDE DEF j
        <5>2. U[k] = T[j]
          BY <3>2, <5>1
        <5>3. T[j] = Cell(k - 1)
          BY <1>1, <5>1
        <5> QED BY <2>2, <4>0, <5>1, <5>2, <5>3
      <4> QED BY <1>1, <3>2, <4>1, <4>2, <4>3
    <3>4. S' = U
      <4>1. Len(S') = Len(U)
        BY <1>1, <1>2, <2>1, <2>4, <3>2
      <4> QED BY <1>2, <3>2, <3>3, <4>1, SameSeq
    <3> QED BY <2>3, <3>1, <3>4 DEF Term!Type, U, S, T
  <2>5. CASE ~ ent
    <3>1. S' = S
      <4>1. ASSUME NEW k \in 1 .. Len(S) PROVE S'[k] = S[k]
        <5>1. k - 1 \in 0 .. Diff(e, r) - 1 /\ k \in 1 .. Diff(w, r) /\ k \in 1 .. Diff(w', r')
          BY <1>1, <2>1, <2>5
        <5> QED BY <1>1, <1>2, <2>2, <5>1
      <4>2. Len(S') = Len(S)
        BY <1>1, <1>2, <2>1, <2>5
      <4> QED BY <1>1, <1>2, <4>1, <4>2, SameSeq
    <3> DEFINE V == Append(T, c)
    <3>2. V \in Seq(Letters) /\ Len(V) = Len(T) + 1 /\ V[Len(T) + 1] = c
          /\ \A k \in 1 .. Len(T) : V[k] = T[k]
      BY <1>1
    <3> HIDE DEF V
    <3>3. ASSUME NEW k \in 1 .. Len(V) PROVE T'[k] = V[k]
      <4>0. Diff(w, r) + k - 1 \in Int
        BY <1>1
      <4> PICK m \in Int : m = Diff(w, r) + k - 1
        BY <4>0
      <4>1. k \in Int /\ k \in 1 .. Diff(e', w') /\ m = Diff(w', r') + k - 1
        BY <1>1, <2>1, <2>5, <3>2
      <4>2. m \in Nat /\ (k \in 1 .. Len(T) \/ k = Len(T) + 1)
            /\ (k \in 1 .. Len(T) => m \in 0 .. Diff(e, r) - 1 /\ k \in 1 .. Diff(e, w))
            /\ (k = Len(T) + 1 => m = Diff(e, r))
        <5>1. /\ Diff(w, r) \in Nat /\ Diff(e, w) \in Nat /\ Len(T) = Diff(e, w)
              /\ Diff(e, r) = Diff(w, r) + Diff(e, w) /\ k \in 1 .. Len(T) + 1
          BY <1>1, <3>2
        <5> QED BY <5>1
      <4>3. k \in 1 .. Len(T) => T[k] = Cell(m)
        BY <1>1, <4>2
      <4>4. T'[k] = Cell(m)'
        BY <1>2, <4>1
      <4> QED BY <2>2, <3>2, <4>2, <4>3, <4>4
    <3>4. T' = V
      <4>1. Len(T') = Len(V)
        BY <1>1, <1>2, <2>1, <2>5, <3>2
      <4> QED BY <1>2, <3>2, <3>3, <4>1, SameSeq
    <3> QED BY <2>3, <3>1, <3>4 DEF Term!Type, V, S, T
  <2> QED BY <2>4, <2>5
<1>4. ASSUME NEW n \in 0 .. Diff(e, w), Cut(n) PROVE Term!Erase
  <2>1. Diff(w', r') = Diff(w, r) /\ Diff(e', w') = Diff(e, w) - n
    BY <1>4, CutOK
  <2>2. \A k \in Int : Cell(k)' = Cell(k)
    BY <1>4 DEF Cut, Cell
  <2> HIDE DEF S, T
  <2>3. S' = S
    <3>1. ASSUME NEW k \in 1 .. Len(S) PROVE S'[k] = S[k]
      <4>1. k - 1 \in Int /\ k \in 1 .. Diff(w, r) /\ k \in 1 .. Diff(w', r')
        BY <1>1, <2>1
      <4> QED BY <1>1, <1>2, <2>2, <4>1
    <3>2. Len(S') = Len(S)
      BY <1>1, <1>2, <2>1
    <3> QED BY <1>1, <1>2, <3>1, <3>2, SameSeq
  <2>4. ASSUME NEW k \in 1 .. Len(T') PROVE T'[k] = T[k]
    <3> DEFINE m == Diff(w, r) + k - 1
    <3>1. k \in Int /\ m \in Int /\ k \in 1 .. Diff(e', w') /\ m = Diff(w', r') + k - 1
          /\ k \in 1 .. Diff(e, w)
      BY <1>1, <1>2, <2>1
    <3>2. T[k] = Cell(m)
      BY <1>1, <3>1
    <3> HIDE DEF m
    <3> QED BY <1>2, <2>2, <3>1, <3>2
  <2>5. Len(T') <= Len(T)
    BY <1>1, <1>2, <2>1
  <2>6. \E i \in 0 .. Len(T) : T' = SubSeq(T, 1, i)
    BY <1>1, <1>2, <2>4, <2>5, PrefixIf
  <2> QED BY <2>3, <2>6 DEF Term!Erase, S, T
<1>5. CASE Taken
  <2>1. Diff(w', r') = Diff(w, r) - 1 /\ Diff(e', w') = Diff(e, w) /\ Diff(w, r) >= 1
    BY <1>5, TakenOK
  <2>2. \A k \in Nat : Cell(k)' = Cell(k + 1)
    BY <1>5, TakeCells DEF Taken
  <2> HIDE DEF S, T
  <2>3. T' = T
    <3>1. ASSUME NEW k \in 1 .. Len(T) PROVE T'[k] = T[k]
      <4> DEFINE m == Diff(w, r) + k - 2
      <4>0. Diff(w, r) \in Nat /\ Diff(e, w) \in Nat /\ Len(T) = Diff(e, w)
        BY <1>1
      <4>1. k \in Int /\ m \in Nat /\ k \in 1 .. Diff(e', w') /\ m = Diff(w', r') + k - 1
            /\ k \in 1 .. Diff(e, w) /\ m + 1 = Diff(w, r) + k - 1 /\ m \in Int
        BY <2>1, <4>0
      <4>2. T[k] = Cell(m + 1)
        BY <1>1, <4>1
      <4> HIDE DEF m
      <4> QED BY <1>2, <2>2, <4>1, <4>2
    <3>2. Len(T') = Len(T)
      BY <1>1, <1>2, <2>1
    <3> QED BY <1>1, <1>2, <3>1, <3>2, SameSeq
  <2>4. ASSUME NEW k \in 1 .. Len(S') PROVE S'[k] = S[Len(S) - Len(S') + k]
    <3>1. k - 1 \in Nat /\ (k - 1) + 1 = (k + 1) - 1 /\ k \in 1 .. Diff(w', r')
          /\ k + 1 \in 1 .. Diff(w, r) /\ Len(S) - Len(S') + k = k + 1
      BY <1>1, <1>2, <2>1
    <3>2. S'[k] = Cell((k - 1) + 1)
      BY <1>2, <2>2, <3>1
    <3>3. S[k + 1] = Cell((k + 1) - 1)
      BY <1>1, <3>1
    <3> QED BY <3>1, <3>2, <3>3
  <2>5. Len(S') <= Len(S)
    BY <1>1, <1>2, <2>1
  <2>6. \E i \in 0 .. Len(S) : S' = SubSeq(S, i + 1, Len(S))
    BY <1>1, <1>2, <2>4, <2>5, SuffixIf, Zenon
  <2>7. Term!Take
    BY <2>3, <2>6 DEF Term!Take, S, T
  <2> QED BY <2>7 DEF Term!TermNext
<1>6. CASE UNCHANGED <<cbuf, r, w, e>>
  <2>1. Span(r, w)' = Span(r, w) /\ Span(w, e)' = Span(w, e)
    BY <1>6 DEF Span, CharAt, Diff
  <2> QED BY <2>1
<1> QED BY <1>3, <1>4, <1>5, <1>6 DEF Term!TermNext

-----------------------------------------------------------------------------
(* What the steps do to the ^D that are in the buffer.                     *)

EofCells(n) == {k \in 1 .. n : Cell(k - 1) = "^D"}

LEMMA EofCellsFinite ==
  ASSUME NEW n \in Nat
  PROVE  IsFiniteSet(EofCells(n)) /\ Cardinality(EofCells(n)) \in Nat
<1>1. IsFiniteSet(1 .. n)
  <2>1. 1 \in Int /\ n \in Int
    OBVIOUS
  <2> QED BY <2>1, FS_Interval
<1>2. EofCells(n) \in SUBSET (1 .. n)
  BY DEF EofCells
<1>3. IsFiniteSet(EofCells(n))
  BY <1>1, <1>2, FS_Subset
<1> QED BY <1>3, FS_CardinalityType

PendingOK == Pending = Cardinality(EofCells(Diff(w, r))) /\ Diff(w, r) \in Nat

LEMMA PendingIs == BufInv => PendingOK
<1> SUFFICES ASSUME BufInv PROVE PendingOK
  OBVIOUS
<1>1. \A k \in 1 .. Diff(w, r) : Span(r, w)[k] = Cell(k - 1)
  BY SpanIs DEF SpanFacts
<1>2. {k \in 1 .. Diff(w, r) : Span(r, w)[k] = "^D"} = EofCells(Diff(w, r))
  BY <1>1 DEF EofCells
<1>3. Pending = Cardinality(EofCells(Diff(w, r)))
  BY <1>2, Zenon DEF Pending
<1>4. Diff(w, r) \in Nat
  BY IndexTypes
<1> QED BY <1>3, <1>4, Zenon DEF PendingOK

LEMMA PendingNext == BufInv' => PendingOK'
BY PendingIs, PTL

(* A line without ^D is entered: there is one more if its last key is ^D.  *)
LEMMA EnteredEofs ==
  ASSUME NEW n \in Nat, NEW m \in Nat, n <= m, NEW f, NEW g,
         \A k \in 1 .. m : g[k] = f[k], \A k \in n + 1 .. m : f[k] # "^D"
  PROVE  LET S == {k \in 1 .. n : f[k] = "^D"}
             T == {k \in 1 .. m + 1 : g[k] = "^D"}
         IN  Cardinality(T) = Cardinality(S) + (IF g[m + 1] = "^D" THEN 1 ELSE 0)
<1> DEFINE S == {k \in 1 .. n : f[k] = "^D"}
           T == {k \in 1 .. m + 1 : g[k] = "^D"}
<1>1. IsFiniteSet(S) /\ Cardinality(S) \in Nat
  <2>1. 1 \in Int /\ n \in Int
    OBVIOUS
  <2>2. IsFiniteSet(1 .. n)
    BY <2>1, FS_Interval
  <2>3. S \in SUBSET (1 .. n)
    OBVIOUS
  <2>4. IsFiniteSet(S)
    BY <2>2, <2>3, FS_Subset
  <2> QED BY <2>4, FS_CardinalityType
<1>2. T = IF g[m + 1] = "^D" THEN S \cup {m + 1} ELSE S
  <2>1. ASSUME NEW k PROVE k \in T <=> k \in S \/ (k = m + 1 /\ g[m + 1] = "^D")
    <3>1. CASE k \in 1 .. n
      <4>1. k \in 1 .. m /\ k \in 1 .. m + 1 /\ k # m + 1
        BY <3>1
      <4> QED BY <3>1, <4>1
    <3>2. CASE k \in n + 1 .. m
      <4>1. k \in 1 .. m /\ k # m + 1 /\ ~ (k \in 1 .. n)
        BY <3>2
      <4> QED BY <3>2, <4>1
    <3>3. CASE k = m + 1
      BY <3>3
    <3>4. k \in 1 .. m + 1 => k \in 1 .. n \/ k \in n + 1 .. m \/ k = m + 1
      OBVIOUS
    <3> QED BY <3>1, <3>2, <3>3, <3>4
  <2> HIDE DEF S, T
  <2> QED BY <2>1, Zenon
<1>3. m + 1 \notin S
  OBVIOUS
<1> HIDE DEF S, T
<1>4. Cardinality(S \cup {m + 1}) = Cardinality(S) + 1
  BY <1>1, <1>3, FS_AddElement
<1>5. Cardinality(T) = Cardinality(S) + (IF g[m + 1] = "^D" THEN 1 ELSE 0)
  BY <1>1, <1>2, <1>4
<1> QED BY <1>5 DEF S, T

LEMMA StoredEofs ==
  ASSUME BufInv, BufInv', NoEofTyped, NEW c \in Letters, NEW ent \in BOOLEAN, Stored(c, ent),
         ent \/ c # "^D"
  PROVE  NoEofTyped' /\ Pending' = Pending + (IF c = "^D" THEN 1 ELSE 0)
<1>1. /\ Diff(e', r') = Diff(e, r) + 1
      /\ Diff(w', r') = (IF ent THEN Diff(e, r) + 1 ELSE Diff(w, r))
  BY StoredOK
<1>2. /\ \A k \in 0 .. Diff(e, r) - 1 : Cell(k)' = Cell(k)
      /\ \A k \in Nat : k = Diff(e, r) => Cell(k)' = c
  BY StoreCells, Zenon DEF Stored
<1>3. Diff(w, r) \in Nat /\ Diff(e, r) \in Nat /\ Diff(w, r) <= Diff(e, r)
  BY IndexTypes
<1>4. PICK n \in Nat, m \in Nat : n = Diff(w, r) /\ m = Diff(e, r)
  BY <1>3
<1>5. Pending = Cardinality(EofCells(n)) /\ Cardinality(EofCells(n)) \in Nat
  BY <1>4, PendingIs, EofCellsFinite DEF PendingOK
<1>6. \A j \in Nat : j = Diff(w', r') => Pending' = Cardinality(EofCells(j)')
  <2>1. PendingOK'
    BY PendingNext
  <2> QED BY <2>1 DEF PendingOK, EofCells
<1>7. CASE ent
  <2>1. NoEofTyped'
    BY <1>1, <1>3, <1>7 DEF NoEofTyped
  <2> DEFINE f == [k \in 1 .. m + 1 |-> Cell(k - 1)]
             g == [k \in 1 .. m + 1 |-> Cell(k - 1)']
  <2>2. ASSUME NEW k \in 1 .. m PROVE g[k] = f[k]
    <3>1. k - 1 \in 0 .. Diff(e, r) - 1 /\ k \in 1 .. m + 1
      BY <1>4
    <3> QED BY <1>2, <3>1
  <2>3. ASSUME NEW k \in n + 1 .. m PROVE f[k] # "^D"
    <3>1. k - 1 \in Diff(w, r) .. Diff(e, r) - 1 /\ k \in 1 .. m + 1
      BY <1>4
    <3> QED BY <3>1 DEF NoEofTyped
  <2>4. g[m + 1] = c
    <3>1. m + 1 \in 1 .. m + 1 /\ (m + 1) - 1 = m
      OBVIOUS
    <3> QED BY <1>2, <1>4, <3>1
  <2>5. /\ EofCells(n) = {k \in 1 .. n : f[k] = "^D"}
        /\ EofCells(m + 1)' = {k \in 1 .. m + 1 : g[k] = "^D"}
    <3>1. \A k \in 1 .. n : k \in 1 .. m + 1
      BY <1>3, <1>4
    <3> QED BY <3>1 DEF EofCells
  <2>6. n <= m
    BY <1>3, <1>4
  <2> HIDE DEF f, g
  <2>7. Cardinality(EofCells(m + 1)') = Cardinality(EofCells(n)) + (IF c = "^D" THEN 1 ELSE 0)
    BY <2>2, <2>3, <2>4, <2>5, <2>6, EnteredEofs
  <2>8. m + 1 \in Nat /\ m + 1 = Diff(w', r')
    BY <1>1, <1>4, <1>7
  <2> QED BY <1>5, <1>6, <2>1, <2>7, <2>8
<1>8. CASE ~ ent
  <2>1. NoEofTyped'
    <3>1. SUFFICES ASSUME NEW k \in Diff(w', r') .. Diff(e', r') - 1 PROVE Cell(k)' # "^D"
      BY DEF NoEofTyped
    <3>2. k \in Nat /\ (k \in Diff(w, r) .. Diff(e, r) - 1 \/ k = Diff(e, r))
      BY <1>1, <1>3, <1>8, <3>1
    <3>3. CASE k = Diff(e, r)
      BY <1>2, <1>8, <3>2, <3>3
    <3>4. CASE k \in Diff(w, r) .. Diff(e, r) - 1
      <4>1. k \in 0 .. Diff(e, r) - 1
        BY <1>3, <3>4
      <4> QED BY <1>2, <3>4, <4>1 DEF NoEofTyped
    <3> QED BY <3>2, <3>3, <3>4
  <2>2. ASSUME NEW k \in 1 .. n PROVE Cell(k - 1)' = Cell(k - 1)
    <3>1. k - 1 \in 0 .. Diff(e, r) - 1
      BY <1>3, <1>4
    <3> QED BY <1>2, <3>1
  <2>3. EofCells(n)' = EofCells(n)
    BY <2>2 DEF EofCells
  <2>4. n = Diff(w', r')
    BY <1>1, <1>4, <1>8
  <2> QED BY <1>5, <1>6, <1>8, <2>1, <2>3, <2>4
<1> QED BY <1>7, <1>8

LEMMA CutEofs ==
  ASSUME BufInv, BufInv', NoEofTyped,
         UNCHANGED <<cbuf, r, w, e>> \/ \E n \in 0 .. Diff(e, w) : Cut(n)
  PROVE  NoEofTyped' /\ Pending' = Pending
<1>1. UNCHANGED <<cbuf, r, w>>
  BY DEF Cut
<1>2. Diff(e', r') <= Diff(e, r) /\ Diff(e', r') \in Nat
  <2>1. CASE UNCHANGED <<cbuf, r, w, e>>
    BY <2>1, IndexTypes
  <2>2. ASSUME NEW n \in 0 .. Diff(e, w), Cut(n) PROVE Diff(e', r') <= Diff(e, r) /\ Diff(e', r') \in Nat
    <3>1. Diff(e', r) = Diff(e, r) - n
      BY <2>2, EditBack DEF Cut
    <3> QED BY <1>1, <3>1, IndexTypes
  <2> QED BY <2>1, <2>2
<1>3. \A k \in Int : Cell(k)' = Cell(k)
  BY <1>1 DEF Cell
<1>4. NoEofTyped'
  <2>1. SUFFICES ASSUME NEW k \in Diff(w', r') .. Diff(e', r') - 1 PROVE Cell(k)' # "^D"
    BY DEF NoEofTyped
  <2>2. k \in Diff(w, r) .. Diff(e, r) - 1
    BY <1>1, <1>2, <2>1, IndexTypes
  <2> QED BY <1>3, <2>2 DEF NoEofTyped
<1>5. Pending' = Pending
  BY <1>1 DEF Pending, Span, CharAt, Diff
<1> QED BY <1>4, <1>5

LEMMA TakenEofs ==
  ASSUME BufInv, BufInv', NoEofTyped, Taken
  PROVE  NoEofTyped' /\ Pending = Pending' + (IF CharAt(r) = "^D" THEN 1 ELSE 0)
<1>1. /\ Diff(w', r') = Diff(w, r) - 1 /\ Diff(e', w') = Diff(e, w) /\ Diff(w, r) >= 1
      /\ Diff(e', r') = Diff(e, r) - 1
  BY TakenOK, TakeCells DEF Taken
<1>2. \A k \in Nat : Cell(k)' = Cell(k + 1)
  BY TakeCells DEF Taken
<1>3. NoEofTyped'
  <2>1. SUFFICES ASSUME NEW k \in Diff(w', r') .. Diff(e', r') - 1 PROVE Cell(k)' # "^D"
    BY DEF NoEofTyped
  <2>2. k \in Nat /\ k + 1 \in Diff(w, r) .. Diff(e, r) - 1
    BY <1>1, <2>1, IndexTypes
  <2> QED BY <1>2, <2>2 DEF NoEofTyped
<1>4. PICK n \in Nat : n = Diff(w, r) /\ n >= 1 /\ n - 1 \in Nat /\ n - 1 = Diff(w', r')
  BY <1>1, IndexTypes
<1> DEFINE S == EofCells(n)
           T == EofCells(n - 1)'
<1>5. ASSUME NEW k \in 1 .. n - 1 PROVE k \in T <=> k + 1 \in S
  <2>1. k - 1 \in Nat /\ (k - 1) + 1 = (k + 1) - 1 /\ k + 1 \in 1 .. n
    BY <1>4
  <2>2. Cell(k - 1)' = Cell((k + 1) - 1)
    BY <1>2, <2>1
  <2> QED BY <2>1, <2>2 DEF EofCells
<1>6. S \in SUBSET (1 .. n) /\ T \in SUBSET (1 .. n - 1)
  BY DEF EofCells
<1>7. 1 \in S <=> CharAt(r) = "^D"
  <2>1. 1 \in 1 .. n /\ r + (1 - 1) = r
    BY <1>4, IndexTypes
  <2> QED BY <2>1 DEF EofCells, Cell, CharAt
<1>8. Pending = Cardinality(S)
  BY <1>4, PendingIs DEF PendingOK
<1>9. Pending' = Cardinality(T)
  <2>1. PendingOK'
    BY PendingNext
  <2> QED BY <1>4, <2>1 DEF PendingOK, EofCells
<1> HIDE DEF S, T
<1>10. Cardinality(S) = Cardinality(T) + (IF 1 \in S THEN 1 ELSE 0)
  <2>1. Shifted(n, S, T)
    BY <1>4, <1>5, <1>6 DEF Shifted
  <2> QED BY <2>1, DropFirst
<1> QED BY <1>3, <1>7, <1>8, <1>9, <1>10

-----------------------------------------------------------------------------
(* Every step keeps the invariant, and is one of the moves.                *)

Readers == [ConsProc -> [state: {"idle", "ready", "locked", "asleep"},
                         n: 0 .. MaxRead, target: 0 .. MaxRead]]

Moves ==
  \/ \E c \in Letters, ent \in BOOLEAN : Stored(c, ent)
  \/ \E n \in 0 .. Diff(e, w) : Cut(n)
  \/ Taken
  \/ UNCHANGED <<cbuf, r, w, e>>

LEMMA MoveKeeps ==
  ASSUME BufInv, Moves, reader' \in Readers, zeros' \in Nat, eofs' \in Nat
  PROVE  BufInv'
<1>1. CASE \E c \in Letters, ent \in BOOLEAN : Stored(c, ent)
  BY <1>1, StoredOK DEF BufInv, ConsTypeOK, Readers
<1>2. ASSUME NEW n \in 0 .. Diff(e, w), Cut(n) PROVE BufInv'
  <2>1. UNCHANGED <<cbuf, r, w>>
    BY <1>2 DEF Cut
  <2> QED BY <1>2, <2>1, CutOK DEF BufInv, ConsTypeOK, Readers
<1>3. CASE Taken
  <2>1. UNCHANGED <<cbuf, w, e>>
    BY <1>3 DEF Taken
  <2> QED BY <1>3, <2>1, TakenOK DEF BufInv, ConsTypeOK, Readers
<1>4. CASE UNCHANGED <<cbuf, r, w, e>>
  BY <1>4 DEF BufInv, ConsTypeOK, Readers, IndicesOrdered, Diff
<1> QED BY <1>1, <1>2, <1>3, <1>4 DEF Moves

LEMMA PendingNat == BufInv => Pending \in Nat
BY PendingIs, EofCellsFinite DEF PendingOK

LEMMA PendingNatNext == BufInv' => Pending' \in Nat
<1>1. BufInv' => (Pending \in Nat)'
  BY PendingNat, PTL
<1> QED BY <1>1

LEMMA StoreStep ==
  ASSUME ConsInv, NEW c \in Letters, Store(c)
  PROVE  ConsInv' /\ Moves
<1> DEFINE ent == c \in {"\n", "^D"} \/ Diff((e + 1) % CONSMOD, r) = INPUT_BUF_SIZE
<1>1. ent \in BOOLEAN /\ (ent \/ c # "^D")
  OBVIOUS
<1>2. Stored(c, ent)
  BY DEF Store, Stored
<1>3. reader' = [p \in ConsProc |->
                   IF ent /\ reader[p].state = "asleep" THEN [reader[p] EXCEPT !.state = "ready"]
                   ELSE reader[p]]
  BY DEF Store
<1>4. eofs' = (IF c = "^D" THEN eofs + 1 ELSE eofs) /\ zeros' = zeros
  BY DEF Store
<1> HIDE DEF ent
<1>5. Moves
  BY <1>1, <1>2 DEF Moves
<1>6. BufInv /\ NoEofTyped /\ ReadsOK /\ EofDelivered /\ reader \in Readers /\ zeros \in Nat /\ eofs \in Nat
  BY DEF ConsInv, BufInv, ConsTypeOK, Readers
<1>7. reader' \in Readers /\ ReadsOK'
  BY <1>3, <1>6 DEF Readers, ReadsOK
<1>8. BufInv'
  BY <1>4, <1>5, <1>6, <1>7, MoveKeeps
<1>9. NoEofTyped' /\ Pending' = Pending + (IF c = "^D" THEN 1 ELSE 0)
  BY <1>1, <1>2, <1>6, <1>8, StoredEofs
<1>10. EofDelivered'
  <2>1. Pending \in Nat
    BY <1>6, PendingNat
  <2> QED BY <1>4, <1>6, <1>9, <2>1 DEF EofDelivered
<1> QED BY <1>5, <1>7, <1>8, <1>9, <1>10 DEF ConsInv

(* Steps that leave the characters and the counts alone.                   *)
LEMMA QuietStep ==
  ASSUME ConsInv, UNCHANGED <<cbuf, r, w, e>> \/ (\E n \in 0 .. Diff(e, w) : Cut(n)),
         zeros' = zeros, eofs' = eofs, reader' \in Readers, ReadsOK'
  PROVE  ConsInv' /\ Moves
<1>1. Moves
  BY DEF Moves
<1>2. BufInv /\ NoEofTyped /\ EofDelivered /\ zeros \in Nat /\ eofs \in Nat
  BY DEF ConsInv, BufInv, ConsTypeOK
<1>3. BufInv'
  BY <1>1, <1>2, MoveKeeps
<1>4. NoEofTyped' /\ Pending' = Pending
  BY <1>2, <1>3, CutEofs
<1> QED BY <1>1, <1>2, <1>3, <1>4 DEF ConsInv, EofDelivered

LEMMA EditStep ==
  ASSUME ConsInv, NEW c, Edit(c)
  PROVE  ConsInv' /\ Moves
<1>1. UNCHANGED <<cbuf, r, w, reader, zeros, eofs>>
  BY DEF Edit
<1>2. BufInv /\ reader' \in Readers /\ ReadsOK'
  BY <1>1 DEF ConsInv, BufInv, ConsTypeOK, Readers, ReadsOK
<1>3. CASE e' = (e - KillTo) % CONSMOD
  <2>1. KillTo \in 0 .. Diff(e, w)
    BY <1>2, KillToIn
  <2>2. Cut(KillTo)
    BY <1>1, <1>3 DEF Cut
  <2> QED BY <1>1, <1>2, <2>1, <2>2, QuietStep
<1>4. CASE e # w /\ e' = (e - 1) % CONSMOD
  <2>1. 1 \in 0 .. Diff(e, w)
    <3>1. Diff(e, w) # 0
      <4>1. SUFFICES ASSUME Diff(e, w) = 0 PROVE FALSE
        OBVIOUS
      <4>2. e = (w + 0) % CONSMOD
        BY <1>2, <4>1, IndexTypes, RingUp DEF Diff
      <4>3. w \in 0 .. CONSMOD - 1 /\ w + 0 \in Int /\ w + 0 = 0 * CONSMOD + w
        BY <1>2, IndexTypes, ConsConst
      <4>4. (w + 0) % CONSMOD = w
        <5>1. 0 \in Int
          OBVIOUS
        <5> QED BY <4>3, <5>1, ConsConst, ModIs, Zenon
      <4> QED BY <1>4, <4>2, <4>4
    <3> QED BY <1>2, <3>1, IndexTypes
  <2>2. Cut(1)
    BY <1>1, <1>4 DEF Cut
  <2> QED BY <1>1, <1>2, <2>1, <2>2, QuietStep
<1>5. CASE e' = e
  BY <1>1, <1>2, <1>5, QuietStep
<1> QED BY <1>3, <1>4, <1>5 DEF Edit

(* A turn of consoleread() that takes a character.                         *)
LEMMA TakeStep ==
  ASSUME ConsInv, Taken, eofs' = eofs, reader' \in Readers, ReadsOK',
         zeros' = IF CharAt(r) = "^D" THEN zeros + 1 ELSE zeros
  PROVE  ConsInv' /\ Moves
<1>1. Moves
  BY DEF Moves
<1>2. BufInv /\ NoEofTyped /\ EofDelivered /\ zeros \in Nat /\ eofs \in Nat
  BY DEF ConsInv, BufInv, ConsTypeOK
<1>3. zeros' \in Nat
  BY <1>2
<1>4. BufInv'
  BY <1>1, <1>2, <1>3, MoveKeeps
<1>5. NoEofTyped' /\ Pending = Pending' + (IF CharAt(r) = "^D" THEN 1 ELSE 0)
  BY <1>2, <1>4, TakenEofs
<1>6. Pending' \in Nat
  BY <1>4, PendingNatNext
<1>7. EofDelivered'
  <2>1. zeros + Pending = eofs
    BY <1>2 DEF EofDelivered
  <2>2. \A z, k \in Nat : k + 0 = k /\ z + (k + 1) = (z + 1) + k
    OBVIOUS
  <2>3. CASE CharAt(r) = "^D"
    <3>1. zeros' = zeros + 1 /\ Pending = Pending' + 1
      BY <1>5, <2>3
    <3>2. zeros + (Pending' + 1) = eofs
      BY <2>1, <3>1, Zenon
    <3>3. zeros + (Pending' + 1) = (zeros + 1) + Pending'
      BY <1>2, <1>6, <2>2, Zenon
    <3>4. zeros' + Pending' = eofs
      BY <3>1, <3>2, <3>3, Zenon
    <3>5. zeros' + Pending' = eofs'
      BY <3>4, Zenon
    <3> QED BY <3>5 DEF EofDelivered
  <2>4. CASE CharAt(r) # "^D"
    <3>1. zeros' = zeros /\ Pending = Pending' + 0
      BY <1>5, <2>4, Zenon
    <3>2. Pending = Pending'
      BY <1>6, <2>2, <3>1, Zenon
    <3>3. zeros' + Pending' = eofs'
      BY <2>1, <3>1, <3>2, Zenon
    <3> QED BY <3>3 DEF EofDelivered
  <2> QED BY <2>3, <2>4
<1> QED BY <1>1, <1>4, <1>5, <1>7 DEF ConsInv

LEMMA ReadStep ==
  ASSUME ConsInv, NEW p \in ConsProc, consoleread(p)
  PROVE  ConsInv' /\ Moves
<1> DEFINE n == reader[p].n
           done == [state |-> "idle", n |-> 0, target |-> 0]
<1>1. BufInv /\ reader \in Readers /\ ReadsOK /\ MaxRead \in Nat
  BY ConsConst DEF ConsInv, BufInv, ConsTypeOK, Readers
<1>2. UNCHANGED <<cbuf, w, e, eofs>> /\ reader[p].state # "idle"
  BY DEF consoleread
<1>3. 1 <= n /\ n <= reader[p].target /\ n \in 0 .. MaxRead /\ reader[p].target \in 0 .. MaxRead
  BY <1>1, <1>2 DEF ReadsOK, Readers
<1>4. CASE reader' = [reader EXCEPT ![p] = done]
  <2>1. reader' \in Readers /\ ReadsOK'
    BY <1>1, <1>4 DEF Readers, ReadsOK
  <2>2. CASE UNCHANGED <<r, zeros>>
    BY <1>2, <2>1, <2>2, QuietStep
  <2>3. CASE Taken /\ CharAt(r) # "^D" /\ zeros' = zeros
    BY <1>2, <2>1, <2>3, TakeStep
  <2>4. CASE Taken /\ CharAt(r) = "^D" /\ zeros' = zeros + 1
    BY <1>2, <2>1, <2>4, TakeStep
  <2>6. CASE r # w /\ CharAt(r) = "^D" /\ r' = Eof(p) /\ ReadReturns(p, n)
    <3>1. CASE n < reader[p].target
      BY <1>3, <2>2, <2>6, <3>1 DEF Eof, ReadReturns
    <3>2. CASE ~ (n < reader[p].target)
      <4>1. n = reader[p].target
        BY <1>3, <3>2
      <4> QED BY <1>2, <2>4, <2>6, <3>2, <4>1 DEF Eof, ReadReturns, Taken
    <3> QED BY <3>1, <3>2
  <2>7. CASE r # w /\ CharAt(r) # "^D" /\ r' = (r + 1) % CONSMOD /\ UNCHANGED zeros
    BY <1>2, <2>3, <2>7 DEF Taken
  <2>8. CASE r # w /\ CharAt(r) # "^D" /\ r' = (r + 1) % CONSMOD /\ ReadReturns(p, n - 1)
    <3>1. n - 1 # reader[p].target
      BY <1>3
    <3> QED BY <1>2, <2>3, <2>8, <3>1 DEF Taken, ReadReturns
  <2> QED BY <2>2, <2>6, <2>7, <2>8 DEF consoleread
<1>5. CASE r = w /\ reader' = [reader EXCEPT ![p].state = "asleep"] /\ UNCHANGED <<r, zeros>>
  <2>1. reader' \in Readers /\ ReadsOK'
    BY <1>1, <1>2, <1>5 DEF Readers, ReadsOK
  <2> QED BY <1>2, <1>5, <2>1, QuietStep
<1>6. CASE /\ r # w /\ CharAt(r) # "^D" /\ r' = (r + 1) % CONSMOD /\ zeros' = zeros /\ n # 1
           /\ reader' = [reader EXCEPT ![p].n = n - 1, ![p].state = "locked"]
  <2>1. n - 1 \in 0 .. MaxRead /\ 1 <= n - 1 /\ n - 1 <= reader[p].target
    BY <1>1, <1>3, <1>6
  <2>2. reader' \in Readers /\ ReadsOK'
    BY <1>1, <1>2, <1>6, <2>1, ZenonT(30) DEF Readers, ReadsOK
  <2>3. Taken
    BY <1>2, <1>6 DEF Taken
  <2> QED BY <1>2, <1>6, <2>2, <2>3, TakeStep
<1> QED BY <1>4, <1>5, <1>6 DEF consoleread, ReadReturns

LEMMA ConsStep ==
  ASSUME ConsInv, [ConsNext]_consVars
  PROVE  ConsInv' /\ Moves
<1>0. reader \in Readers /\ ReadsOK /\ MaxRead \in Nat
  BY ConsConst DEF ConsInv, BufInv, ConsTypeOK, Readers
<1>1. CASE UNCHANGED consVars
  <2>1. UNCHANGED <<cbuf, r, w, e, reader, zeros, eofs>>
    BY <1>1 DEF consVars
  <2>2. ReadsOK'
    BY <1>0, <2>1 DEF ReadsOK
  <2> QED BY <1>0, <2>1, <2>2, QuietStep
<1>2. ASSUME NEW c, consoleintr(c) PROVE ConsInv' /\ Moves
  <2>1. CASE Edit(c)
    BY <2>1, EditStep
  <2>2. CASE c \in Letters /\ Store(c)
    BY <2>2, StoreStep
  <2>3. CASE UNCHANGED <<cbuf, r, w, e, reader, zeros, eofs>>
    <3>1. ReadsOK'
      BY <1>0, <2>3 DEF ReadsOK
    <3> QED BY <1>0, <2>3, <3>1, QuietStep
  <2> QED BY <1>2, <2>1, <2>2, <2>3 DEF consoleintr
<1>3. ASSUME NEW p \in ConsProc, NEW n \in 1 .. MaxRead, StartRead(p, n) PROVE ConsInv' /\ Moves
  <2>1. UNCHANGED <<cbuf, r, w, e, zeros, eofs>>
    BY <1>3 DEF StartRead
  <2>2. reader' \in Readers /\ ReadsOK'
    BY <1>0, <1>3 DEF StartRead, Readers, ReadsOK
  <2> QED BY <2>1, <2>2, QuietStep
<1>4. ASSUME NEW p \in ConsProc, killReader(p) PROVE ConsInv' /\ Moves
  <2>1. UNCHANGED <<cbuf, r, w, e, zeros, eofs>>
    BY <1>4 DEF killReader
  <2>2. reader' \in Readers /\ ReadsOK'
    BY <1>0, <1>4 DEF killReader, Readers, ReadsOK
  <2> QED BY <2>1, <2>2, QuietStep
<1> QED BY <1>1, <1>2, <1>3, <1>4, ReadStep DEF ConsNext

LEMMA ConsInitOK == ConsInit => ConsInv /\ Term!TermInit
<1> SUFFICES ASSUME ConsInit PROVE ConsInv /\ Term!TermInit
  OBVIOUS
<1>1. /\ r \in 0 .. CONSMOD - 1 /\ w = r /\ e = r /\ zeros = 0 /\ eofs = 0
      /\ cbuf \in [0 .. INPUT_BUF_SIZE - 1 -> Letters]
      /\ reader = [p \in ConsProc |-> [state |-> "idle", n |-> 0, target |-> 0]]
  BY ConsConst DEF ConsInit, Letters
<1>2. Diff(r, r) = 0
  <2>1. r - r = 0
    BY <1>1
  <2>2. 0 % CONSMOD = 0
    BY ConsConst
  <2> QED BY <2>1, <2>2 DEF Diff
<1>3. reader \in Readers /\ ReadsOK
  BY <1>1, ConsConst DEF Readers, ReadsOK
<1>4. BufInv
  BY <1>1, <1>2, <1>3, ConsConst DEF BufInv, ConsTypeOK, IndicesOrdered, Readers
<1>5. NoEofTyped
  <2>1. Diff(w, r) .. Diff(e, r) - 1 = {}
    BY <1>1, <1>2
  <2> QED BY <2>1 DEF NoEofTyped
<1>6. EofDelivered
  <2>1. 1 .. Diff(w, r) = {}
    BY <1>1, <1>2
  <2>2. {k \in 1 .. Diff(w, r) : Span(r, w)[k] = "^D"} = {}
    BY <2>1
  <2>3. Pending = 0
    BY <2>2, FS_EmptySet DEF Pending
  <2> QED BY <1>1, <2>3 DEF EofDelivered
<1>7. Term!TermInit
  <2>1. 1 .. 0 = {}
    OBVIOUS
  <2>2. Span(r, w) = << >> /\ Span(w, e) = << >>
    BY <1>1, <1>2, <2>1 DEF Span
  <2> QED BY <2>2 DEF Term!TermInit
<1> QED BY <1>3, <1>4, <1>5, <1>6, <1>7 DEF ConsInv

(* console.c:103: whatever is typed, with readers that come, sleep, are    *)
(* killed or meet a bad address, the reads that returned no byte and the   *)
(* ^D still to be read are together the ^D typed: for every size of the    *)
(* buffer and wrapping indices.                                            *)
THEOREM EofIsDelivered == ConsSpec => []EofDelivered
<1>1. ConsInit => ConsInv
  BY ConsInitOK
<1>2. ConsInv /\ [ConsNext]_consVars => ConsInv'
  BY ConsStep
<1>3. ConsInv => EofDelivered
  BY DEF ConsInv
<1> QED BY <1>1, <1>2, <1>3, PTL DEF ConsSpec

(* console.c: the buffer with its three wrapping indices implements the    *)
(* line editor in front of a queue of entered characters: erasing stops at *)
(* what is entered, and a reader takes the characters in the order typed.  *)
THEOREM ConsoleImplementsTerminal == ConsSpec => ConsoleIsTerminal
<1>1. ConsInit => ConsInv /\ Term!TermInit
  BY ConsInitOK
<1>2. ConsInv /\ [ConsNext]_consVars => ConsInv' /\ [Term!TermNext]_<<Span(r, w), Span(w, e)>>
  <2> SUFFICES ASSUME ConsInv, [ConsNext]_consVars
               PROVE  ConsInv' /\ [Term!TermNext]_<<Span(r, w), Span(w, e)>>
    OBVIOUS
  <2>1. ConsInv' /\ Moves
    BY ConsStep
  <2>2. BufInv /\ BufInv'
    BY <2>1 DEF ConsInv
  <2> QED BY <2>1, <2>2, MovesAreTerminal DEF Moves
<1> QED BY <1>1, <1>2, PTL DEF ConsSpec, ConsoleIsTerminal, Term!TermSpec
=============================================================================
