---------------------------- MODULE VirtioProofs ----------------------------
(***************************************************************************)
(* RequestsIntact of Virtio, for every number of descriptors, every width  *)
(* of the ring indices and any processes.                                  *)
(***************************************************************************)
EXTENDS Virtio, FiniteSetTheorems, WellFoundedInduction, TLAPS

(* How long, in seconds, each prover may take over a step.                 *)
USE SMTT(30), ZenonT(30)

(* The smallest of a set of numbers.                                       *)
LEMMA LeastNat ==
  ASSUME NEW S \in SUBSET Nat, S # {}
  PROVE  \E x \in S : \A y \in S : x <= y
<1>. DEFINE R == OpToRel(<, Nat)
<1>1. IsWellFoundedOn(R, Nat)
  BY NatLessThanWellFounded, Zenon
<1>2. \A x, y \in Nat : x < y => <<x, y>> \in R
  BY DEF OpToRel
<1>. HIDE DEF R
<1>3. PICK x \in S : \A y \in S : ~ (<<y, x>> \in R)
  BY <1>1, WFMin, Zenon
<1>4. \A y \in S : y \in Nat /\ x \in Nat /\ ~ (y < x)
  BY <1>2, <1>3, Zenon
<1>5. \A y \in S : x <= y
  BY <1>4
<1>. QED BY <1>5

-----------------------------------------------------------------------------
(* Counters that wrap around at N, and rings of M slots, where M divides N: *)
(* as in DeviceProofs, and repeated here to keep the console out of the     *)
(* context of these proofs.                                                 *)
LEMMA ModRange ==
  ASSUME NEW M \in Int, M > 0, NEW x \in Int
  PROVE  x % M \in 0 .. M - 1
OBVIOUS

LEMMA ModIs ==
  ASSUME NEW M \in Int, M > 0, NEW x \in Int, NEW q \in Int, NEW y \in 0 .. M - 1,
         x = q * M + y
  PROVE  x % M = y
OBVIOUS

LEMMA ModWitness ==
  ASSUME NEW M \in Int, M > 0, NEW x \in Int
  PROVE  \E q \in Int : x = q * M + (x % M)
<1>1. x \div M \in Int
  OBVIOUS
<1>2. x = M * (x \div M) + (x % M)
  OBVIOUS
<1>3. x = (x \div M) * M + (x % M)
  BY <1>1, <1>2
<1> QED BY <1>1, <1>3

LEMMA ModSame ==
  ASSUME NEW M \in Int, M > 0, NEW x \in Int, NEW y \in Int, NEW q \in Int,
         x = q * M + y
  PROVE  x % M = y % M
<1>1. PICK k \in Int : y = k * M + (y % M)
  BY ModWitness
<1>2. y % M \in 0 .. M - 1
  BY ModRange
<1> DEFINE z == y % M
           t == q + k
<1>3. z \in 0 .. M - 1 /\ z \in Int /\ t \in Int /\ y = k * M + z
  BY <1>1, <1>2
<1> HIDE DEF z
<1>4. x = t * M + z
  BY <1>3
<1> HIDE DEF t
<1>5. x % M = z
  BY <1>3, <1>4, ModIs
<1> QED BY <1>5 DEF z

Ring(M, N, x, y) ==
  M \in Int /\ M > 0 /\ N \in Int /\ N > 0 /\ N % M = 0 /\ x \in Int /\ y \in Int

LEMMA ModMod ==
  ASSUME NEW M, NEW N, NEW x, Ring(M, N, x, 0)
  PROVE  (x % N) % M = x % M
<1> USE DEF Ring
<1>1. PICK k \in Int : N = k * M + 0
  BY ModWitness
<1>2. PICK q \in Int : x = q * N + (x % N)
  BY ModWitness
<1>3. x % N \in Int
  BY ModRange
<1> DEFINE z == x % N
           t == q * k
<1>4. x = q * N + z /\ z \in Int /\ t \in Int
  BY <1>2, <1>3
<1> HIDE DEF z
<1>5. q * N = (q * k) * M
  BY <1>1
<1>6. x = t * M + z
  BY <1>4, <1>5
<1>7. z \in Int /\ t \in Int
  BY <1>4
<1> HIDE DEF t
<1>8. x % M = z % M
  BY <1>6, <1>7, ModSame, Zenon
<1> QED BY <1>8 DEF z

(* (x + n) % N and (x - n) % N stand for x + n and x - n in a difference.  *)
LEMMA ModInner ==
  ASSUME NEW M \in Int, M > 0, NEW x \in Int, NEW y \in Int
  PROVE  /\ ((x % M) + y) % M = (x + y) % M
         /\ (y - (x % M)) % M = (y - x) % M
<1>1. PICK q \in Int : x = q * M + (x % M)
  BY ModWitness
<1> DEFINE z == x % M
<1>2. z \in Int /\ x = q * M + z
  BY <1>1, ModRange
<1> HIDE DEF z
<1> DEFINE a == x + y  b == z + y  c == y - x  d == y - z  n == -q
<1>3. a \in Int /\ b \in Int /\ c \in Int /\ d \in Int /\ n \in Int
  BY <1>2
<1>4. a = q * M + b /\ c = n * M + d
  BY <1>2
<1> HIDE DEF a, b, c, d, n
<1>5. a % M = b % M
  BY <1>3, <1>4, ModSame, Zenon
<1>6. c % M = d % M
  BY <1>3, <1>4, ModSame, Zenon
<1> QED BY <1>5, <1>6 DEF a, b, c, d, z

LEMMA RingInner ==
  ASSUME NEW M, NEW N, NEW x, NEW y, Ring(M, N, x, y)
  PROVE  ((x % N) + y) % M = (x + y) % M
<1> DEFINE z == x % N
<1>0. Ring(M, N, x, 0)
  BY DEF Ring
<1>1. z \in Int /\ z % M = x % M
  <2>1. x % N \in Int
    BY ModRange DEF Ring
  <2> QED BY <1>0, <2>1, ModMod
<1> HIDE DEF z
<1> USE DEF Ring
<1>2. (z + y) % M = ((z % M) + y) % M
  BY <1>1, ModInner, Zenon
<1>3. (x + y) % M = ((x % M) + y) % M
  BY ModInner, Zenon
<1> QED BY <1>1, <1>2, <1>3 DEF z

(* What a counter shows ahead of another, after either of them advances.   *)
LEMMA RingCount ==
  ASSUME NEW N, NEW hi, NEW lo, NEW n \in Nat, Ring(N, N, hi, lo)
  PROVE  LET c == (hi - lo) % N IN
         /\ c + n < N => (((hi + n) % N) - lo) % N = c + n
         /\ n <= c => (hi - ((lo + n) % N)) % N = c - n
<1> USE DEF Ring
<1> DEFINE c == (hi - lo) % N
<1>1. c \in 0 .. N - 1 /\ c \in Int
  BY ModRange
<1>2. (((hi + n) % N) - lo) % N = (hi + n - lo) % N
  <2>1. -lo \in Int /\ hi + n \in Int /\ \A z \in Int : z + (-lo) = z - lo
    OBVIOUS
  <2>2. (hi + n) % N \in Int
    BY <2>1, ModRange
  <2>3. (((hi + n) % N) + (-lo)) % N = (hi + n + (-lo)) % N
    BY <2>1, ModInner, Zenon
  <2> QED BY <2>1, <2>2, <2>3
<1>3. (hi - ((lo + n) % N)) % N = (hi - (lo + n)) % N
  <2>1. lo + n \in Int
    OBVIOUS
  <2> QED BY <2>1, ModInner, Zenon
<1>4. PICK q \in Int : hi - lo = q * N + c
  BY ModWitness
<1> HIDE DEF c
<1>5. hi + n - lo = q * N + (c + n) /\ hi - (lo + n) = q * N + (c - n)
  BY <1>1, <1>4
<1>6. c + n < N => (hi + n - lo) % N = c + n
  BY <1>1, <1>5, ModIs
<1>7. n <= c => (hi - (lo + n)) % N = c - n
  BY <1>1, <1>5, ModIs
<1> QED BY <1>2, <1>3, <1>6, <1>7 DEF c

(* The slots of a ring: the k-th one after lo is ahead of the first free    *)
(* one, hi, by what is left of the buffer.                                  *)
RingAt(M, N, hi, lo, k, c) ==
  /\ M \in Int /\ M > 0 /\ N \in Int /\ N > 0 /\ N % M = 0
  /\ hi \in Int /\ lo \in Int /\ k \in Nat /\ c \in Int
  /\ c = (hi - lo) % N /\ k < c /\ c <= M

LEMMA RingSlot ==
  ASSUME NEW M, NEW N, NEW hi, NEW lo, NEW k, NEW c, RingAt(M, N, hi, lo, k, c)
  PROVE  (((lo + k) % M) - hi) % M = M - c + k
<1> USE DEF RingAt
<1>1. PICK q \in Int : hi - lo = q * N + c
  BY ModWitness
<1>2. PICK j \in Int : N = j * M + 0
  BY ModWitness
<1>3. (((lo + k) % M) - hi) % M = (lo + k - hi) % M
  <2>1. -hi \in Int /\ lo + k \in Int /\ \A z \in Int : z + (-hi) = z - hi
    OBVIOUS
  <2>2. (lo + k) % M \in Int
    BY <2>1, ModRange
  <2>3. (((lo + k) % M) + (-hi)) % M = (lo + k + (-hi)) % M
    <3> DEFINE x == lo + k
               y == -hi
    <3>1. M \in Int /\ M > 0 /\ x \in Int /\ y \in Int
      BY <2>1
    <3> HIDE DEF x, y, RingAt
    <3>2. ((x % M) + y) % M = (x + y) % M
      BY <3>1, ModInner, Zenon
    <3> QED BY <3>2 DEF x, y
  <2> QED BY <2>1, <2>2, <2>3
<1>4. q * N = (q * j) * M
  BY <1>2
<1>5. lo + k - hi = k - c - (q * j) * M /\ q * j \in Int
  BY <1>1, <1>4
<1> DEFINE t == q * j
<1>6. -t - 1 \in Int /\ M - c + k \in 0 .. M - 1 /\ lo + k - hi \in Int
  BY <1>5
<1> HIDE DEF t
<1>7. lo + k - hi = (-t - 1) * M + (M - c + k)
  <2>1. lo + k - hi = k - c - t * M /\ t \in Int
    BY <1>5 DEF t
  <2> QED BY <2>1
<1>8. (lo + k - hi) % M = M - c + k
  <2> DEFINE a == lo + k - hi  b == M - c + k  s == -t - 1
  <2>1. a \in Int /\ b \in 0 .. M - 1 /\ s \in Int /\ a = s * M + b
    BY <1>6, <1>7
  <2> HIDE DEF a, b, s
  <2>2. a % M = b
    BY <2>1, ModIs
  <2> QED BY <2>2 DEF a, b
<1> QED BY <1>3, <1>8

-----------------------------------------------------------------------------
Idx == 0 .. IDXMOD - 1

LEMMA DiskConst ==
  /\ NUM \in Int /\ NUM > 0 /\ NUM >= 3 /\ IDXMOD \in Int /\ IDXMOD > 0 /\ IDXMOD % NUM = 0
  /\ NUM <= IDXMOD /\ MaxReq \in Nat /\ NoReq \notin DiskProc
<1>1. NUM \in Int /\ NUM > 0 /\ NUM >= 3 /\ IDXMOD \in Int /\ IDXMOD > 0 /\ IDXMOD % NUM = 0
      /\ MaxReq \in Nat /\ NoReq \notin DiskProc
  BY DiskAssumption
<1>2. NUM <= IDXMOD
  <2>1. SUFFICES ASSUME IDXMOD < NUM PROVE FALSE
    BY <1>1
  <2>2. IDXMOD \in 0 .. NUM - 1 /\ IDXMOD = 0 * NUM + IDXMOD
    BY <1>1, <2>1
  <2>3. IDXMOD % NUM = IDXMOD
    BY <1>1, <2>2, ModIs
  <2> QED BY <1>1, <2>3
<1> QED BY <1>1, <1>2

LEMMA DescFinite ==
  /\ IsFiniteSet(Desc) /\ Cardinality(Desc) = NUM
  /\ \A S \in SUBSET Desc : IsFiniteSet(S) /\ Cardinality(S) \in Nat /\ Cardinality(S) <= NUM
<1>1. IsFiniteSet(Desc) /\ Cardinality(Desc) = NUM
  BY DiskConst, FS_Interval DEF Desc
<1> QED BY <1>1, FS_Subset, FS_CardinalityType

-----------------------------------------------------------------------------
(* The entries of a ring from index a up to b.                             *)

Ahead(a, b)    == (b - a) % IDXMOD
At(ring, a, k) == ring[(a + k) % NUM]

(* No entry twice.                                                         *)
Tidy(ring, a, b) ==
  /\ ring \in [Desc -> Desc] /\ a \in Idx /\ b \in Idx
  /\ \A j, k \in 0 .. Ahead(a, b) - 1 : At(ring, a, j) = At(ring, a, k) => j = k
  /\ Cardinality(Window(ring, a, b)) = Ahead(a, b)

LEMMA AheadType ==
  ASSUME NEW a \in Idx, NEW b \in Idx
  PROVE  Ahead(a, b) \in Nat /\ Ahead(a, b) < IDXMOD /\ a \in Int /\ b \in Int
         /\ Ring(IDXMOD, IDXMOD, b, a) /\ (Ahead(a, b) = 0 => a = b)
<1>1. a \in Int /\ b \in Int /\ b - a \in Int /\ a \in 0 .. IDXMOD - 1 /\ b \in 0 .. IDXMOD - 1
  BY DiskConst DEF Idx
<1>2. Ahead(a, b) \in 0 .. IDXMOD - 1
  BY <1>1, DiskConst, ModRange DEF Ahead
<1>3. IDXMOD % IDXMOD = 0
  <2>1. 0 \in 0 .. IDXMOD - 1 /\ 1 \in Int /\ IDXMOD = 1 * IDXMOD + 0
    BY DiskConst
  <2> QED BY <2>1, DiskConst, ModIs
<1>4. Ring(IDXMOD, IDXMOD, b, a)
  BY <1>1, <1>3, DiskConst DEF Ring
<1>5. Ahead(a, b) = 0 => a = b
  <2>1. PICK q \in Int : b - a = q * IDXMOD + ((b - a) % IDXMOD)
    BY <1>1, DiskConst, ModWitness, Zenon
  <2>2. ASSUME Ahead(a, b) = 0 PROVE a = b
    <3>1. b - a = q * IDXMOD
      BY <2>1, <2>2, DiskConst DEF Ahead
    <3>2. -IDXMOD < b - a /\ b - a < IDXMOD
      BY <1>1, DiskConst
    <3>3. q = 0
      <4>1. q >= 1 => q * IDXMOD >= IDXMOD
        BY DiskConst
      <4>2. q <= -1 => q * IDXMOD <= -IDXMOD
        BY DiskConst
      <4> QED BY <3>1, <3>2, <4>1, <4>2, DiskConst, <1>1
    <3> QED BY <1>1, <3>1, <3>3, DiskConst
  <2> QED BY <2>2
<1> QED BY <1>1, <1>2, <1>4, <1>5, DiskConst

LEMMA AheadMore ==
  ASSUME NEW a \in Idx, NEW b \in Idx
  PROVE  /\ Ahead(a, b) + 1 < IDXMOD => Ahead(a, (b + 1) % IDXMOD) = Ahead(a, b) + 1
         /\ Ahead(a, b) # 0 => Ahead((a + 1) % IDXMOD, b) = Ahead(a, b) - 1
<1>1. Ahead(a, b) \in Nat /\ Ring(IDXMOD, IDXMOD, b, a) /\ 1 \in Nat
  BY AheadType
<1>2. Ahead(a, b) + 1 < IDXMOD => (((b + 1) % IDXMOD) - a) % IDXMOD = Ahead(a, b) + 1
  BY <1>1, RingCount DEF Ahead
<1>3. 1 <= Ahead(a, b) => (b - ((a + 1) % IDXMOD)) % IDXMOD = Ahead(a, b) - 1
  BY <1>1, RingCount DEF Ahead
<1>4. Ahead(a, b) # 0 => 1 <= Ahead(a, b)
  BY <1>1
<1> QED BY <1>2, <1>3, <1>4 DEF Ahead

LEMMA SlotType ==
  ASSUME NEW a \in Int
  PROVE  a % NUM \in Desc
BY DiskConst, ModRange DEF Desc

LEMMA WindowIn ==
  ASSUME NEW ring, NEW a, NEW b, Tidy(ring, a, b)
  PROVE  /\ Window(ring, a, b) \subseteq Desc /\ IsFiniteSet(Window(ring, a, b))
         /\ \A i : i \in Window(ring, a, b) <=> \E k \in 0 .. Ahead(a, b) - 1 : i = At(ring, a, k)
<1>1. ring \in [Desc -> Desc] /\ a \in Idx /\ b \in Idx
  BY DEF Tidy
<1>2. Ahead(a, b) \in Nat /\ a \in Int
  BY <1>1, AheadType
<1>3. \A k \in 0 .. Ahead(a, b) - 1 : At(ring, a, k) \in Desc
  BY <1>1, <1>2, SlotType DEF At
<1>4. \A i : i \in Window(ring, a, b) <=> \E k \in 0 .. Ahead(a, b) - 1 : i = At(ring, a, k)
  BY DEF Window, At, Ahead
<1>5. Window(ring, a, b) \subseteq Desc
  BY <1>3, <1>4
<1> QED BY <1>4, <1>5, DescFinite

(* A new entry at the end.                                                 *)
LEMMA PushEntry ==
  ASSUME NEW ring, NEW a, NEW b, Tidy(ring, a, b), NEW i \in Desc,
         i \notin Window(ring, a, b), Ahead(a, b) + 1 < NUM
  PROVE  LET ring2 == [ring EXCEPT ![b % NUM] = i]
             b2    == (b + 1) % IDXMOD
         IN  Tidy(ring2, a, b2) /\ Window(ring2, a, b2) = Window(ring, a, b) \cup {i}
<1> DEFINE ring2 == [ring EXCEPT ![b % NUM] = i]
           b2    == (b + 1) % IDXMOD
           n     == Ahead(a, b)
<1>1. ring \in [Desc -> Desc] /\ a \in Idx /\ b \in Idx
  BY DEF Tidy
<1>2. n \in Nat /\ a \in Int /\ b \in Int /\ Ring(IDXMOD, IDXMOD, b, a)
  BY <1>1, AheadType
<1>3. b % NUM \in Desc /\ b2 \in Idx
  BY <1>2, SlotType, DiskConst, ModRange DEF Idx
<1>4. ring2 \in [Desc -> Desc]
  BY <1>1, <1>3
<1>5. Ahead(a, b2) = n + 1
  BY <1>1, <1>2, DiskConst, AheadMore
<1>6. ASSUME NEW k \in 0 .. n - 1 PROVE At(ring2, a, k) = At(ring, a, k)
  <2>1. k \in Nat /\ k < n /\ a + k \in Int
    BY <1>2
  <2>2. RingAt(NUM, IDXMOD, b, a, k, n)
    BY <1>2, <2>1, DiskConst DEF RingAt, Ahead
  <2>3. (((a + k) % NUM) - b) % NUM = NUM - n + k
    BY <2>2, RingSlot
  <2>4. (a + k) % NUM # b % NUM
    <3>1. SUFFICES ASSUME (a + k) % NUM = b % NUM PROVE FALSE
      OBVIOUS
    <3>2. ((b % NUM) + (-b)) % NUM = (b + (-b)) % NUM
      <4>1. -b \in Int
        BY <1>2
      <4> QED BY <1>2, <4>1, DiskConst, ModInner, Zenon
    <3>3. b % NUM \in Int /\ b + (-b) = 0 /\ (b % NUM) + (-b) = (b % NUM) - b
      BY <1>2, DiskConst, ModRange
    <3>4. 0 % NUM = 0
      BY DiskConst
    <3>5. ((b % NUM) - b) % NUM = 0
      BY <3>2, <3>3, <3>4
    <3>6. NUM - n + k = 0
      BY <2>3, <3>1, <3>5
    <3> QED BY <1>2, <2>1, <3>6, DiskConst
  <2>5. (a + k) % NUM \in Desc
    BY <2>1, SlotType
  <2> QED BY <1>1, <1>3, <2>4, <2>5 DEF At
<1>7. At(ring2, a, n) = i
  <2>1. (a + n) % NUM = b % NUM
    <3>1. PICK q \in Int : b - a = q * IDXMOD + n
      BY <1>2, DiskConst, ModWitness DEF Ahead
    <3>2. PICK j \in Int : IDXMOD = j * NUM + 0
      BY DiskConst, ModWitness
    <3> DEFINE t == q * j
    <3>3. t \in Int /\ q * IDXMOD = t * NUM
      BY <3>2, DiskConst
    <3> HIDE DEF t
    <3>4. b = t * NUM + (a + n) /\ a + n \in Int
      BY <1>2, <3>1, <3>3, DiskConst
    <3> QED BY <1>2, <3>3, <3>4, DiskConst, ModSame, Zenon
  <2> QED BY <1>1, <1>3, <2>1 DEF At
<1> HIDE DEF ring2, b2, n
<1>8. \A x : x \in Window(ring2, a, b2) <=> \E k \in 0 .. n : x = At(ring2, a, k)
  <2>1. Ahead(a, b2) - 1 = n
    BY <1>2, <1>5
  <2> QED BY <2>1 DEF Window, At, Ahead
<1>9. \A x : x \in Window(ring, a, b) <=> \E k \in 0 .. n - 1 : x = At(ring, a, k)
  BY WindowIn DEF n
<1>10. Window(ring2, a, b2) = Window(ring, a, b) \cup {i}
  <2>1. \A k : k \in 0 .. n <=> k \in 0 .. n - 1 \/ k = n
    BY <1>2
  <2>2. ASSUME NEW x \in Window(ring2, a, b2) PROVE x \in Window(ring, a, b) \cup {i}
    <3>1. PICK k \in 0 .. n : x = At(ring2, a, k)
      BY <1>8, <2>2
    <3> QED BY <1>6, <1>7, <1>9, <2>1, <3>1
  <2>3. ASSUME NEW x \in Window(ring, a, b) PROVE x \in Window(ring2, a, b2)
    <3>1. PICK k \in 0 .. n - 1 : x = At(ring, a, k)
      BY <1>9, <2>3
    <3> QED BY <1>6, <1>8, <2>1, <3>1
  <2>4. i \in Window(ring2, a, b2)
    BY <1>2, <1>7, <1>8, <2>1
  <2> QED BY <2>2, <2>3, <2>4
<1>11. Cardinality(Window(ring2, a, b2)) = n + 1
  <2>1. IsFiniteSet(Window(ring, a, b)) /\ Cardinality(Window(ring, a, b)) = n
    <3>1. IsFiniteSet(Window(ring, a, b))
      BY WindowIn
    <3>2. Cardinality(Window(ring, a, b)) = Ahead(a, b)
      BY DEF Tidy
    <3> QED BY <3>1, <3>2 DEF n
  <2>2. Cardinality(Window(ring, a, b) \cup {i}) = Cardinality(Window(ring, a, b)) + 1
    BY <2>1, FS_AddElement, Zenon
  <2> QED BY <1>10, <2>1, <2>2, Zenon
<1>12. \A j, k \in 0 .. n : At(ring2, a, j) = At(ring2, a, k) => j = k
  <2>1. ASSUME NEW j \in 0 .. n, NEW k \in 0 .. n, At(ring2, a, j) = At(ring2, a, k) PROVE j = k
    <3>1. CASE j = n /\ k = n
      BY <3>1
    <3>2. CASE j \in 0 .. n - 1 /\ k \in 0 .. n - 1
      BY <1>6, <2>1, <3>2 DEF Tidy, n
    <3>3. CASE j \in 0 .. n - 1 /\ k = n
      BY <1>6, <1>7, <1>9, <2>1, <3>3
    <3>4. CASE k \in 0 .. n - 1 /\ j = n
      BY <1>6, <1>7, <1>9, <2>1, <3>4
    <3> QED BY <1>2, <3>1, <3>2, <3>3, <3>4
  <2> QED BY <2>1
<1>13. Tidy(ring2, a, b2)
  <2>1. Ahead(a, b2) - 1 = n
    BY <1>2, <1>5
  <2> QED BY <1>1, <1>3, <1>4, <1>5, <1>11, <1>12, <2>1 DEF Tidy
<1> QED BY <1>10, <1>13, Zenon DEF ring2, b2

(* The first entry is taken.                                               *)
LEMMA PopEntry ==
  ASSUME NEW ring, NEW a, NEW b, Tidy(ring, a, b), a # b
  PROVE  LET a2 == (a + 1) % IDXMOD
             i  == ring[a % NUM]
         IN  /\ Tidy(ring, a2, b) /\ i \in Window(ring, a, b)
             /\ Window(ring, a2, b) = Window(ring, a, b) \ {i}
<1> DEFINE a2 == (a + 1) % IDXMOD
           i  == ring[a % NUM]
           n  == Ahead(a, b)
<1>1. ring \in [Desc -> Desc] /\ a \in Idx /\ b \in Idx
  BY DEF Tidy
<1>2. n \in Nat /\ a \in Int /\ b \in Int /\ Ring(IDXMOD, IDXMOD, b, a) /\ n # 0
  BY <1>1, AheadType
<1>3. a2 \in Idx
  BY <1>2, DiskConst, ModRange DEF Idx
<1>4. Ahead(a2, b) = n - 1
  BY <1>1, <1>2, AheadMore
<1>5. At(ring, a, 0) = i
  BY <1>2 DEF At
<1>6. ASSUME NEW k \in Nat PROVE At(ring, a2, k) = At(ring, a, k + 1)
  <2>1. a + 1 \in Int /\ k \in Int /\ (a + 1) + k = a + (k + 1)
    BY <1>2
  <2>2. Ring(NUM, IDXMOD, a + 1, k)
    BY <2>1, DiskConst DEF Ring
  <2>3. (((a + 1) % IDXMOD) + k) % NUM = ((a + 1) + k) % NUM
    BY <2>2, RingInner
  <2> QED BY <2>1, <2>3 DEF At
<1> HIDE DEF a2, i, n
<1>7. \A x : x \in Window(ring, a2, b) <=> \E k \in 0 .. n - 2 : x = At(ring, a2, k)
  <2>1. Ahead(a2, b) - 1 = n - 2
    BY <1>2, <1>4
  <2> QED BY <2>1 DEF Window, At, Ahead
<1>8. \A x : x \in Window(ring, a, b) <=> \E k \in 0 .. n - 1 : x = At(ring, a, k)
  BY WindowIn DEF n
<1>9. \A j, k \in 0 .. n - 1 : At(ring, a, j) = At(ring, a, k) => j = k
  BY DEF Tidy, n
<1>10. i \in Window(ring, a, b)
  BY <1>2, <1>5, <1>8
<1>11. ASSUME NEW x PROVE x \in Window(ring, a2, b) <=> x \in Window(ring, a, b) /\ x # i
  <2>1. ASSUME x \in Window(ring, a2, b) PROVE x \in Window(ring, a, b) /\ x # i
    <3>1. PICK k \in 0 .. n - 2 : x = At(ring, a2, k)
      BY <1>7, <2>1
    <3>2. k \in Nat /\ k + 1 \in 0 .. n - 1 /\ k + 1 # 0 /\ 0 \in 0 .. n - 1
      BY <1>2, <3>1
    <3>3. x = At(ring, a, k + 1)
      BY <1>6, <3>1, <3>2
    <3> QED BY <1>5, <1>8, <1>9, <3>2, <3>3
  <2>2. ASSUME x \in Window(ring, a, b), x # i PROVE x \in Window(ring, a2, b)
    <3>1. PICK j \in 0 .. n - 1 : x = At(ring, a, j)
      BY <1>8, <2>2
    <3>2. j # 0
      BY <1>5, <2>2, <3>1
    <3>3. PICK k \in 0 .. n - 2 : j = k + 1
      <4>1. j - 1 \in 0 .. n - 2 /\ j = (j - 1) + 1
        BY <1>2, <3>1, <3>2
      <4> QED BY <4>1
    <3>4. x = At(ring, a2, k)
      BY <1>2, <1>6, <3>1, <3>3
    <3> QED BY <1>7, <3>4
  <2> QED BY <2>1, <2>2
<1>12. Window(ring, a2, b) = Window(ring, a, b) \ {i}
  BY <1>11
<1>13. Cardinality(Window(ring, a2, b)) = n - 1
  <2>1. IsFiniteSet(Window(ring, a, b)) /\ Cardinality(Window(ring, a, b)) = n
    BY WindowIn DEF Tidy, n
  <2> QED BY <1>10, <1>12, <2>1, FS_RemoveElement
<1>14. \A j, k \in 0 .. n - 2 : At(ring, a2, j) = At(ring, a2, k) => j = k
  <2>1. ASSUME NEW j \in 0 .. n - 2, NEW k \in 0 .. n - 2, At(ring, a2, j) = At(ring, a2, k)
        PROVE  j = k
    <3>1. j \in Nat /\ k \in Nat /\ j + 1 \in 0 .. n - 1 /\ k + 1 \in 0 .. n - 1
      BY <1>2
    <3>2. j + 1 = k + 1
      BY <1>6, <1>9, <2>1, <3>1
    <3> QED BY <3>1, <3>2
  <2> QED BY <2>1
<1>15. Tidy(ring, a2, b)
  <2>1. Ahead(a2, b) - 1 = n - 2
    BY <1>2, <1>4
  <2> QED BY <1>1, <1>3, <1>4, <1>13, <1>14, <2>1 DEF Tidy
<1> QED BY <1>10, <1>12, <1>15 DEF a2, i

-----------------------------------------------------------------------------
(* The inductive invariant.                                                *)

Waiting == {p \in DiskProc : vpc[p] = "waiting"}
Heads   == {head[p] : p \in Waiting}
Places  == {"idle", "ready", "asleep", "waiting", "woken"}

DiskTypeOK ==
  /\ dfree \subseteq Desc /\ device \subseteq Desc
  /\ desc \in [Desc -> [addr : DiskProc \cup {NoReq}, next : {-1} \cup Desc]]
  /\ info \in [Desc -> [b : DiskProc \cup {NoReq}, ok : BOOLEAN]]
  /\ bdisk \in [DiskProc -> BOOLEAN]
  /\ vpc \in [DiskProc -> Places]
  /\ head \in [DiskProc -> Desc]

Second(p) == desc[head[p]].next
Third(p)  == desc[Second(p)].next

(* p has three descriptors, which lead to it.                              *)
Owned(p) ==
  /\ head[p] \in Desc \ dfree /\ Second(p) \in Desc \ dfree /\ Third(p) \in Desc \ dfree
  /\ head[p] # Second(p) /\ head[p] # Third(p) /\ Second(p) # Third(p)
  /\ desc[head[p]].addr = p /\ desc[Second(p)].addr = p /\ desc[Third(p)].addr = p
  /\ info[head[p]].b = p

ChainsOK == \A p \in InFlight : Owned(p)
CountOK  == IsFiniteSet(InFlight) /\ Cardinality(dfree) = NUM - 3 * Cardinality(InFlight)
FlagsOK  == \A p \in DiskProc : bdisk[p] <=> vpc[p] = "waiting"

Unique ==
  /\ Completed \cap device = {} /\ Completed \cap Offered = {} /\ device \cap Offered = {}
  /\ Cardinality(Completed) + Cardinality(device) + Cardinality(Offered) = Cardinality(Waiting)

RingsOK ==
  /\ Tidy(used.ring, used_idx, used.idx) /\ Tidy(avail.ring, seen, avail.idx)
  /\ Completed \cup device \cup Offered = Heads
  /\ Unique
  /\ \A i \in Completed : info[i].ok

DiskInv == DiskTypeOK /\ ChainsOK /\ CountOK /\ FlagsOK /\ RingsOK

-----------------------------------------------------------------------------
LEMMA LinksAre == \A p \in DiskProc : Links(p) = {head[p], Second(p), Third(p)}
<1> TAKE p \in DiskProc
<1>1. \A k : k \in 1 .. 3 <=> k = 1 \/ k = 2 \/ k = 3
  OBVIOUS
<1>2. Chain(head[p])[1] = head[p] /\ Chain(head[p])[2] = Second(p) /\ Chain(head[p])[3] = Third(p)
  BY DEF Chain, Second, Third
<1> QED BY <1>1, <1>2 DEF Links

(* Only one request in flight begins at a descriptor.                      *)
LEMMA HeadsDiffer ==
  ASSUME ChainsOK, NEW p \in InFlight, NEW q \in InFlight, head[p] = head[q]
  PROVE  p = q
BY DEF ChainsOK, Owned

LEMMA WaitingIn ==
  ASSUME CountOK
  PROVE  /\ Waiting \subseteq InFlight /\ IsFiniteSet(Waiting)
         /\ Cardinality(Waiting) \in Nat /\ Cardinality(InFlight) \in Nat
         /\ Cardinality(Waiting) <= Cardinality(InFlight)
<1>1. Waiting \subseteq InFlight
  BY DEF Waiting, InFlight
<1> QED BY <1>1, FS_Subset, FS_CardinalityType DEF CountOK

(* Requests are fewer than the entries of a ring.                          *)
LEMMA RoomInRings ==
  ASSUME DiskInv
  PROVE  /\ Cardinality(Completed) \in Nat /\ Cardinality(device) \in Nat /\ Cardinality(Offered) \in Nat
         /\ Cardinality(dfree) \in Nat
         /\ 3 * (Cardinality(Completed) + Cardinality(device) + Cardinality(Offered)) + Cardinality(dfree) <= NUM
         /\ Completed \subseteq Desc /\ Offered \subseteq Desc
<1>1. Completed \subseteq Desc /\ Offered \subseteq Desc /\ device \subseteq Desc /\ dfree \subseteq Desc
  BY WindowIn DEF DiskInv, DiskTypeOK, RingsOK, Completed, Offered
<1>2. Cardinality(Completed) \in Nat /\ Cardinality(device) \in Nat /\ Cardinality(Offered) \in Nat
      /\ Cardinality(dfree) \in Nat
  BY <1>1, DescFinite
<1>3. Cardinality(Completed) + Cardinality(device) + Cardinality(Offered) <= Cardinality(InFlight)
      /\ Cardinality(InFlight) \in Nat /\ Cardinality(dfree) = NUM - 3 * Cardinality(InFlight)
  BY WaitingIn DEF DiskInv, RingsOK, Unique, CountOK
<1> QED BY <1>1, <1>2, <1>3, DiskConst

LEMMA InvIntact == DiskInv => RequestsIntact
<1> SUFFICES ASSUME DiskInv PROVE RequestsIntact
  OBVIOUS
<1>1. \A p \in InFlight : p \in DiskProc /\ Owned(p) /\ Links(p) = {head[p], Second(p), Third(p)}
  BY LinksAre DEF DiskInv, ChainsOK, InFlight
<1>2. \A p \in InFlight : \A i \in Links(p) : i \notin dfree /\ desc[i].addr = p
  BY <1>1 DEF Owned
<1>3. ASSUME NEW p \in InFlight PROVE Cardinality(Links(p)) = 3 /\ info[head[p]].b = p
  <2>1. Owned(p) /\ Links(p) = {head[p], Second(p), Third(p)}
    BY <1>1
  <2>2. IsFiniteSet({head[p]}) /\ Cardinality({head[p]}) = 1
    BY FS_Singleton, Zenon
  <2>3. IsFiniteSet({head[p]} \cup {Second(p)}) /\ Cardinality({head[p]} \cup {Second(p)}) = 2
    <3>1. Second(p) \notin {head[p]}
      BY <2>1, Zenon DEF Owned
    <3>2. /\ IsFiniteSet({head[p]} \cup {Second(p)})
          /\ Cardinality({head[p]} \cup {Second(p)}) = Cardinality({head[p]}) + 1
      BY <2>2, <3>1, FS_AddElement, Zenon
    <3> QED BY <2>2, <3>2
  <2>4. Third(p) \notin {head[p]} \cup {Second(p)}
    BY <2>1, Zenon DEF Owned
  <2>5. Cardinality(({head[p]} \cup {Second(p)}) \cup {Third(p)}) = 3
    <3>1. Cardinality(({head[p]} \cup {Second(p)}) \cup {Third(p)})
            = Cardinality({head[p]} \cup {Second(p)}) + 1
      BY <2>3, <2>4, FS_AddElement, Zenon
    <3> QED BY <2>3, <3>1
  <2>6. ({head[p]} \cup {Second(p)}) \cup {Third(p)} = Links(p)
    BY <2>1
  <2> QED BY <2>1, <2>5, <2>6 DEF Owned
<1>4. \A p, q \in InFlight : p # q => Links(p) \cap Links(q) = {}
  BY <1>2
<1>5. {q \in InFlight : bdisk[q]} = Waiting
  BY DEF DiskInv, FlagsOK, InFlight, Waiting
<1>6. Cardinality(dfree) = NUM - 3 * Cardinality(InFlight)
  BY DEF DiskInv, CountOK
<1>7. /\ Completed \cup device \cup Offered = {head[p] : p \in {q \in InFlight : bdisk[q]}}
      /\ Cardinality(Completed) + Cardinality(device) + Cardinality(Offered)
           = Cardinality({q \in InFlight : bdisk[q]})
      /\ \A i \in Completed : info[i].ok
  BY <1>5 DEF DiskInv, RingsOK, Unique, Heads
<1> QED BY <1>2, <1>3, <1>4, <1>6, <1>7 DEF RequestsIntact

LEMMA DiskInitOK == DiskInit => DiskInv
<1> SUFFICES ASSUME DiskInit PROVE DiskInv
  OBVIOUS
<1>1. 0 \in Desc /\ used_idx \in Idx
  BY DiskConst DEF Desc, Idx, DiskInit
<1>2. DiskTypeOK
  BY <1>1 DEF DiskInit, DiskTypeOK, NoDesc, Places
<1>3. InFlight = {} /\ Waiting = {} /\ Heads = {}
  BY DEF DiskInit, InFlight, Waiting, Heads
<1>4. ChainsOK /\ FlagsOK
  BY <1>3 DEF DiskInit, ChainsOK, FlagsOK
<1>5. IsFiniteSet({}) /\ Cardinality({}) = 0
  BY FS_EmptySet
<1>6. CountOK
  <2>1. Cardinality(dfree) = NUM
    BY DescFinite DEF DiskInit
  <2> QED BY <1>3, <1>5, <2>1, DiskConst DEF CountOK
<1>7. ASSUME NEW ring \in [Desc -> Desc] PROVE Tidy(ring, used_idx, used_idx) /\ Window(ring, used_idx, used_idx) = {}
  <2>1. used_idx - used_idx = 0 /\ 0 % IDXMOD = 0
    BY <1>1, DiskConst DEF Idx
  <2>2. Ahead(used_idx, used_idx) = 0 /\ 0 .. 0 - 1 = {}
    BY <2>1 DEF Ahead
  <2>3. Window(ring, used_idx, used_idx) = {}
    BY <2>2 DEF Window, Ahead
  <2> QED BY <1>1, <1>5, <2>2, <2>3 DEF Tidy
<1>8. RingsOK
  <2>1. Completed = {} /\ Offered = {} /\ device = {}
        /\ Tidy(used.ring, used_idx, used.idx) /\ Tidy(avail.ring, seen, avail.idx)
    BY <1>1, <1>7 DEF DiskInit, Completed, Offered
  <2> QED BY <1>3, <1>5, <2>1 DEF RingsOK, Unique
<1> QED BY <1>2, <1>4, <1>6, <1>8 DEF DiskInv

-----------------------------------------------------------------------------
(* The steps.                                                              *)

LEMMA KeepOwned ==
  ASSUME NEW p \in DiskProc, Owned(p), head'[p] = head[p],
         \A i \in {head[p], Second(p), Third(p)} : desc'[i] = desc[i] /\ i \notin dfree',
         info'[head[p]].b = info[head[p]].b
  PROVE  Owned(p)'
<1>1. Second(p)' = Second(p)
  BY DEF Second
<1>2. Third(p)' = Third(p)
  BY <1>1 DEF Third
<1> QED BY <1>1, <1>2 DEF Owned

(* Descriptors i0, i1 and i2, linked for p.                                *)
LEMMA NewOwned ==
  ASSUME NEW p, NEW i0 \in Desc, NEW i1 \in Desc, NEW i2 \in Desc,
         i0 # i1, i0 # i2, i1 # i2, i0 \notin dfree', i1 \notin dfree', i2 \notin dfree',
         head'[p] = i0, desc'[i0] = [addr |-> p, next |-> i1],
         desc'[i1] = [addr |-> p, next |-> i2], desc'[i2] = [addr |-> p, next |-> -1],
         info'[i0].b = p
  PROVE  Owned(p)'
<1>1. Second(p)' = i1 /\ desc'[i0].addr = p
  BY DEF Second
<1>2. Third(p)' = i2 /\ desc'[i1].addr = p /\ desc'[i2].addr = p
  BY <1>1 DEF Third
<1> QED BY <1>1, <1>2 DEF Owned

(* What the rings and their indices are after a step.                      *)
LEMMA NextTidy ==
  ASSUME NEW r, NEW a, NEW b, Tidy(r, a, b)
  PROVE  /\ used'.ring = r /\ used_idx' = a /\ used'.idx = b => Tidy(used.ring, used_idx, used.idx)'
         /\ avail'.ring = r /\ seen' = a /\ avail'.idx = b => Tidy(avail.ring, seen, avail.idx)'
<1>1. ASSUME used'.ring = r, used_idx' = a, used'.idx = b PROVE Tidy(used.ring, used_idx, used.idx)'
  <2>1. Ahead(used_idx, used.idx)' = Ahead(a, b)
    BY <1>1, Zenon DEF Ahead
  <2>2. \A k : At(used.ring, used_idx, k)' = At(r, a, k)
    BY <1>1, Zenon DEF At
  <2>3. Window(used.ring, used_idx, used.idx)' = Window(r, a, b)
    BY <1>1, Zenon DEF Window
  <2> QED BY <1>1, <2>1, <2>2, <2>3, Zenon DEF Tidy
<1>2. ASSUME avail'.ring = r, seen' = a, avail'.idx = b PROVE Tidy(avail.ring, seen, avail.idx)'
  <2>1. Ahead(seen, avail.idx)' = Ahead(a, b)
    BY <1>2, Zenon DEF Ahead
  <2>2. \A k : At(avail.ring, seen, k)' = At(r, a, k)
    BY <1>2, Zenon DEF At
  <2>3. Window(avail.ring, seen, avail.idx)' = Window(r, a, b)
    BY <1>2, Zenon DEF Window
  <2> QED BY <1>2, <2>1, <2>2, <2>3, Zenon DEF Tidy
<1> QED BY <1>1, <1>2

(* Steps that move no request.                                             *)
LEMMA QuietDisk ==
  ASSUME DiskInv, UNCHANGED <<dfree, desc, info, avail, used, used_idx, seen, device, bdisk, head>>,
         vpc' \in [DiskProc -> Places],
         \A q \in DiskProc : vpc'[q] = vpc[q]
           \/ (vpc[q] \notin {"waiting", "woken"} /\ vpc'[q] \notin {"waiting", "woken"})
  PROVE  DiskInv'
<1>1. InFlight' = InFlight /\ Waiting' = Waiting
  BY DEF InFlight, Waiting
<1>2. Completed' = Completed /\ Offered' = Offered /\ Heads' = Heads
  BY <1>1 DEF Completed, Offered, Heads, Window
<1>3. DiskTypeOK'
  BY DEF DiskInv, DiskTypeOK
<1>4. ChainsOK'
  BY <1>1, Zenon DEF DiskInv, ChainsOK, Owned, Second, Third
<1>5. CountOK'
  BY <1>1 DEF DiskInv, CountOK
<1>6. FlagsOK'
  BY DEF DiskInv, FlagsOK
<1>7. RingsOK'
  <2>1. Tidy(used.ring, used_idx, used.idx)' /\ Tidy(avail.ring, seen, avail.idx)'
    BY NextTidy, Zenon DEF DiskInv, RingsOK
  <2>2. Unique'
    BY <1>1, <1>2 DEF DiskInv, RingsOK, Unique
  <2> QED BY <1>2, <2>1, <2>2 DEF DiskInv, RingsOK
<1> QED BY <1>3, <1>4, <1>5, <1>6, <1>7 DEF DiskInv

LEMMA FirstDescIn ==
  ASSUME NEW S \in SUBSET Desc, S # {}
  PROVE  FirstDesc(S) \in S
<1>1. S \in SUBSET Nat
  BY DiskConst DEF Desc
<1>2. \E i \in S : \A j \in S : i <= j
  BY <1>1, LeastNat
<1> QED BY <1>2 DEF FirstDesc

(* alloc3_desc() finds three.                                              *)
LEMMA ThreeFree ==
  ASSUME dfree \in SUBSET Desc, Cardinality(dfree) >= 3
  PROVE  LET i0 == FirstDesc(dfree)
             i1 == FirstDesc(dfree \ {i0})
             i2 == FirstDesc(dfree \ {i0, i1})
         IN  /\ i0 \in dfree /\ i1 \in dfree /\ i2 \in dfree
             /\ i0 # i1 /\ i0 # i2 /\ i1 # i2
             /\ Cardinality(dfree \ {i0, i1, i2}) = Cardinality(dfree) - 3
<1> DEFINE i0 == FirstDesc(dfree)
           i1 == FirstDesc(dfree \ {i0})
           i2 == FirstDesc(dfree \ {i0, i1})
           c  == Cardinality(dfree)
<1>0. IsFiniteSet(dfree) /\ c \in Nat /\ c >= 3 /\ Cardinality({}) = 0
  BY DescFinite, FS_EmptySet
<1> HIDE DEF i0, i1, i2, c
<1>1. i0 \in dfree
  <2>1. dfree # {}
    BY <1>0 DEF c
  <2> QED BY <2>1, FirstDescIn DEF i0
<1>2. IsFiniteSet(dfree \ {i0}) /\ Cardinality(dfree \ {i0}) = c - 1
  BY <1>0, <1>1, FS_RemoveElement DEF c
<1>3. i1 \in dfree \ {i0}
  <2>1. dfree \ {i0} # {} /\ dfree \ {i0} \in SUBSET Desc
    BY <1>0, <1>2
  <2> QED BY <2>1, FirstDescIn DEF i1
<1>4. IsFiniteSet((dfree \ {i0}) \ {i1}) /\ Cardinality((dfree \ {i0}) \ {i1}) = c - 1 - 1
  BY <1>2, <1>3, FS_RemoveElement
<1>5. (dfree \ {i0}) \ {i1} = dfree \ {i0, i1} /\ c - 1 - 1 = c - 2
  BY <1>0
<1>6. i2 \in dfree \ {i0, i1}
  <2>1. dfree \ {i0, i1} # {} /\ dfree \ {i0, i1} \in SUBSET Desc
    BY <1>0, <1>4, <1>5
  <2> QED BY <2>1, FirstDescIn DEF i2
<1>7. Cardinality((dfree \ {i0, i1}) \ {i2}) = c - 2 - 1
  BY <1>4, <1>5, <1>6, FS_RemoveElement
<1>8. (dfree \ {i0, i1}) \ {i2} = dfree \ {i0, i1, i2} /\ c - 2 - 1 = c - 3
  BY <1>0
<1>9. Cardinality(dfree \ {i0, i1, i2}) = c - 3
  BY <1>7, <1>8
<1>10. /\ i0 \in dfree /\ i1 \in dfree /\ i2 \in dfree /\ i0 # i1 /\ i0 # i2 /\ i1 # i2
       /\ Cardinality(dfree \ {i0, i1, i2}) = Cardinality(dfree) - 3
  BY <1>1, <1>3, <1>6, <1>9 DEF c
<1> QED BY <1>10, Zenon DEF i0, i1, i2

LEMMA RwOK ==
  ASSUME DiskInv, NEW p \in DiskProc, virtio_disk_rw(p)
  PROVE  DiskInv'
<1> DEFINE i0 == FirstDesc(dfree)
           i1 == FirstDesc(dfree \ {i0})
           i2 == FirstDesc(dfree \ {i0, i1})
<1>1. /\ vpc[p] = "ready" /\ Cardinality(dfree) >= 3
      /\ dfree' = dfree \ {i0, i1, i2}
      /\ desc' = [desc EXCEPT ![i0] = [addr |-> p, next |-> i1],
                              ![i1] = [addr |-> p, next |-> i2],
                              ![i2] = [addr |-> p, next |-> -1]]
      /\ info' = [info EXCEPT ![i0] = [b |-> p, ok |-> FALSE]]
      /\ bdisk' = [bdisk EXCEPT ![p] = TRUE]
      /\ avail' = [idx |-> (avail.idx + 1) % IDXMOD,
                   ring |-> [avail.ring EXCEPT ![avail.idx % NUM] = i0]]
      /\ head' = [head EXCEPT ![p] = i0]
      /\ vpc' = [vpc EXCEPT ![p] = "waiting"]
      /\ UNCHANGED <<used, used_idx, seen, device>>
  BY Zenon DEF virtio_disk_rw, VGoTo
<1>2. DiskTypeOK /\ ChainsOK /\ CountOK /\ FlagsOK /\ RingsOK
  BY DEF DiskInv
<1>3. /\ i0 \in dfree /\ i1 \in dfree /\ i2 \in dfree /\ i0 # i1 /\ i0 # i2 /\ i1 # i2
      /\ Cardinality(dfree \ {i0, i1, i2}) = Cardinality(dfree) - 3
  BY <1>1, <1>2, ThreeFree, Zenon DEF DiskTypeOK
<1> HIDE DEF i0, i1, i2
<1>4. i0 \in Desc /\ i1 \in Desc /\ i2 \in Desc
  BY <1>2, <1>3 DEF DiskTypeOK
<1>5. DiskTypeOK'
  BY <1>1, <1>2, <1>4 DEF DiskTypeOK, Places
<1>6. InFlight' = InFlight \cup {p} /\ p \notin InFlight /\ Waiting' = Waiting \cup {p} /\ p \notin Waiting
  BY <1>1, <1>2 DEF InFlight, Waiting, DiskTypeOK
<1>7. \A q \in InFlight : q \in DiskProc /\ q # p /\ Owned(q)
  BY <1>2, <1>6 DEF InFlight, ChainsOK
<1>8. ChainsOK'
  <2>1. ASSUME NEW q \in InFlight PROVE Owned(q)'
    <3>1. Owned(q) /\ q \in DiskProc /\ head'[q] = head[q]
      BY <1>1, <1>2, <1>7, Zenon DEF DiskTypeOK
    <3>2. \A i \in {head[q], Second(q), Third(q)} : i \in Desc /\ i \notin dfree
      BY <3>1 DEF Owned
    <3>3. \A i \in {head[q], Second(q), Third(q)} : desc'[i] = desc[i] /\ i \notin dfree'
      <4>1. \A i \in Desc : i \notin dfree => i # i0 /\ i # i1 /\ i # i2 /\ i \notin dfree'
        BY <1>1, <1>3, Zenon
      <4>2. \A i \in Desc : i # i0 /\ i # i1 /\ i # i2 => desc'[i] = desc[i]
        BY <1>1, <1>2 DEF DiskTypeOK
      <4> QED BY <3>2, <4>1, <4>2, Zenon
    <3>4. info'[head[q]].b = info[head[q]].b
      BY <1>1, <1>2, <1>3, <3>2, Zenon DEF DiskTypeOK
    <3> QED BY <3>1, <3>3, <3>4, KeepOwned
  <2>2. Owned(p)'
    <3>1. head'[p] = i0 /\ desc'[i0] = [addr |-> p, next |-> i1]
          /\ desc'[i1] = [addr |-> p, next |-> i2] /\ desc'[i2] = [addr |-> p, next |-> -1]
          /\ info'[i0].b = p
      BY <1>1, <1>2, <1>3, <1>4, Zenon DEF DiskTypeOK
    <3>2. i0 \notin dfree' /\ i1 \notin dfree' /\ i2 \notin dfree'
      BY <1>1, Zenon
    <3> QED BY <1>3, <1>4, <3>1, <3>2, NewOwned, Zenon
  <2> QED BY <1>6, <2>1, <2>2 DEF ChainsOK
<1>9. CountOK'
  <2>1. IsFiniteSet(InFlight) /\ Cardinality(InFlight) \in Nat
    BY <1>2, WaitingIn DEF CountOK
  <2>2. IsFiniteSet(InFlight') /\ Cardinality(InFlight') = Cardinality(InFlight) + 1
    BY <1>6, <2>1, FS_AddElement
  <2> QED BY <1>1, <1>2, <1>3, <2>1, <2>2, DiskConst DEF CountOK
<1>10. FlagsOK'
  BY <1>1, <1>2 DEF FlagsOK, DiskTypeOK
<1>11. Heads' = Heads \cup {i0} /\ i0 \notin Heads
  <2>1. head'[p] = i0 /\ \A q \in Waiting : head'[q] = head[q] /\ head[q] # i0
    <3>1. head'[p] = i0 /\ \A q \in DiskProc : q # p => head'[q] = head[q]
      BY <1>1, <1>2 DEF DiskTypeOK
    <3>2. \A q \in InFlight : head[q] # i0
      <4>1. \A q \in InFlight : head[q] \notin dfree
        BY <1>7 DEF Owned
      <4> QED BY <1>3, <4>1, Zenon
    <3>3. \A q \in Waiting : q \in InFlight /\ q \in DiskProc /\ q # p
      BY <1>6, <1>7, Zenon DEF Waiting, InFlight
    <3> QED BY <3>1, <3>2, <3>3, Zenon
  <2> QED BY <1>6, <2>1 DEF Heads
<1>12. i0 \notin Completed /\ i0 \notin device /\ i0 \notin Offered
  BY <1>2, <1>11 DEF RingsOK
<1>13. Tidy(avail.ring, seen, avail.idx)' /\ Offered' = Offered \cup {i0}
  <2>1. Tidy(avail.ring, seen, avail.idx) /\ i0 \notin Window(avail.ring, seen, avail.idx)
    BY <1>2, <1>12 DEF RingsOK, Offered
  <2>2. Ahead(seen, avail.idx) + 1 < NUM
    <3>1. Cardinality(Offered) = Ahead(seen, avail.idx)
      BY <2>1 DEF Tidy, Offered
    <3>2. Ahead(seen, avail.idx) \in Nat /\ 3 * Ahead(seen, avail.idx) + 3 <= NUM
      BY <1>1, <3>1, RoomInRings, DiskConst
    <3> QED BY <3>2, DiskConst
  <2>3. avail'.ring = [avail.ring EXCEPT ![avail.idx % NUM] = i0]
        /\ avail'.idx = (avail.idx + 1) % IDXMOD /\ seen' = seen
    BY <1>1
  <2>4. Tidy(avail'.ring, seen, avail'.idx)
        /\ Window(avail'.ring, seen, avail'.idx) = Window(avail.ring, seen, avail.idx) \cup {i0}
    BY <1>4, <2>1, <2>2, <2>3, PushEntry
  <2>5. Tidy(avail.ring, seen, avail.idx)'
    BY <2>3, <2>4, NextTidy, Zenon
  <2>6. Offered' = Window(avail'.ring, seen, avail'.idx)
    BY <2>3, Zenon DEF Offered, Window, At, Ahead
  <2>7. Offered = Window(avail.ring, seen, avail.idx)
    BY Zenon DEF Offered
  <2> QED BY <2>4, <2>5, <2>6, <2>7, Zenon
<1>14. Tidy(used.ring, used_idx, used.idx)' /\ Completed' = Completed
  <2>1. Tidy(used.ring, used_idx, used.idx)'
    BY <1>1, <1>2, NextTidy, Zenon DEF RingsOK
  <2> QED BY <1>1, <2>1, Zenon DEF Completed, Window
<1>15. Unique'
  <2>1. Cardinality(Offered') = Cardinality(Offered) + 1
    BY <1>12, <1>13, RoomInRings, DescFinite, FS_AddElement
  <2>2. Cardinality(Waiting') = Cardinality(Waiting) + 1
    <3>1. IsFiniteSet(Waiting)
      BY <1>2, WaitingIn
    <3> QED BY <1>6, <3>1, FS_AddElement, Zenon
  <2>3. device' = device
    BY <1>1, ZenonT(30)
  <2>4. Cardinality(Completed) + Cardinality(device) + (Cardinality(Offered) + 1) = Cardinality(Waiting) + 1
    BY <1>2, RoomInRings, WaitingIn DEF RingsOK, Unique
  <2>5. Completed' \cap device' = {} /\ Completed' \cap Offered' = {} /\ device' \cap Offered' = {}
    BY <1>2, <1>12, <1>13, <1>14, <2>3 DEF RingsOK, Unique
  <2> QED BY <1>14, <2>1, <2>2, <2>3, <2>4, <2>5 DEF Unique
<1>16. RingsOK'
  <2>1. Completed' \cup device' \cup Offered' = Heads'
    BY <1>1, <1>2, <1>11, <1>13, <1>14 DEF RingsOK
  <2>2. \A i \in Completed' : info'[i].ok
    <3>1. ASSUME NEW i \in Completed PROVE info'[i] = info[i]
      <4>1. i \in Desc /\ i # i0
        BY <1>12, RoomInRings
      <4> QED BY <1>1, <1>2, <4>1 DEF DiskTypeOK
    <3> QED BY <1>2, <1>14, <3>1 DEF RingsOK
  <2> QED BY <1>13, <1>14, <1>15, <2>1, <2>2 DEF RingsOK
<1> QED BY <1>5, <1>8, <1>9, <1>10, <1>16 DEF DiskInv

(* Chains, heads and counts when descriptors and processes stay in place.  *)
LEMMA SameChains ==
  ASSUME DiskInv, UNCHANGED <<dfree, desc, head>>, InFlight' = InFlight,
         \A i \in Desc : info'[i].b = info[i].b
  PROVE  ChainsOK' /\ CountOK'
<1>1. ChainsOK'
  <2>1. ASSUME NEW q \in InFlight PROVE Owned(q)'
    <3>1. Owned(q) /\ q \in DiskProc
      BY DEF DiskInv, ChainsOK, InFlight
    <3>2. \A i \in {head[q], Second(q), Third(q)} : desc'[i] = desc[i] /\ i \notin dfree'
      BY <3>1 DEF Owned
    <3>3. info'[head[q]].b = info[head[q]].b
      BY <3>1 DEF Owned
    <3> QED BY <3>1, <3>2, <3>3, KeepOwned
  <2> QED BY <2>1 DEF ChainsOK
<1>2. CountOK'
  BY DEF DiskInv, CountOK
<1> QED BY <1>1, <1>2

LEMMA UsedEntryOK ==
  ASSUME DiskInv, UsedEntry
  PROVE  DiskInv'
<1> DEFINE x == used.ring[used_idx % NUM]
           b == info[x].b
<1>1. /\ used_idx # used.idx
      /\ bdisk' = [bdisk EXCEPT ![b] = FALSE]
      /\ vpc' = [vpc EXCEPT ![b] = "woken"]
      /\ used_idx' = (used_idx + 1) % IDXMOD
      /\ UNCHANGED <<dfree, desc, info, avail, used, seen, device, head>>
  BY DEF UsedEntry, VGoTo
<1>2. DiskTypeOK /\ ChainsOK /\ CountOK /\ FlagsOK /\ RingsOK
  BY DEF DiskInv
<1>3. /\ Tidy(used.ring, (used_idx + 1) % IDXMOD, used.idx) /\ x \in Completed
      /\ Window(used.ring, (used_idx + 1) % IDXMOD, used.idx) = Completed \ {x}
  BY <1>1, <1>2, PopEntry, Zenon DEF RingsOK, Completed
<1>4. b \in Waiting /\ head[b] = x
  <2>1. PICK q \in Waiting : head[q] = x
    BY <1>2, <1>3 DEF RingsOK, Heads
  <2>2. Owned(q)
    BY <1>2, <2>1, WaitingIn DEF ChainsOK
  <2> QED BY <2>1, <2>2 DEF Owned
<1> HIDE DEF x, b
<1>5. Waiting' = Waiting \ {b} /\ InFlight' = InFlight
  BY <1>1, <1>2, <1>4 DEF Waiting, InFlight, DiskTypeOK
<1>6. DiskTypeOK'
  BY <1>1, <1>2, <1>4 DEF DiskTypeOK, Places, Waiting
<1>7. ChainsOK' /\ CountOK'
  BY <1>1, <1>5, SameChains
<1>8. FlagsOK'
  BY <1>1, <1>2 DEF FlagsOK, DiskTypeOK
<1>9. Heads' = Heads \ {x}
  <2>1. \A q \in Waiting : head[q] = x => q = b
    BY <1>2, <1>4, HeadsDiffer, WaitingIn
  <2> QED BY <1>1, <1>4, <1>5, <2>1 DEF Heads
<1>10. Completed' = Completed \ {x} /\ Offered' = Offered
  <2>1. Completed' = Window(used.ring, (used_idx + 1) % IDXMOD, used.idx)
    BY <1>1 DEF Completed, Window
  <2> QED BY <1>1, <1>3, <2>1 DEF Offered, Window
<1>11. Tidy(used.ring, used_idx, used.idx)' /\ Tidy(avail.ring, seen, avail.idx)'
  <2>1. Tidy(used.ring, used_idx, used.idx)'
    BY <1>1, <1>3, NextTidy, Zenon
  <2>2. Tidy(avail.ring, seen, avail.idx)'
    BY <1>1, <1>2, NextTidy, Zenon DEF RingsOK
  <2> QED BY <2>1, <2>2
<1>12. Unique'
  <2>1. Cardinality(Completed \ {x}) = Cardinality(Completed) - 1
    BY <1>3, RoomInRings, DescFinite, FS_RemoveElement
  <2>2. Cardinality(Waiting') = Cardinality(Waiting) - 1
    <3>1. IsFiniteSet(Waiting)
      BY <1>2, WaitingIn
    <3>2. Cardinality(Waiting \ {b}) = Cardinality(Waiting) - 1
      BY <1>4, <3>1, FS_RemoveElement
    <3> QED BY <1>5, <3>2
  <2>3. device' = device
    BY <1>1
  <2>4. (Cardinality(Completed) - 1) + Cardinality(device) + Cardinality(Offered) = Cardinality(Waiting) - 1
    BY <1>2, RoomInRings, WaitingIn DEF RingsOK, Unique
  <2>5. Completed' \cap device' = {} /\ Completed' \cap Offered' = {} /\ device' \cap Offered' = {}
    BY <1>2, <1>10, <2>3 DEF RingsOK, Unique
  <2> QED BY <1>10, <2>1, <2>2, <2>3, <2>4, <2>5 DEF Unique
<1>13. RingsOK'
  <2>1. Completed' \cup device' \cup Offered' = Heads'
    <3>1. x \notin device /\ x \notin Offered
      BY <1>2, <1>3 DEF RingsOK, Unique
    <3> QED BY <1>1, <1>2, <1>9, <1>10, <3>1 DEF RingsOK
  <2>2. \A i \in Completed' : info'[i].ok
    BY <1>1, <1>2, <1>10 DEF RingsOK
  <2> QED BY <1>11, <1>12, <2>1, <2>2 DEF RingsOK
<1> QED BY <1>6, <1>7, <1>8, <1>13 DEF DiskInv

LEMMA TakesOK ==
  ASSUME DiskInv, DeviceTakes
  PROVE  DiskInv'
<1> DEFINE x == avail.ring[seen % NUM]
<1>1. /\ seen # avail.idx
      /\ device' = device \cup {x}
      /\ seen' = (seen + 1) % IDXMOD
      /\ UNCHANGED <<dfree, desc, info, avail, used, used_idx, bdisk, vpc, head>>
  BY DEF DeviceTakes
<1>2. DiskTypeOK /\ ChainsOK /\ CountOK /\ FlagsOK /\ RingsOK
  BY DEF DiskInv
<1>3. /\ Tidy(avail.ring, (seen + 1) % IDXMOD, avail.idx) /\ x \in Offered
      /\ Window(avail.ring, (seen + 1) % IDXMOD, avail.idx) = Offered \ {x}
  BY <1>1, <1>2, PopEntry DEF RingsOK, Offered
<1> HIDE DEF x
<1>4. x \in Desc /\ x \notin device
  BY <1>2, <1>3, RoomInRings DEF RingsOK, Unique
<1>5. Waiting' = Waiting /\ InFlight' = InFlight
  BY <1>1 DEF Waiting, InFlight
<1>6. DiskTypeOK' /\ FlagsOK'
  BY <1>1, <1>2, <1>4 DEF DiskTypeOK, FlagsOK
<1>7. ChainsOK' /\ CountOK'
  BY <1>1, <1>5, SameChains
<1>8. Heads' = Heads
  BY <1>1, <1>5 DEF Heads
<1>9. Offered' = Offered \ {x} /\ Completed' = Completed
  <2>1. Offered' = Window(avail.ring, (seen + 1) % IDXMOD, avail.idx)
    BY <1>1 DEF Offered, Window
  <2> QED BY <1>1, <1>3, <2>1 DEF Completed, Window
<1>10. Tidy(used.ring, used_idx, used.idx)' /\ Tidy(avail.ring, seen, avail.idx)'
  <2>1. Tidy(avail.ring, seen, avail.idx)'
    BY <1>1, <1>3, NextTidy, Zenon
  <2>2. Tidy(used.ring, used_idx, used.idx)'
    BY <1>1, <1>2, NextTidy, Zenon DEF RingsOK
  <2> QED BY <2>1, <2>2
<1>11. Unique'
  <2>1. Cardinality(Offered \ {x}) = Cardinality(Offered) - 1
    BY <1>3, RoomInRings, DescFinite, FS_RemoveElement
  <2>2. Cardinality(device \cup {x}) = Cardinality(device) + 1
    BY <1>2, <1>4, DescFinite, FS_AddElement DEF DiskTypeOK
  <2>3. Cardinality(Completed) + (Cardinality(device) + 1) + (Cardinality(Offered) - 1) = Cardinality(Waiting)
    BY <1>2, RoomInRings, WaitingIn DEF RingsOK, Unique
  <2>4. Completed' \cap device' = {} /\ Completed' \cap Offered' = {} /\ device' \cap Offered' = {}
    BY <1>1, <1>2, <1>3, <1>9 DEF RingsOK, Unique
  <2> QED BY <1>1, <1>5, <1>9, <2>1, <2>2, <2>3, <2>4 DEF Unique
<1>12. RingsOK'
  <2>1. Completed' \cup device' \cup Offered' = Heads'
    BY <1>1, <1>2, <1>3, <1>8, <1>9 DEF RingsOK
  <2>2. \A i \in Completed' : info'[i].ok
    BY <1>1, <1>2, <1>9 DEF RingsOK
  <2> QED BY <1>10, <1>11, <2>1, <2>2 DEF RingsOK
<1> QED BY <1>6, <1>7, <1>12 DEF DiskInv

LEMMA CompletesOK ==
  ASSUME DiskInv, NEW x \in Desc, DeviceCompletes(x)
  PROVE  DiskInv'
<1>1. /\ x \in device /\ device' = device \ {x}
      /\ info' = [info EXCEPT ![x].ok = TRUE]
      /\ used' = [idx |-> (used.idx + 1) % IDXMOD,
                  ring |-> [used.ring EXCEPT ![used.idx % NUM] = x]]
      /\ UNCHANGED <<dfree, desc, avail, used_idx, seen, bdisk, vpc, head>>
  BY DEF DeviceCompletes
<1>2. DiskTypeOK /\ ChainsOK /\ CountOK /\ FlagsOK /\ RingsOK
  BY DEF DiskInv
<1>3. x \notin Completed /\ x \notin Offered
  BY <1>1, <1>2 DEF RingsOK, Unique
<1>4. \A i \in Desc : info'[i].b = info[i].b /\ (info[i].ok => info'[i].ok)
  BY <1>1, <1>2 DEF DiskTypeOK
<1>5. Waiting' = Waiting /\ InFlight' = InFlight
  BY <1>1 DEF Waiting, InFlight
<1>6. DiskTypeOK' /\ FlagsOK'
  BY <1>1, <1>2, Zenon DEF DiskTypeOK, FlagsOK
<1>7. ChainsOK' /\ CountOK'
  BY <1>1, <1>4, <1>5, SameChains
<1>8. Heads' = Heads
  BY <1>1, <1>5 DEF Heads
<1>9. Cardinality(device \ {x}) = Cardinality(device) - 1 /\ Cardinality(device) \in Nat
      /\ Cardinality(device \ {x}) \in Nat
  BY <1>1, <1>2, DescFinite, FS_RemoveElement, FS_CardinalityType DEF DiskTypeOK
<1>10. Tidy(used.ring, used_idx, used.idx)' /\ Completed' = Completed \cup {x}
  <2>1. Tidy(used.ring, used_idx, used.idx) /\ x \notin Window(used.ring, used_idx, used.idx)
    BY <1>2, <1>3 DEF RingsOK, Completed
  <2>2. Ahead(used_idx, used.idx) + 1 < NUM
    <3>1. Cardinality(Completed) = Ahead(used_idx, used.idx)
      BY <2>1 DEF Tidy, Completed
    <3>2. Ahead(used_idx, used.idx) \in Nat /\ 3 * (Ahead(used_idx, used.idx) + 1) <= NUM
      BY <1>9, <3>1, RoomInRings, DiskConst
    <3> QED BY <3>2, DiskConst
  <2>3. used'.ring = [used.ring EXCEPT ![used.idx % NUM] = x]
        /\ used'.idx = (used.idx + 1) % IDXMOD /\ used_idx' = used_idx
    BY <1>1
  <2>4. Tidy(used'.ring, used_idx, used'.idx)
        /\ Window(used'.ring, used_idx, used'.idx) = Window(used.ring, used_idx, used.idx) \cup {x}
    BY <2>1, <2>2, <2>3, PushEntry
  <2>5. Tidy(used.ring, used_idx, used.idx)'
    BY <2>3, <2>4, NextTidy, Zenon
  <2> QED BY <2>3, <2>4, <2>5 DEF Completed, Window
<1>11. Tidy(avail.ring, seen, avail.idx)' /\ Offered' = Offered
  <2>1. Tidy(avail.ring, seen, avail.idx)'
    BY <1>1, <1>2, NextTidy, Zenon DEF RingsOK
  <2> QED BY <1>1, <2>1, Zenon DEF Offered, Window
<1>12. Unique'
  <2>1. Cardinality(Completed') = Cardinality(Completed) + 1
    BY <1>3, <1>10, RoomInRings, DescFinite, FS_AddElement
  <2>2. (Cardinality(Completed) + 1) + (Cardinality(device) - 1) + Cardinality(Offered) = Cardinality(Waiting)
    BY <1>2, RoomInRings, WaitingIn DEF RingsOK, Unique
  <2>3. Completed' \cap device' = {} /\ Completed' \cap Offered' = {} /\ device' \cap Offered' = {}
    BY <1>1, <1>2, <1>3, <1>10, <1>11 DEF RingsOK, Unique
  <2> QED BY <1>1, <1>5, <1>9, <1>11, <2>1, <2>2, <2>3 DEF Unique
<1>13. RingsOK'
  <2>1. Completed' \cup device' \cup Offered' = Heads'
    BY <1>1, <1>2, <1>8, <1>10, <1>11 DEF RingsOK
  <2>2. \A i \in Completed' : info'[i].ok
    <3>1. info'[x].ok /\ Completed \subseteq Desc
      BY <1>1, <1>2, RoomInRings DEF DiskTypeOK
    <3> QED BY <1>2, <1>4, <1>10, <3>1 DEF RingsOK
  <2> QED BY <1>10, <1>11, <1>12, <2>1, <2>2 DEF RingsOK
<1> QED BY <1>6, <1>7, <1>13 DEF DiskInv

LEMMA FinishOK ==
  ASSUME DiskInv, NEW p \in DiskProc, Finish(p)
  PROVE  DiskInv'
<1> DEFINE C == {head[p], Second(p), Third(p)}
<1>1. DiskTypeOK /\ ChainsOK /\ CountOK /\ FlagsOK /\ RingsOK
  BY DEF DiskInv
<1>2. vpc[p] = "woken" /\ p \in InFlight /\ p \notin Waiting
  BY DEF Finish, InFlight, Waiting
<1>3. Owned(p)
  BY <1>1, <1>2 DEF ChainsOK
<1>4. free_chain(head[p]) = dfree \cup C /\ free_chain(head[p]) \ dfree = C
  <2>1. free_chain(head[p]) = dfree \cup C
    BY DEF free_chain, Second, Third
  <2> QED BY <1>3, <2>1 DEF Owned
<1>5. /\ info' = [info EXCEPT ![head[p]].b = NoReq]
      /\ dfree' = dfree \cup C
      /\ desc' = [i \in Desc |-> IF i \in C THEN NoDesc ELSE desc[i]]
      /\ vpc' = [q \in DiskProc |-> IF q = p THEN "idle"
                                    ELSE IF vpc[q] = "asleep" THEN "ready" ELSE vpc[q]]
      /\ head' = [head EXCEPT ![p] = 0]
      /\ UNCHANGED <<avail, used, used_idx, seen, device, bdisk>>
  BY <1>4 DEF Finish, WakeAndGoTo, rings
<1>6. C \subseteq Desc /\ C \cap dfree = {} /\ \A i \in C : desc[i].addr = p
  BY <1>3 DEF Owned
<1>7. Cardinality(dfree \cup C) = Cardinality(dfree) + 3
  <2>1. IsFiniteSet(dfree) /\ Cardinality(dfree) \in Nat
    BY <1>1, DescFinite DEF DiskTypeOK
  <2>2. head[p] \notin dfree /\ Second(p) \notin dfree \cup {head[p]}
        /\ Third(p) \notin (dfree \cup {head[p]}) \cup {Second(p)}
    BY <1>3 DEF Owned
  <2>3. IsFiniteSet(dfree \cup {head[p]}) /\ Cardinality(dfree \cup {head[p]}) = Cardinality(dfree) + 1
    BY <2>1, <2>2, FS_AddElement
  <2>4. IsFiniteSet((dfree \cup {head[p]}) \cup {Second(p)})
        /\ Cardinality((dfree \cup {head[p]}) \cup {Second(p)}) = Cardinality(dfree) + 1 + 1
    BY <2>2, <2>3, FS_AddElement
  <2>5. Cardinality(((dfree \cup {head[p]}) \cup {Second(p)}) \cup {Third(p)}) = Cardinality(dfree) + 1 + 1 + 1
    BY <2>2, <2>4, FS_AddElement
  <2>6. ((dfree \cup {head[p]}) \cup {Second(p)}) \cup {Third(p)} = dfree \cup C
        /\ Cardinality(dfree) + 1 + 1 + 1 = Cardinality(dfree) + 3
    BY <2>1
  <2> QED BY <2>5, <2>6
<1> HIDE DEF C
<1>8. DiskTypeOK'
  <2>1. 0 \in Desc
    BY DiskConst DEF Desc
  <2>2. info' \in [Desc -> [b : DiskProc \cup {NoReq}, ok : BOOLEAN]]
    BY <1>1, <1>5 DEF DiskTypeOK
  <2>3. desc' \in [Desc -> [addr : DiskProc \cup {NoReq}, next : {-1} \cup Desc]]
    BY <1>1, <1>5 DEF DiskTypeOK, NoDesc
  <2>4. vpc' \in [DiskProc -> Places] /\ head' \in [DiskProc -> Desc]
    BY <1>1, <1>5, <2>1 DEF DiskTypeOK, Places
  <2> QED BY <1>1, <1>5, <1>6, <2>2, <2>3, <2>4 DEF DiskTypeOK
<1>9. InFlight' = InFlight \ {p} /\ Waiting' = Waiting
  BY <1>1, <1>2, <1>5 DEF InFlight, Waiting
<1>10. ChainsOK'
  <2>1. ASSUME NEW q \in InFlight, q # p PROVE Owned(q)'
    <3>1. Owned(q) /\ q \in DiskProc
      BY <1>1 DEF ChainsOK, InFlight
    <3>2. head'[q] = head[q]
      BY <1>1, <1>5, <2>1, <3>1 DEF DiskTypeOK
    <3>3. \A i \in {head[q], Second(q), Third(q)} : i \in Desc /\ i \notin dfree /\ i \notin C
      BY <1>6, <2>1, <3>1 DEF Owned
    <3>4. \A i \in {head[q], Second(q), Third(q)} : desc'[i] = desc[i] /\ i \notin dfree'
      BY <1>5, <3>3
    <3>5. info'[head[q]].b = info[head[q]].b
      <4>1. head[q] # head[p]
        BY <1>1, <1>2, <2>1, HeadsDiffer
      <4> QED BY <1>1, <1>5, <3>3, <4>1 DEF DiskTypeOK
    <3> QED BY <3>1, <3>2, <3>4, <3>5, KeepOwned
  <2> QED BY <1>9, <2>1 DEF ChainsOK
<1>11. CountOK'
  <2>1. IsFiniteSet(InFlight) /\ Cardinality(InFlight) \in Nat
    BY <1>1, WaitingIn DEF CountOK
  <2>2. IsFiniteSet(InFlight') /\ Cardinality(InFlight') = Cardinality(InFlight) - 1
    BY <1>2, <1>9, <2>1, FS_RemoveElement
  <2> QED BY <1>1, <1>5, <1>7, <2>1, <2>2, DiskConst DEF CountOK
<1>12. FlagsOK'
  BY <1>1, <1>2, <1>5 DEF FlagsOK
<1>13. Heads' = Heads
  <2>1. \A q \in Waiting : head'[q] = head[q]
    BY <1>1, <1>2, <1>5 DEF DiskTypeOK, Waiting
  <2> QED BY <1>9, <2>1 DEF Heads
<1>14. RingsOK'
  <2>1. Completed' = Completed /\ Offered' = Offered
    BY <1>5 DEF Completed, Offered, Window
  <2>2. Tidy(used.ring, used_idx, used.idx)' /\ Tidy(avail.ring, seen, avail.idx)'
    BY <1>1, <1>5, NextTidy, Zenon DEF RingsOK
  <2>3. Unique'
    BY <1>1, <1>5, <1>9, <2>1 DEF RingsOK, Unique
  <2>4. \A i \in Completed' : info'[i].ok
    <3>1. \A i \in Desc : info'[i].ok = info[i].ok
      BY <1>1, <1>5 DEF DiskTypeOK
    <3> QED BY <1>1, <2>1, <3>1, RoomInRings DEF RingsOK
  <2>5. Completed' \cup device' \cup Offered' = Heads'
    BY <1>1, <1>5, <1>13, <2>1 DEF RingsOK
  <2> QED BY <2>2, <2>3, <2>4, <2>5 DEF RingsOK
<1> QED BY <1>8, <1>10, <1>11, <1>12, <1>14 DEF DiskInv

LEMMA DiskNextOK == DiskInv /\ [DiskNext]_diskVars => DiskInv'
<1> SUFFICES ASSUME DiskInv, [DiskNext]_diskVars PROVE DiskInv'
  OBVIOUS
<1>0. vpc \in [DiskProc -> Places]
  BY DEF DiskInv, DiskTypeOK
<1>1. CASE UNCHANGED diskVars
  BY <1>0, <1>1, QuietDisk DEF diskVars
<1>2. ASSUME NEW p \in DiskProc, Request(p) PROVE DiskInv'
  BY <1>0, <1>2, QuietDisk DEF Request, VGoTo, rings, Places
<1>3. ASSUME NEW p \in DiskProc, NoDescriptors(p) PROVE DiskInv'
  BY <1>0, <1>3, QuietDisk DEF NoDescriptors, VGoTo, WakeAndGoTo, rings, Places
<1>4. CASE virtio_disk_intr
  BY <1>0, <1>4, QuietDisk DEF virtio_disk_intr
<1>5. CASE IntrReturns
  BY <1>0, <1>5, QuietDisk DEF IntrReturns
<1> QED BY <1>1, <1>2, <1>3, <1>4, <1>5, RwOK, FinishOK, UsedEntryOK, TakesOK, CompletesOK
        DEF DiskNext, DiskStep, DiskIntr, Device

(* virtio_disk.c: with any number of processes, of descriptors and of bits *)
(* in a ring index, no descriptor serves two requests or is lost, and the  *)
(* rings name each unfinished request once, however the device, its        *)
(* interrupt and the processes interleave: the handler never meets a       *)
(* request without a buffer or with a bad status.                          *)
THEOREM RequestsStayIntact == DiskSpec => []RequestsIntact
BY DiskInitOK, DiskNextOK, InvIntact, PTL DEF DiskSpec
=============================================================================
