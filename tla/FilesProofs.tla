----------------------------- MODULE FilesProofs ----------------------------
(***************************************************************************)
(* FilesCounted and PipeIsFifo of Files, for any number of processes,      *)
(* files, descriptors and bytes, and for a pipeline of Shell.  Only        *)
(* PipelineIsSafe uses ShellAssumption.                                    *)
(***************************************************************************)
EXTENDS Shell, FiniteSetTheorems, WellFoundedInduction, TLAPS

(* How long, in seconds, each prover may take over a step.                 *)
USE SMTT(30), ZenonT(30)

(* The smallest of a set of numbers.                                       *)
LEMMA LeastNat ==
  ASSUME NEW S \in SUBSET Nat, S # {}
  PROVE  \E x \in S : \A y \in S : x <= y
<1>. DEFINE R == OpToRel(<, Nat)
<1>1. IsWellFoundedOn(R, Nat)
  BY NatLessThanWellFounded, Zenon
<1>2. \A x, y \in Nat : x < y => <<x, y>> \in R
  BY DEF OpToRel
<1>. HIDE DEF R
<1>3. PICK x \in S : \A y \in S : ~ (<<y, x>> \in R)
  BY <1>1, WFMin, Zenon
<1>4. \A y \in S : y \in Nat /\ x \in Nat /\ ~ (y < x)
  BY <1>2, <1>3, Zenon
<1>5. \A y \in S : x <= y
  BY <1>4
<1>. QED BY <1>5

-----------------------------------------------------------------------------
(* Counters that wrap around at N, and buffers of M slots, where M divides *)
(* N.                                                                      *)
LEMMA ModRange ==
  ASSUME NEW M \in Int, M > 0, NEW x \in Int
  PROVE  x % M \in 0 .. M - 1
OBVIOUS

LEMMA ModIs ==
  ASSUME NEW M \in Int, M > 0, NEW x \in Int, NEW q \in Int, NEW y \in 0 .. M - 1,
         x = q * M + y
  PROVE  x % M = y
OBVIOUS

LEMMA ModWitness ==
  ASSUME NEW M \in Int, M > 0, NEW x \in Int
  PROVE  \E q \in Int : x = q * M + (x % M)
<1>1. x \div M \in Int
  OBVIOUS
<1>2. x = M * (x \div M) + (x % M)
  OBVIOUS
<1>3. x = (x \div M) * M + (x % M)
  BY <1>1, <1>2
<1> QED BY <1>1, <1>3

LEMMA ModSame ==
  ASSUME NEW M \in Int, M > 0, NEW x \in Int, NEW y \in Int, NEW q \in Int,
         x = q * M + y
  PROVE  x % M = y % M
<1>1. PICK k \in Int : y = k * M + (y % M)
  BY ModWitness
<1>2. y % M \in 0 .. M - 1
  BY ModRange
<1> DEFINE z == y % M
           t == q + k
<1>3. z \in 0 .. M - 1 /\ z \in Int /\ t \in Int /\ y = k * M + z
  BY <1>1, <1>2
<1> HIDE DEF z
<1>4. x = t * M + z
  BY <1>3
<1> HIDE DEF t
<1>5. x % M = z
  BY <1>3, <1>4, ModIs
<1> QED BY <1>5 DEF z

Ring(M, N, x, y) ==
  M \in Int /\ M > 0 /\ N \in Int /\ N > 0 /\ N % M = 0 /\ x \in Int /\ y \in Int

LEMMA ModMod ==
  ASSUME NEW M, NEW N, NEW x, Ring(M, N, x, 0)
  PROVE  (x % N) % M = x % M
<1> USE DEF Ring
<1>1. PICK k \in Int : N = k * M + 0
  BY ModWitness
<1>2. PICK q \in Int : x = q * N + (x % N)
  BY ModWitness
<1>3. x % N \in Int
  BY ModRange
<1> DEFINE z == x % N
           t == q * k
<1>4. x = q * N + z /\ z \in Int /\ t \in Int
  BY <1>2, <1>3
<1> HIDE DEF z
<1>5. q * N = (q * k) * M
  BY <1>1
<1>6. x = t * M + z
  BY <1>4, <1>5
<1>7. z \in Int /\ t \in Int
  BY <1>4
<1> HIDE DEF t
<1>8. x % M = z % M
  BY <1>6, <1>7, ModSame, Zenon
<1> QED BY <1>8 DEF z

(* (x + n) % N and (x - n) % N stand for x + n and x - n in a difference.  *)
LEMMA ModInner ==
  ASSUME NEW M \in Int, M > 0, NEW x \in Int, NEW y \in Int
  PROVE  /\ ((x % M) + y) % M = (x + y) % M
         /\ (y - (x % M)) % M = (y - x) % M
<1>1. PICK q \in Int : x = q * M + (x % M)
  BY ModWitness
<1> DEFINE z == x % M
<1>2. z \in Int /\ x = q * M + z
  BY <1>1, ModRange
<1> HIDE DEF z
<1> DEFINE a == x + y  b == z + y  c == y - x  d == y - z  n == -q
<1>3. a \in Int /\ b \in Int /\ c \in Int /\ d \in Int /\ n \in Int
  BY <1>2
<1>4. a = q * M + b /\ c = n * M + d
  BY <1>2
<1> HIDE DEF a, b, c, d, n
<1>5. a % M = b % M
  BY <1>3, <1>4, ModSame, Zenon
<1>6. c % M = d % M
  BY <1>3, <1>4, ModSame, Zenon
<1> QED BY <1>5, <1>6 DEF a, b, c, d, z

LEMMA RingInner ==
  ASSUME NEW M, NEW N, NEW x, NEW y, Ring(M, N, x, y)
  PROVE  ((x % N) + y) % M = (x + y) % M
<1> DEFINE z == x % N
<1>0. Ring(M, N, x, 0)
  BY DEF Ring
<1>1. z \in Int /\ z % M = x % M
  <2>1. x % N \in Int
    BY ModRange DEF Ring
  <2> QED BY <1>0, <2>1, ModMod
<1> HIDE DEF z
<1> USE DEF Ring
<1>2. (z + y) % M = ((z % M) + y) % M
  BY <1>1, ModInner, Zenon
<1>3. (x + y) % M = ((x % M) + y) % M
  BY ModInner, Zenon
<1> QED BY <1>1, <1>2, <1>3 DEF z

(* What a counter shows ahead of another, after either of them advances.   *)
LEMMA RingCount ==
  ASSUME NEW N, NEW hi, NEW lo, NEW n \in Nat, Ring(N, N, hi, lo)
  PROVE  LET c == (hi - lo) % N IN
         /\ c + n < N => (((hi + n) % N) - lo) % N = c + n
         /\ n <= c => (hi - ((lo + n) % N)) % N = c - n
<1> USE DEF Ring
<1> DEFINE c == (hi - lo) % N
<1>1. c \in 0 .. N - 1 /\ c \in Int
  BY ModRange
<1>2. (((hi + n) % N) - lo) % N = (hi + n - lo) % N
  <2>1. -lo \in Int /\ hi + n \in Int /\ \A z \in Int : z + (-lo) = z - lo
    OBVIOUS
  <2>2. (hi + n) % N \in Int
    BY <2>1, ModRange
  <2>3. (((hi + n) % N) + (-lo)) % N = (hi + n + (-lo)) % N
    BY <2>1, ModInner, Zenon
  <2> QED BY <2>1, <2>2, <2>3
<1>3. (hi - ((lo + n) % N)) % N = (hi - (lo + n)) % N
  <2>1. lo + n \in Int
    OBVIOUS
  <2> QED BY <2>1, ModInner, Zenon
<1>4. PICK q \in Int : hi - lo = q * N + c
  BY ModWitness
<1> HIDE DEF c
<1>5. hi + n - lo = q * N + (c + n) /\ hi - (lo + n) = q * N + (c - n)
  BY <1>1, <1>4
<1>6. c + n < N => (hi + n - lo) % N = c + n
  BY <1>1, <1>5, ModIs
<1>7. n <= c => (hi - (lo + n)) % N = c - n
  BY <1>1, <1>5, ModIs
<1> QED BY <1>2, <1>3, <1>6, <1>7 DEF c

(* The slots of a ring: the k-th one after lo is ahead of the first free    *)
(* one, hi, by what is left of the buffer.                                  *)
RingAt(M, N, hi, lo, k, c) ==
  /\ M \in Int /\ M > 0 /\ N \in Int /\ N > 0 /\ N % M = 0
  /\ hi \in Int /\ lo \in Int /\ k \in Nat /\ c \in Int
  /\ c = (hi - lo) % N /\ k < c /\ c <= M

LEMMA RingSlot ==
  ASSUME NEW M, NEW N, NEW hi, NEW lo, NEW k, NEW c, RingAt(M, N, hi, lo, k, c)
  PROVE  (((lo + k) % M) - hi) % M = M - c + k
<1> USE DEF RingAt
<1>1. PICK q \in Int : hi - lo = q * N + c
  BY ModWitness
<1>2. PICK j \in Int : N = j * M + 0
  BY ModWitness
<1>3. (((lo + k) % M) - hi) % M = (lo + k - hi) % M
  <2>1. -hi \in Int /\ lo + k \in Int /\ \A z \in Int : z + (-hi) = z - hi
    OBVIOUS
  <2>2. (lo + k) % M \in Int
    BY <2>1, ModRange
  <2>3. (((lo + k) % M) + (-hi)) % M = (lo + k + (-hi)) % M
    <3> DEFINE x == lo + k
               y == -hi
    <3>1. M \in Int /\ M > 0 /\ x \in Int /\ y \in Int
      BY <2>1
    <3> HIDE DEF x, y, RingAt
    <3>2. ((x % M) + y) % M = (x + y) % M
      BY <3>1, ModInner, Zenon
    <3> QED BY <3>2 DEF x, y
  <2> QED BY <2>1, <2>2, <2>3
<1>4. q * N = (q * j) * M
  BY <1>2
<1>5. lo + k - hi = k - c - (q * j) * M /\ q * j \in Int
  BY <1>1, <1>4
<1> DEFINE t == q * j
<1>6. -t - 1 \in Int /\ M - c + k \in 0 .. M - 1 /\ lo + k - hi \in Int
  BY <1>5
<1> HIDE DEF t
<1>7. lo + k - hi = (-t - 1) * M + (M - c + k)
  <2>1. lo + k - hi = k - c - t * M /\ t \in Int
    BY <1>5 DEF t
  <2> QED BY <2>1
<1>8. (lo + k - hi) % M = M - c + k
  <2> DEFINE a == lo + k - hi  b == M - c + k  s == -t - 1
  <2>1. a \in Int /\ b \in 0 .. M - 1 /\ s \in Int /\ a = s * M + b
    BY <1>6, <1>7
  <2> HIDE DEF a, b, s
  <2>2. a % M = b
    BY <2>1, ModIs
  <2> QED BY <2>2 DEF a, b
<1> QED BY <1>3, <1>8

-----------------------------------------------------------------------------
(* Prefixes and suffixes, by their elements.                               *)
LEMMA PrefixIf ==
  ASSUME NEW T, NEW s \in Seq(T), NEW t \in Seq(T), Len(s) <= Len(t),
         \A k \in 1 .. Len(s) : s[k] = t[k]
  PROVE  \E n \in 0 .. Len(t) : s = SubSeq(t, 1, n)
<1>1. Len(s) \in 0 .. Len(t)
  OBVIOUS
<1>2. s = SubSeq(t, 1, Len(s))
  OBVIOUS
<1> QED BY <1>1, <1>2, Zenon

LEMMA SameSeq ==
  ASSUME NEW X, NEW s \in Seq(X), NEW t \in Seq(X), Len(s) = Len(t),
         \A k \in 1 .. Len(s) : s[k] = t[k]
  PROVE  s = t
OBVIOUS

LEMMA SuffixIf ==
  ASSUME NEW T, NEW s \in Seq(T), NEW t \in Seq(T), Len(s) <= Len(t),
         \A k \in 1 .. Len(s) : s[k] = t[Len(t) - Len(s) + k]
  PROVE  \E n \in 0 .. Len(t) : s = SubSeq(t, n + 1, Len(t))
<1> DEFINE n == Len(t) - Len(s)
<1>1. n \in 0 .. Len(t) /\ n \in Nat /\ Len(s) = Len(t) - n
  OBVIOUS
<1> HIDE DEF n
<1>2. s = SubSeq(t, n + 1, Len(t))
  <2>1. Len(SubSeq(t, n + 1, Len(t))) = Len(s) /\ SubSeq(t, n + 1, Len(t)) \in Seq(T)
    BY <1>1
  <2>2. \A k \in 1 .. Len(s) : SubSeq(t, n + 1, Len(t))[k] = t[n + k]
    BY <1>1
  <2>3. \A k \in 1 .. Len(s) : s[k] = t[n + k]
    BY DEF n
  <2> QED BY <2>1, <2>2, <2>3, SameSeq, Zenon
<1> QED BY <1>1, <1>2

-----------------------------------------------------------------------------
(* The tables of open files.                                               *)
LEMMA TablesFinite == IsFiniteSet(Fd) /\ IsFiniteSet(File)
<1>1. 0 \in Int /\ NOFILE - 1 \in Int /\ 1 \in Int /\ NFILE \in Int
  BY FilesAssumption
<1> QED BY <1>1, FS_Interval, Zenon DEF Fd, File

(* FirstFd() is one of the set.                                            *)
LEMMA FirstFdIn ==
  ASSUME NEW S \in SUBSET Nat, S # {}
  PROVE  FirstFd(S) \in S
BY LeastNat, Zenon DEF FirstFd

-----------------------------------------------------------------------------
(* Open files.                                                             *)

UsersOf(o, f) == {u \in FileProc \X Fd : o[u[1]][u[2]] = f}
Table == [FileProc -> [Fd -> File \cup {NoFd}]]

LEMMA UsersFinite ==
  ASSUME NEW o, NEW f
  PROVE  IsFiniteSet(UsersOf(o, f)) /\ Cardinality(UsersOf(o, f)) \in Nat
<1>1. IsFiniteSet(Fd)
  BY TablesFinite
<1>2. IsFiniteSet(FileProc \X Fd)
  BY <1>1, FilesAssumption, FS_Product
<1>3. UsersOf(o, f) \in SUBSET (FileProc \X Fd)
  BY DEF UsersOf
<1> QED BY <1>2, <1>3, FS_Subset, FS_CardinalityType

(* A closed descriptor that is made to name g, and an open one closed.     *)
LEMMA OpenCounts ==
  ASSUME NEW o \in Table, NEW p \in FileProc, NEW d \in Fd, NEW g \in File, NEW f \in File,
         o[p][d] = NoFd
  PROVE  LET o2 == [o EXCEPT ![p][d] = g] IN
         /\ o2 \in Table
         /\ Cardinality(UsersOf(o2, f)) = Cardinality(UsersOf(o, f)) + (IF f = g THEN 1 ELSE 0)
<1> DEFINE o2 == [o EXCEPT ![p][d] = g]
<1>1. o2 \in Table
  BY DEF Table
<1>2. ASSUME NEW u \in FileProc \X Fd
      PROVE  o2[u[1]][u[2]] = IF u = <<p, d>> THEN g ELSE o[u[1]][u[2]]
  BY DEF Table
<1>3. <<p, d>> \in FileProc \X Fd /\ <<p, d>> \notin UsersOf(o, f)
  BY FilesAssumption DEF UsersOf, File, NoFd
<1> HIDE DEF o2
<1>4. CASE f = g
  <2>1. UsersOf(o2, f) = UsersOf(o, f) \cup {<<p, d>>}
    BY <1>2, <1>3, <1>4 DEF UsersOf
  <2> QED BY <1>1, <1>3, <1>4, <2>1, UsersFinite, FS_AddElement, Zenon DEF o2
<1>5. CASE f # g
  <2>1. UsersOf(o2, f) = UsersOf(o, f)
    BY <1>2, <1>3, <1>5 DEF UsersOf
  <2> QED BY <1>1, <1>5, <2>1, UsersFinite DEF o2
<1> QED BY <1>4, <1>5

LEMMA CloseCounts ==
  ASSUME NEW o \in Table, NEW p \in FileProc, NEW d \in Fd, NEW f \in File,
         o[p][d] # NoFd
  PROVE  LET o2 == [o EXCEPT ![p][d] = NoFd] IN
         /\ o2 \in Table
         /\ Cardinality(UsersOf(o2, f))
              = Cardinality(UsersOf(o, f)) - (IF f = o[p][d] THEN 1 ELSE 0)
<1> DEFINE o2 == [o EXCEPT ![p][d] = NoFd]
<1>1. o2 \in Table
  BY DEF Table
<1>2. ASSUME NEW u \in FileProc \X Fd
      PROVE  o2[u[1]][u[2]] = IF u = <<p, d>> THEN NoFd ELSE o[u[1]][u[2]]
  BY DEF Table
<1>3. <<p, d>> \in FileProc \X Fd /\ (<<p, d>> \in UsersOf(o, f) <=> f = o[p][d]) /\ f # NoFd
  BY FilesAssumption DEF UsersOf, File, NoFd
<1> HIDE DEF o2
<1>4. UsersOf(o2, f) = UsersOf(o, f) \ {<<p, d>>}
  BY <1>2, <1>3 DEF UsersOf
<1>5. Cardinality(UsersOf(o, f) \ {<<p, d>>})
        = IF <<p, d>> \in UsersOf(o, f) THEN Cardinality(UsersOf(o, f)) - 1
                                        ELSE Cardinality(UsersOf(o, f))
  BY UsersFinite, FS_RemoveElement, Zenon
<1>6. Cardinality(UsersOf(o2, f)) = Cardinality(UsersOf(o, f)) - (IF f = o[p][d] THEN 1 ELSE 0)
  <2>1. Cardinality(UsersOf(o, f)) \in Nat
    BY UsersFinite
  <2> QED BY <1>3, <1>4, <1>5, <2>1
<1> QED BY <1>1, <1>6 DEF o2

(* A process with nothing open gets the descriptors of another.            *)
LEMMA ForkCounts ==
  ASSUME NEW o \in Table, NEW p \in FileProc, NEW np \in FileProc, NEW f \in File,
         o[np] = Closed
  PROVE  LET o2 == [o EXCEPT ![np] = o[p]] IN
         /\ o2 \in Table
         /\ Cardinality(UsersOf(o2, f))
              = Cardinality(UsersOf(o, f)) + Cardinality({d \in Fd : o[p][d] = f})
<1> DEFINE o2 == [o EXCEPT ![np] = o[p]]
           D  == {d \in Fd : o[p][d] = f}
           N  == {np} \X D
<1>1. o2 \in Table
  BY DEF Table
<1>2. ASSUME NEW u \in FileProc \X Fd
      PROVE  /\ o2[u[1]][u[2]] = IF u[1] = np THEN o[p][u[2]] ELSE o[u[1]][u[2]]
             /\ u[1] = np => o[u[1]][u[2]] = NoFd
  BY DEF Table, Closed
<1>3. f # NoFd
  BY FilesAssumption DEF File, NoFd
<1>4. UsersOf(o2, f) = UsersOf(o, f) \cup N
  <2> HIDE DEF o2
  <2> QED BY <1>2, <1>3 DEF UsersOf
<1>5. UsersOf(o, f) \cap N = {}
  BY <1>2, <1>3 DEF UsersOf
<1>6. IsFiniteSet(D) /\ IsFiniteSet({np}) /\ Cardinality({np}) = 1
  <2>1. IsFiniteSet(Fd)
    BY TablesFinite
  <2> QED BY <2>1, FS_Subset, FS_Singleton, Zenon
<1>7. IsFiniteSet(N) /\ Cardinality(N) = Cardinality(D)
  <2>1. Cardinality(D) \in Nat
    BY <1>6, FS_CardinalityType
  <2>2. IsFiniteSet(N) /\ Cardinality(N) = Cardinality({np}) * Cardinality(D)
    <3> HIDE DEF D
    <3> QED BY <1>6, FS_Product
  <2> QED BY <1>6, <2>1, <2>2
<1> HIDE DEF o2, N
<1>8. Cardinality(UsersOf(o2, f)) = Cardinality(UsersOf(o, f)) + Cardinality(N) - 0
  BY <1>4, <1>5, <1>7, UsersFinite, FS_Union, FS_EmptySet
<1> QED BY <1>1, <1>6, <1>7, <1>8, UsersFinite, FS_CardinalityType DEF o2

-----------------------------------------------------------------------------
Ends == {"read", "write"}

PipeType ==
  [readopen: BOOLEAN, writeopen: BOOLEAN, nread: 0 .. PIPEMOD - 1, nwrite: 0 .. PIPEMOD - 1,
   data: [0 .. PIPESIZE - 1 -> Byte \cup {0}]]

FileType == [ref: Int, type: {"none", "other"} \cup Ends]

FilesTypeOK ==
  /\ ofile \in Table
  /\ ftable \in [File -> FileType]
  /\ pipe \in PipeType
  /\ ppc \in [FileProc -> {"new", "run", "write", "read", "exiting", "zombie"}]
  /\ end \in [FileProc -> {"none"} \cup Ends]
  /\ left \in [FileProc -> Seq(Byte)]

(* What the inductive argument needs besides the counts: a process that    *)
(* fork() has not made yet has nothing open, a free file has no type, and  *)
(* an end of the pipe is held once: by one file, or by one process that    *)
(* is between fileclose() and pipeclose().                                 *)
NewIsClosed == \A p \in FileProc : ppc[p] = "new" => ofile[p] = Closed
FreeIsNone  == \A f \in File : ftable[f].ref = 0 => ftable[f].type = "none"
HeldOnce ==
  \A t \in Ends :
    /\ \A f, g \in File : ftable[f].type = t /\ ftable[g].type = t => f = g
    /\ \A p, q \in FileProc : end[p] = t /\ end[q] = t => p = q
    /\ \A f \in File, p \in FileProc : ~ (ftable[f].type = t /\ end[p] = t)

EndsKept ==
  /\ HeldOnce
  /\ pipe.readopen = EndOpen("read") /\ pipe.writeopen = EndOpen("write")
RefsCounted == \A f \in File : ftable[f].ref = Cardinality(Users(f))

PipeBounded == Count <= PIPESIZE

FilesInv ==
  FilesTypeOK /\ NewIsClosed /\ FreeIsNone /\ EndsKept /\ RefsCounted /\ PipeBounded

(* Any call of a process that Files models.                                *)
FileCall(p) ==
  \/ sys_openFd(p) \/ sys_pipe(p) \/ pipeclose(p) \/ exitCloses(p)
  \/ \E d \in Fd : sys_dup(p, d) \/ sys_closeFd(p, d) \/ filereadPipe(p, d)
  \/ \E d \in Fd, m \in Message : filewritePipe(p, d, m)
  \/ \E np \in FileProc : forkFiles(p, np)
  \/ pipewrite(p) \/ killSleeper(p)
  \/ \E n \in Nat : piperead(p, n)

AnyCall == \E p \in FileProc : FileCall(p)

LEMMA UsersAre == \A f : Users(f) = UsersOf(ofile, f)
BY DEF Users, UsersOf

LEMMA FilesInitOK ==
  ASSUME NEW first \in FileProc, NEW open \in 0 .. NOFILE, FilesInit(first, open)
  PROVE  FilesInv
<1> USE FilesAssumption
<1>1. FilesTypeOK
  BY DEF FilesInit, FilesTypeOK, FileType, PipeType, Table, NoPipe, Closed, File, Fd, NoFd
<1>2. NewIsClosed /\ FreeIsNone
  BY DEF FilesInit, NewIsClosed, FreeIsNone
<1>3. EndsKept
  BY Zenon DEF FilesInit, EndsKept, HeldOnce, EndOpen, NoPipe, Ends
<1>4. ASSUME NEW f \in File PROVE ftable[f].ref = Cardinality(Users(f))
  <2>1. CASE f = 1 /\ open > 0
    <3>1. Users(f) = {first} \X (0 .. open - 1)
      BY <2>1 DEF FilesInit, Users, Fd, NoFd, Closed
    <3>2. IsFiniteSet(0 .. open - 1) /\ Cardinality(0 .. open - 1) = open
      <4>1. 0 \in Int /\ open - 1 \in Int /\ ~ (0 > open - 1) /\ open - 1 - 0 + 1 = open
        BY <2>1
      <4> QED BY <4>1, FS_Interval, Zenon
    <3>3. Cardinality(Users(f)) = 1 * open
      <4>1. IsFiniteSet({first}) /\ Cardinality({first}) = 1
        BY FS_Singleton, Zenon
      <4> DEFINE T == 0 .. open - 1
      <4>2. IsFiniteSet(T) /\ Cardinality(T) = open /\ Users(f) = {first} \X T
        BY <3>1, <3>2
      <4> HIDE DEF T
      <4> QED BY <4>1, <4>2, FS_Product, Zenon
    <3> QED BY <2>1, <3>3 DEF FilesInit
  <2>2. CASE ~ (f = 1 /\ open > 0)
    <3>1. Users(f) = {}
      BY <2>2 DEF FilesInit, Users, Fd, NoFd, Closed, File
    <3> QED BY <2>2, <3>1, FS_EmptySet DEF FilesInit
  <2> QED BY <2>1, <2>2
<1>5. PipeBounded
  <2>1. 0 - 0 = 0 /\ 0 % PIPEMOD = 0
    OBVIOUS
  <2> QED BY <2>1 DEF FilesInit, NoPipe, PipeBounded, Count
<1> QED BY <1>1, <1>2, <1>3, <1>4, <1>5 DEF FilesInv, RefsCounted

(* A call that leaves descriptors, files and ends alone.                   *)
LEMMA QuietCall ==
  ASSUME FilesInv, FilesTypeOK', PipeBounded', UNCHANGED <<ofile, ftable, end>>,
         pipe'.readopen = pipe.readopen, pipe'.writeopen = pipe.writeopen,
         \A q \in FileProc : ppc'[q] = "new" => ppc[q] = "new"
  PROVE  FilesInv'
<1>1. NewIsClosed' /\ FreeIsNone'
  BY DEF FilesInv, NewIsClosed, FreeIsNone
<1>2. EndsKept'
  BY DEF FilesInv, EndsKept, HeldOnce, EndOpen
<1>3. RefsCounted'
  BY DEF FilesInv, RefsCounted, Users
<1> QED BY <1>1, <1>2, <1>3 DEF FilesInv

(* A call that changes descriptors and counts, and neither the type of an  *)
(* end nor the pipe.                                                       *)
LEMMA CountingCall ==
  ASSUME FilesInv, FilesTypeOK', RefsCounted', NewIsClosed', FreeIsNone',
         UNCHANGED <<pipe, end>>,
         \A f \in File, t \in Ends : ftable'[f].type = t <=> ftable[f].type = t
  PROVE  FilesInv'
<1>1. HeldOnce'
  BY DEF FilesInv, EndsKept, HeldOnce
<1>2. \A t \in Ends : EndOpen(t)' = EndOpen(t)
  BY DEF EndOpen
<1>3. EndsKept'
  BY <1>1, <1>2 DEF FilesInv, EndsKept, Ends
<1>4. PipeBounded'
  BY DEF FilesInv, PipeBounded, Count
<1> QED BY <1>3, <1>4 DEF FilesInv

(* The counts go up with the uses.                                         *)
LEMMA CountsMatch ==
  ASSUME FilesInv,
         \A f \in File : \E n \in Int :
           /\ ftable'[f].ref = ftable[f].ref + n
           /\ Cardinality(UsersOf(ofile', f)) = Cardinality(UsersOf(ofile, f)) + n
  PROVE  RefsCounted'
<1>1. \A f \in File : ftable[f].ref = Cardinality(UsersOf(ofile, f))
  BY UsersAre DEF FilesInv, RefsCounted
<1>2. \A f \in File : ftable'[f].ref = Cardinality(UsersOf(ofile', f))
  BY <1>1
<1> QED BY <1>2, Zenon DEF RefsCounted, Users, UsersOf

LEMMA OpenKeeps ==
  ASSUME FilesInv, NEW p \in FileProc, sys_openFd(p)
  PROVE  FilesInv'
<1>1. CASE FreeFiles = {} \/ FreeFds(p) = {}
  <2>1. UNCHANGED fileVars2
    BY <1>1 DEF sys_openFd, fileVars2
  <2> QED BY <2>1, QuietCall DEF FilesInv, FilesTypeOK, FileType, PipeBounded, Count, fileVars2
<1>2. CASE ~ (FreeFiles = {} \/ FreeFds(p) = {})
  <2> DEFINE d == FirstFd(FreeFds(p))
             g == FirstFd(FreeFiles)
  <2>1. d \in Fd /\ ofile[p][d] = NoFd /\ g \in File /\ ftable[g].ref = 0
    <3>1. FreeFds(p) \in SUBSET Nat /\ FreeFiles \in SUBSET Nat
      BY DEF FreeFds, FreeFiles, Fd, File
    <3>2. d \in FreeFds(p) /\ g \in FreeFiles
      BY <1>2, <3>1, FirstFdIn
    <3> QED BY <3>2 DEF FreeFds, FreeFiles
  <2>2. /\ ofile' = [ofile EXCEPT ![p][d] = g]
        /\ ftable' = [ftable EXCEPT ![g] = [ref |-> 1, type |-> "other"]]
        /\ UNCHANGED <<pipe, ppc, end, left>>
    BY <1>2 DEF sys_openFd
  <2> HIDE DEF d, g
  <2>3. /\ ofile' \in Table
        /\ \A f \in File : Cardinality(UsersOf(ofile', f))
                             = Cardinality(UsersOf(ofile, f)) + (IF f = g THEN 1 ELSE 0)
    <3>1. ofile \in Table
      BY DEF FilesInv, FilesTypeOK, FileType
    <3>2. ASSUME NEW f \in File
          PROVE  /\ [ofile EXCEPT ![p][d] = g] \in Table
                 /\ Cardinality(UsersOf([ofile EXCEPT ![p][d] = g], f))
                      = Cardinality(UsersOf(ofile, f)) + (IF f = g THEN 1 ELSE 0)
      BY <2>1, <3>1, OpenCounts
    <3> QED BY <2>1, <2>2, <3>2, Zenon
  <2>4. FilesTypeOK'
    BY <2>1, <2>2, <2>3 DEF FilesInv, FilesTypeOK, FileType
  <2>5. RefsCounted'
    <3>1. \A f \in File : ftable'[f].ref = ftable[f].ref + (IF f = g THEN 1 ELSE 0)
      BY <2>1, <2>2 DEF FilesInv, FilesTypeOK, FileType
    <3> QED BY <2>3, <3>1, CountsMatch
  <2>6. NewIsClosed'
    BY <2>2 DEF sys_openFd, Running, FilesInv, FilesTypeOK, FileType, NewIsClosed, Table
  <2>7. FreeIsNone'
    BY <2>1, <2>2 DEF FilesInv, FilesTypeOK, FileType, FreeIsNone
  <2>8. \A f \in File, t \in Ends : ftable'[f].type = t <=> ftable[f].type = t
    BY <2>1, <2>2 DEF FilesInv, FilesTypeOK, FileType, FreeIsNone, Ends
  <2> QED BY <2>2, <2>4, <2>5, <2>6, <2>7, <2>8, CountingCall
<1> QED BY <1>1, <1>2

(* The two smallest of a set.                                              *)
LEMMA FirstTwo ==
  ASSUME NEW S \in SUBSET Nat, IsFiniteSet(S), ~ (Cardinality(S) < 2)
  PROVE  /\ FirstFd(S) \in S
         /\ FirstFd(S \ {FirstFd(S)}) \in S
         /\ FirstFd(S \ {FirstFd(S)}) # FirstFd(S)
<1>1. Cardinality(S) \in Nat
  BY FS_CardinalityType
<1>2. S # {}
  BY <1>1, FS_EmptySet
<1>3. FirstFd(S) \in S
  BY <1>2, FirstFdIn
<1>4. IsFiniteSet(S \ {FirstFd(S)}) /\ Cardinality(S \ {FirstFd(S)}) = Cardinality(S) - 1
  BY <1>3, FS_RemoveElement
<1>5. S \ {FirstFd(S)} # {}
  BY <1>1, <1>4, FS_EmptySet
<1>6. FirstFd(S \ {FirstFd(S)}) \in S \ {FirstFd(S)}
  <2>1. S \ {FirstFd(S)} \in SUBSET Nat
    BY Zenon
  <2> QED BY <1>5, <2>1, FirstFdIn
<1> QED BY <1>3, <1>6

LEMMA PipeKeeps ==
  ASSUME FilesInv, NEW p \in FileProc, sys_pipe(p)
  PROVE  FilesInv'
<1>1. CASE Cardinality(FreeFiles) < 2 \/ Cardinality(FreeFds(p)) < 2
  <2>1. UNCHANGED fileVars2
    BY <1>1 DEF sys_pipe, fileVars2
  <2> QED BY <2>1, QuietCall DEF FilesInv, FilesTypeOK, FileType, PipeBounded, Count, fileVars2
<1>2. CASE ~ (Cardinality(FreeFiles) < 2 \/ Cardinality(FreeFds(p)) < 2)
  <2> DEFINE rf  == FirstFd(FreeFiles)
             wf  == FirstFd(FreeFiles \ {rf})
             fd0 == FirstFd(FreeFds(p))
             fd1 == FirstFd(FreeFds(p) \ {fd0})
  <2>1. /\ rf \in File /\ ftable[rf].ref = 0 /\ wf \in File /\ ftable[wf].ref = 0
        /\ rf # wf
        /\ fd0 \in Fd /\ ofile[p][fd0] = NoFd /\ fd1 \in Fd /\ ofile[p][fd1] = NoFd
        /\ fd0 # fd1
    <3>1. /\ FreeFds(p) \in SUBSET Nat /\ FreeFiles \in SUBSET Nat
          /\ FreeFds(p) \in SUBSET Fd /\ FreeFiles \in SUBSET File
      BY DEF FreeFds, FreeFiles, Fd, File
    <3>2. IsFiniteSet(Fd) /\ IsFiniteSet(File)
      BY TablesFinite
    <3>3. IsFiniteSet(FreeFds(p)) /\ IsFiniteSet(FreeFiles)
      BY <3>1, <3>2, FS_Subset, Zenon
    <3>4. rf \in FreeFiles /\ wf \in FreeFiles /\ rf # wf
      BY <1>2, <3>1, <3>3, FirstTwo
    <3>5. fd0 \in FreeFds(p) /\ fd1 \in FreeFds(p) /\ fd0 # fd1
      BY <1>2, <3>1, <3>3, FirstTwo
    <3> HIDE DEF rf, wf, fd0, fd1
    <3> QED BY <3>4, <3>5 DEF FreeFds, FreeFiles
  <2>2. /\ ofile' = [ofile EXCEPT ![p][fd0] = rf, ![p][fd1] = wf]
        /\ ftable' = [ftable EXCEPT ![rf] = [ref |-> 1, type |-> "read"],
                                    ![wf] = [ref |-> 1, type |-> "write"]]
        /\ pipe' = [NoPipe EXCEPT !.readopen = TRUE, !.writeopen = TRUE]
        /\ UNCHANGED <<ppc, end, left>>
    BY <1>2, Zenon DEF sys_pipe
  <2> HIDE DEF rf, wf, fd0, fd1
  <2>files. ftable' = [f \in File |-> IF f = rf THEN [ref |-> 1, type |-> "read"]
                                      ELSE IF f = wf THEN [ref |-> 1, type |-> "write"]
                                      ELSE ftable[f]]
    BY <2>1, <2>2, Zenon DEF FilesInv, FilesTypeOK, FileType
  <2> DEFINE o1 == [ofile EXCEPT ![p][fd0] = rf]
             o2 == [o1 EXCEPT ![p][fd1] = wf]
  <2>3. ofile \in Table
    BY DEF FilesInv, FilesTypeOK, FileType
  <2>4. o1 \in Table /\ \A f \in File : Cardinality(UsersOf(o1, f))
                          = Cardinality(UsersOf(ofile, f)) + (IF f = rf THEN 1 ELSE 0)
    <3>1. ASSUME NEW f \in File
          PROVE  o1 \in Table /\ Cardinality(UsersOf(o1, f))
                                   = Cardinality(UsersOf(ofile, f)) + (IF f = rf THEN 1 ELSE 0)
      BY <2>1, <2>3, OpenCounts
    <3> QED BY <2>1, <3>1, Zenon
  <2>5. o1[p][fd1] = NoFd
    BY <2>1, <2>3 DEF Table
  <2>6. ofile' = o2
    BY <2>1, <2>2, <2>3 DEF Table
  <2> HIDE DEF o1
  <2>7. o2 \in Table /\ \A f \in File : Cardinality(UsersOf(o2, f))
                          = Cardinality(UsersOf(o1, f)) + (IF f = wf THEN 1 ELSE 0)
    <3>1. ASSUME NEW f \in File
          PROVE  o2 \in Table /\ Cardinality(UsersOf(o2, f))
                                   = Cardinality(UsersOf(o1, f)) + (IF f = wf THEN 1 ELSE 0)
      BY <2>1, <2>4, <2>5, OpenCounts
    <3> QED BY <2>1, <3>1, Zenon
  <2> HIDE DEF o2
  <2>8. FilesTypeOK'
    <3>1. pipe' \in PipeType
      <4>1. 0 \in 0 .. PIPEMOD - 1
        BY FilesAssumption
      <4>2. pipe' = [readopen |-> TRUE, writeopen |-> TRUE, nread |-> 0, nwrite |-> 0,
                     data |-> [k \in 0 .. PIPESIZE - 1 |-> 0]]
        BY <2>2, Zenon DEF NoPipe
      <4>3. [k \in 0 .. PIPESIZE - 1 |-> 0] \in [0 .. PIPESIZE - 1 -> Byte \cup {0}]
        OBVIOUS
      <4> QED BY <4>1, <4>2, <4>3 DEF PipeType
    <3>2. ftable' \in [File -> FileType]
      <4>1. ASSUME NEW f \in File
            PROVE  ftable'[f] \in FileType
        BY <2>files DEF FilesInv, FilesTypeOK, FileType, Ends
      <4> QED BY <2>files, <4>1
    <3> QED BY <2>2, <2>6, <2>7, <3>1, <3>2, Zenon DEF FilesInv, FilesTypeOK, FileType
  <2>9. RefsCounted'
    <3>1. ASSUME NEW f \in File
          PROVE  ftable'[f].ref = ftable[f].ref + (IF f = rf \/ f = wf THEN 1 ELSE 0)
      BY <2>1, <2>2 DEF FilesInv, FilesTypeOK, FileType
    <3>2. ASSUME NEW f \in File
          PROVE  Cardinality(UsersOf(ofile', f))
                   = Cardinality(UsersOf(ofile, f)) + (IF f = rf \/ f = wf THEN 1 ELSE 0)
      BY <2>1, <2>4, <2>6, <2>7, UsersFinite
    <3> QED BY <3>1, <3>2, CountsMatch
  <2>10. NewIsClosed'
    BY <2>2 DEF sys_pipe, Running, FilesInv, FilesTypeOK, FileType, NewIsClosed, Table
  <2>11. FreeIsNone'
    BY <2>files DEF FilesInv, FilesTypeOK, FileType, FreeIsNone
  <2>12. EndsKept'
    <3>1. ~ EndOpen("read") /\ ~ EndOpen("write")
      BY DEF sys_pipe, FilesInv, EndsKept
    <3>2. \A f \in File : /\ ftable'[f].type = "read" <=> f = rf
                          /\ ftable'[f].type = "write" <=> f = wf
      BY <2>1, <2>2, <3>1 DEF FilesInv, FilesTypeOK, FileType, EndOpen
    <3>3. \A q \in FileProc : end'[q] # "read" /\ end'[q] # "write"
      BY <2>2, <3>1 DEF EndOpen
    <3>4. HeldOnce'
      BY <3>2, <3>3 DEF HeldOnce, Ends
    <3>5. EndOpen("read")' /\ EndOpen("write")'
      BY <2>1, <3>2 DEF EndOpen
    <3>6. pipe'.readopen = TRUE /\ pipe'.writeopen = TRUE
      BY <2>2 DEF NoPipe
    <3> QED BY <3>4, <3>5, <3>6, Zenon DEF EndsKept, EndOpen
  <2>13. PipeBounded'
    <3>1. 0 - 0 = 0 /\ 0 % PIPEMOD = 0
      BY FilesAssumption
    <3>2. pipe'.nread = 0 /\ pipe'.nwrite = 0
      BY <2>2 DEF NoPipe
    <3> QED BY <3>1, <3>2, FilesAssumption DEF PipeBounded, Count
  <2> QED BY <2>8, <2>9, <2>10, <2>11, <2>12, <2>13 DEF FilesInv
<1> QED BY <1>1, <1>2

LEMMA DupKeeps ==
  ASSUME FilesInv, NEW p \in FileProc, NEW d \in Fd, sys_dup(p, d)
  PROVE  FilesInv'
<1>1. CASE FreeFds(p) = {}
  <2>1. UNCHANGED fileVars2
    BY <1>1 DEF sys_dup, fileVars2
  <2> QED BY <2>1, QuietCall DEF FilesInv, FilesTypeOK, FileType, PipeBounded, Count, fileVars2
<1>2. CASE FreeFds(p) # {}
  <2> DEFINE fd == FirstFd(FreeFds(p))
             g == ofile[p][d]
  <2>1. fd \in Fd /\ ofile[p][fd] = NoFd
    <3>1. FreeFds(p) \in SUBSET Nat
      BY DEF FreeFds, Fd
    <3>2. fd \in FreeFds(p)
      BY <1>2, <3>1, FirstFdIn
    <3> QED BY <3>2 DEF FreeFds
  <2>2. /\ ofile' = [ofile EXCEPT ![p][fd] = g]
        /\ ftable' = [ftable EXCEPT ![g].ref = @ + 1]
        /\ UNCHANGED <<pipe, ppc, end, left>>
    BY <1>2 DEF sys_dup, filedup
  <2>3. ofile \in Table /\ g \in File
    BY DEF sys_dup, FilesInv, FilesTypeOK, FileType, Table
  <2> HIDE DEF fd, g
  <2>files. /\ ftable' \in [File -> FileType]
            /\ \A f \in File : /\ ftable'[f].ref = ftable[f].ref + (IF f = g THEN 1 ELSE 0)
                               /\ ftable'[f].type = ftable[f].type
    <3>1. ASSUME NEW f \in File
          PROVE  /\ ftable'[f] \in FileType
                 /\ ftable'[f].ref = ftable[f].ref + (IF f = g THEN 1 ELSE 0)
                 /\ ftable'[f].type = ftable[f].type
      BY <2>2, <2>3 DEF FilesInv, FilesTypeOK, FileType
    <3>2. ftable' = [f \in File |-> ftable'[f]]
      BY <2>2, <2>3, Zenon DEF FilesInv, FilesTypeOK
    <3> QED BY <3>1, <3>2
  <2>4. ASSUME NEW f \in File
        PROVE  /\ ofile' \in Table
               /\ Cardinality(UsersOf(ofile', f))
                    = Cardinality(UsersOf(ofile, f)) + (IF f = g THEN 1 ELSE 0)
    <3>1. /\ [ofile EXCEPT ![p][fd] = g] \in Table
          /\ Cardinality(UsersOf([ofile EXCEPT ![p][fd] = g], f))
               = Cardinality(UsersOf(ofile, f)) + (IF f = g THEN 1 ELSE 0)
      BY <2>1, <2>3, OpenCounts
    <3> QED BY <2>2, <3>1
  <2>5. FilesTypeOK'
    BY <2>2, <2>3, <2>4, <2>files, Zenon DEF FilesInv, FilesTypeOK, FileType
  <2>6. RefsCounted'
    BY <2>4, <2>files, CountsMatch
  <2>7. NewIsClosed'
    BY <2>2 DEF sys_dup, Running, FilesInv, FilesTypeOK, FileType, NewIsClosed, Table
  <2>8. FreeIsNone'
    <3>1. \A f \in File : ftable[f].ref \in Nat
      BY UsersAre, UsersFinite DEF FilesInv, RefsCounted
    <3>2. \A f \in File : ftable'[f].ref = 0 => ftable[f].ref = 0
      BY <2>files, <3>1
    <3> QED BY <2>files, <3>2 DEF FilesInv, FreeIsNone
  <2>9. \A f \in File, t \in Ends : ftable'[f].type = t <=> ftable[f].type = t
    BY <2>files
  <2> QED BY <2>2, <2>5, <2>6, <2>7, <2>8, <2>9, CountingCall
<1> QED BY <1>1, <1>2

LEMMA CloseKeeps ==
  ASSUME FilesInv, NEW p \in FileProc, NEW d \in Fd, NEW back \in {"run", "exiting"},
         ofile[p][d] # NoFd, end[p] = "none", fileclose(p, d, back)
  PROVE  FilesInv'
<1> DEFINE g == ofile[p][d]
<1>1. /\ ofile' = [ofile EXCEPT ![p][d] = NoFd]
      /\ ftable' = [ftable EXCEPT ![g].ref = @ - 1, ![g].type = IF LastRef(g) THEN "none" ELSE @]
      /\ IF LastRef(g) /\ ftable[g].type \in Ends
         THEN end' = [end EXCEPT ![p] = ftable[g].type] ELSE UNCHANGED end
      /\ ppc' = [ppc EXCEPT ![p] = back]
      /\ UNCHANGED <<pipe, left>>
  BY DEF fileclose, PGoTo, Ends
<1>2. ofile \in Table /\ g \in File
  BY DEF FilesInv, FilesTypeOK, FileType, Table
<1> HIDE DEF g
<1>files. /\ ftable' \in [File -> FileType]
          /\ \A f \in File :
               /\ ftable'[f].ref = ftable[f].ref - (IF f = g THEN 1 ELSE 0)
               /\ ftable'[f].type = IF f = g /\ LastRef(g) THEN "none" ELSE ftable[f].type
  <2>1. ASSUME NEW f \in File
        PROVE  /\ ftable'[f] \in FileType
               /\ ftable'[f].ref = ftable[f].ref - (IF f = g THEN 1 ELSE 0)
               /\ ftable'[f].type = IF f = g /\ LastRef(g) THEN "none" ELSE ftable[f].type
    <3>1. ftable[f] \in FileType /\ ftable \in [File -> FileType]
      BY DEF FilesInv, FilesTypeOK
    <3>2. CASE f # g
      <4>1. ftable'[f] = ftable[f]
        BY <1>1, <1>2, <3>1, <3>2
      <4> QED BY <3>1, <3>2, <4>1 DEF FileType
    <3>3. CASE f = g
      <4>1. ftable'[g] = [ftable[g] EXCEPT !.ref = @ - 1, !.type = IF LastRef(g) THEN "none" ELSE @]
        BY <1>1, <1>2, <3>1
      <4>2. /\ ftable[g].ref \in Int /\ ftable[g].type \in {"none", "other"} \cup Ends
            /\ ftable[g] = [ref |-> ftable[g].ref, type |-> ftable[g].type]
        BY <3>1, <3>3 DEF FileType
      <4>3. /\ ftable'[g].ref = ftable[g].ref - 1
            /\ ftable'[g].type = IF LastRef(g) THEN "none" ELSE ftable[g].type
            /\ ftable'[g] = [ref |-> ftable'[g].ref, type |-> ftable'[g].type]
        BY <4>1, <4>2, Zenon
      <4>4. ftable'[g].ref \in Int /\ ftable'[g].type \in {"none", "other"} \cup Ends
        BY <4>2, <4>3
      <4> QED BY <3>3, <4>3, <4>4 DEF FileType
    <3> QED BY <3>2, <3>3
  <2>2. ftable' = [f \in File |-> ftable'[f]]
    BY <1>1, <1>2, Zenon DEF FilesInv, FilesTypeOK
  <2> QED BY <2>1, <2>2
<1>3. ASSUME NEW f \in File
      PROVE  /\ ofile' \in Table
             /\ Cardinality(UsersOf(ofile', f))
                  = Cardinality(UsersOf(ofile, f)) - (IF f = g THEN 1 ELSE 0)
  BY <1>1, <1>2, CloseCounts, Zenon DEF g
<1>4. FilesTypeOK'
  <2>1. ftable' \in [File -> FileType]
    BY <1>files
  <2>2. end' \in [FileProc -> {"none"} \cup Ends]
    BY <1>1 DEF FilesInv, FilesTypeOK, FileType
  <2>3. ppc' \in [FileProc -> {"new", "run", "write", "read", "exiting", "zombie"}]
    BY <1>1 DEF FilesInv, FilesTypeOK, FileType
  <2> QED BY <1>1, <1>2, <1>3, <2>1, <2>2, <2>3, Zenon DEF FilesInv, FilesTypeOK, FileType
<1>5. RefsCounted'
  <2>1. ASSUME NEW f \in File
        PROVE \E n \in Int : /\ ftable'[f].ref = ftable[f].ref + n
                             /\ Cardinality(UsersOf(ofile', f)) = Cardinality(UsersOf(ofile, f)) + n
    <3> DEFINE n == IF f = g THEN -1 ELSE 0
    <3>1. ftable'[f].ref = ftable[f].ref + n
      BY <1>files DEF FilesInv, FilesTypeOK, FileType
    <3>2. Cardinality(UsersOf(ofile', f)) = Cardinality(UsersOf(ofile, f)) + n
      BY <1>3, UsersFinite
    <3>3. n \in Int
      OBVIOUS
    <3> HIDE DEF n
    <3> QED BY <3>1, <3>2, <3>3
  <2> QED BY <2>1, CountsMatch
<1>6. NewIsClosed'
  BY <1>1 DEF FilesInv, FilesTypeOK, FileType, NewIsClosed, Table
<1>7. FreeIsNone'
  <2>1. \A f \in File : ftable'[f].ref = 0 => ftable[f].ref = 0 \/ (f = g /\ LastRef(g))
    BY <1>files DEF FilesInv, FilesTypeOK, FileType, LastRef
  <2> QED BY <1>files, <2>1 DEF FilesInv, FreeIsNone
<1>8. CASE ~ (LastRef(g) /\ ftable[g].type \in Ends)
  <2>1. \A f \in File, t \in Ends : ftable'[f].type = t <=> ftable[f].type = t
    BY <1>8, <1>files DEF Ends
  <2> QED BY <1>1, <1>4, <1>5, <1>6, <1>7, <1>8, <2>1, CountingCall, Zenon
<1>9. CASE LastRef(g) /\ ftable[g].type \in Ends
  <2> DEFINE t == ftable[g].type
  <2>1. \A q \in FileProc : end'[q] = IF q = p THEN t ELSE end[q]
    BY <1>1, <1>9 DEF FilesInv, FilesTypeOK, FileType
  <2>2. \A f \in File : ftable'[f].type = IF f = g THEN "none" ELSE ftable[f].type
    BY <1>9, <1>files
  <2>3. t \in Ends
    BY <1>9
  <2>4. HeldOnce'
    <3> HIDE DEF t
    <3>1. \A f \in File : ftable[f].type = t <=> f = g
      BY <1>2, <2>3 DEF FilesInv, EndsKept, HeldOnce, t
    <3>2. \A q \in FileProc : end[q] # t
      BY <1>2, <2>3 DEF FilesInv, EndsKept, HeldOnce, t
    <3>3. \A u \in Ends : "none" # u
      BY DEF Ends
    <3> QED BY <2>1, <2>2, <2>3, <3>1, <3>2, <3>3 DEF FilesInv, EndsKept, HeldOnce
  <2>5. ASSUME NEW u \in Ends PROVE EndOpen(u)' = EndOpen(u)
    <3>1. EndOpen(u)' <=> EndOpen(u)
      BY <1>2, <2>1, <2>2 DEF EndOpen, Ends
    <3> QED BY <3>1 DEF EndOpen
  <2>6. EndsKept'
    BY <1>1, <2>4, <2>5 DEF FilesInv, EndsKept, Ends
  <2>7. PipeBounded'
    BY <1>1 DEF FilesInv, PipeBounded, Count
  <2> QED BY <1>4, <1>5, <1>6, <1>7, <2>6, <2>7 DEF FilesInv
<1> QED BY <1>8, <1>9

(* The pipe before its first byte.                                         *)
LEMMA NoPipeOK ==
  /\ NoPipe \in PipeType
  /\ NoPipe.readopen = FALSE /\ NoPipe.writeopen = FALSE
  /\ (NoPipe.nwrite - NoPipe.nread) % PIPEMOD = 0
<1>1. NoPipe.nread = 0 /\ NoPipe.nwrite = 0 /\ 0 - 0 = 0 /\ 0 % PIPEMOD = 0
  BY FilesAssumption DEF NoPipe
<1>2. 0 \in 0 .. PIPEMOD - 1
  BY FilesAssumption
<1>3. [k \in 0 .. PIPESIZE - 1 |-> 0] \in [0 .. PIPESIZE - 1 -> Byte \cup {0}]
  OBVIOUS
<1>4. NoPipe \in PipeType
  BY <1>2, <1>3 DEF NoPipe, PipeType
<1> QED BY <1>1, <1>4 DEF NoPipe

LEMMA PipecloseKeeps ==
  ASSUME FilesInv, NEW p \in FileProc, pipeclose(p)
  PROVE  FilesInv'
<1> DEFINE t == end[p]
           rd == pipe.readopen /\ t # "read"
           wr == pipe.writeopen /\ t # "write"
<1>1. /\ t # "none"
      /\ pipe' = IF rd \/ wr THEN [pipe EXCEPT !.readopen = rd, !.writeopen = wr] ELSE NoPipe
      /\ end' = [end EXCEPT ![p] = "none"]
      /\ UNCHANGED <<ofile, ftable, ppc, left>>
  BY DEF pipeclose
<1>2. t \in Ends /\ pipe \in PipeType /\ pipe.readopen \in BOOLEAN /\ pipe.writeopen \in BOOLEAN
  BY <1>1 DEF FilesInv, FilesTypeOK, PipeType
<1> HIDE DEF t
<1>3. rd \in BOOLEAN /\ wr \in BOOLEAN
  BY <1>2
<1>4. /\ pipe' \in PipeType
      /\ pipe'.readopen = rd /\ pipe'.writeopen = wr
      /\ Count' = Count \/ Count' = 0
  <2> HIDE DEF rd, wr
  <2>1. CASE rd \/ wr
    <3>1. pipe' = [pipe EXCEPT !.readopen = rd, !.writeopen = wr]
      BY <1>1, <2>1
    <3> QED BY <1>2, <1>3, <3>1, Zenon DEF PipeType, Count
  <2>2. CASE ~ (rd \/ wr)
    <3>1. pipe' = NoPipe /\ rd = FALSE /\ wr = FALSE
      BY <1>1, <1>3, <2>2
    <3> QED BY <3>1, NoPipeOK, Zenon DEF Count
  <2> QED BY <2>1, <2>2
<1>5. FilesTypeOK'
  BY <1>1, <1>4 DEF FilesInv, FilesTypeOK
<1>6. NewIsClosed' /\ FreeIsNone'
  BY <1>1 DEF FilesInv, NewIsClosed, FreeIsNone
<1>7. RefsCounted'
  BY <1>1 DEF FilesInv, RefsCounted, Users
<1>8. PipeBounded'
  BY <1>4, FilesAssumption DEF FilesInv, PipeBounded
<1>9. \A q \in FileProc : end'[q] = IF q = p THEN "none" ELSE end[q]
  BY <1>1 DEF FilesInv, FilesTypeOK
<1>10. HeldOnce'
  <2>1. \A u \in Ends : "none" # u
    BY DEF Ends
  <2> QED BY <1>1, <1>9, <2>1 DEF FilesInv, EndsKept, HeldOnce
<1>11. /\ \A f \in File : ftable[f].type # t
       /\ \A q \in FileProc : end[q] = t <=> q = p
  BY <1>2 DEF FilesInv, EndsKept, HeldOnce, t
<1>12. ASSUME NEW u \in Ends PROVE EndOpen(u)' <=> EndOpen(u) /\ u # t
  <2>1. CASE u = t
    BY <1>1, <1>2, <1>9, <1>11, <2>1 DEF EndOpen, Ends
  <2>2. CASE u # t
    <3>1. \A q \in FileProc : end'[q] = u <=> end[q] = u
      BY <1>9, <1>11, <2>2 DEF Ends, t
    <3> QED BY <1>1, <2>2, <3>1 DEF EndOpen
  <2> QED BY <2>1, <2>2
<1>13. EndsKept'
  <2>1. "read" \in Ends /\ "write" \in Ends
    BY DEF Ends
  <2>2. EndOpen("read")' <=> rd
    BY <1>12, <2>1 DEF FilesInv, EndsKept
  <2>3. EndOpen("write")' <=> wr
    BY <1>12, <2>1 DEF FilesInv, EndsKept
  <2>4. EndOpen("read")' \in BOOLEAN /\ EndOpen("write")' \in BOOLEAN
    BY DEF EndOpen
  <2> QED BY <1>3, <1>4, <1>10, <2>2, <2>3, <2>4 DEF EndsKept
<1> QED BY <1>5, <1>6, <1>7, <1>8, <1>13 DEF FilesInv

LEMMA ForkKeeps ==
  ASSUME FilesInv, NEW p \in FileProc, NEW np \in FileProc, forkFiles(p, np)
  PROVE  FilesInv'
<1> DEFINE D(f) == {d \in Fd : ofile[p][d] = f}
<1>1. /\ ofile' = [ofile EXCEPT ![np] = ofile[p]]
      /\ ftable' = [f \in File |-> [ftable[f] EXCEPT !.ref = @ + Cardinality(D(f))]]
      /\ ppc' = [ppc EXCEPT ![np] = "run"]
      /\ UNCHANGED <<pipe, end, left>>
  BY DEF forkFiles, forkDups, PGoTo
<1>2. ofile \in Table /\ ofile[np] = Closed
  BY DEF forkFiles, FilesInv, FilesTypeOK, NewIsClosed
<1>3. \A f \in File : Cardinality(D(f)) \in Nat
  <2>1. IsFiniteSet(Fd)
    BY TablesFinite
  <2> QED BY <2>1, FS_Subset, FS_CardinalityType
<1>4. ASSUME NEW f \in File
      PROVE  /\ ofile' \in Table
             /\ Cardinality(UsersOf(ofile', f))
                  = Cardinality(UsersOf(ofile, f)) + Cardinality(D(f))
  <2>1. /\ [ofile EXCEPT ![np] = ofile[p]] \in Table
        /\ Cardinality(UsersOf([ofile EXCEPT ![np] = ofile[p]], f))
             = Cardinality(UsersOf(ofile, f)) + Cardinality(D(f))
    BY <1>2, ForkCounts
  <2> QED BY <1>1, <2>1
<1> HIDE DEF D
<1>5. ASSUME NEW f \in File
      PROVE  /\ ftable'[f] \in FileType
             /\ ftable'[f].ref = ftable[f].ref + Cardinality(D(f))
             /\ ftable'[f].type = ftable[f].type
  BY <1>1, <1>3 DEF FilesInv, FilesTypeOK, FileType
<1>6. FilesTypeOK'
  <2>1. ofile' \in Table
    <3>1. 1 \in File
      BY FilesAssumption DEF File
    <3> QED BY <1>4, <3>1
  <2>2. ftable' \in [File -> FileType]
    BY <1>1, <1>5
  <2> QED BY <1>1, <2>1, <2>2, Zenon DEF FilesInv, FilesTypeOK
<1>7. RefsCounted'
  <2>1. \A f \in File : Cardinality(D(f)) \in Int
    BY <1>3
  <2> QED BY <1>4, <1>5, <2>1, CountsMatch
<1>8. NewIsClosed'
  BY <1>1 DEF FilesInv, FilesTypeOK, NewIsClosed, Table
<1>9. FreeIsNone'
  <2>1. \A f \in File : ftable[f].ref \in Nat
    BY UsersAre, UsersFinite DEF FilesInv, RefsCounted
  <2>2. \A f \in File : ftable'[f].ref = 0 => ftable[f].ref = 0
    BY <1>3, <1>5, <2>1
  <2> QED BY <1>5, <2>2 DEF FilesInv, FreeIsNone
<1> QED BY <1>1, <1>5, <1>6, <1>7, <1>8, <1>9, CountingCall

-----------------------------------------------------------------------------
(* The ring of the pipe.                                                   *)

LEMMA RingType ==
  ASSUME FilesInv
  PROVE  /\ PIPESIZE \in Int /\ PIPESIZE > 0 /\ PIPEMOD \in Int /\ PIPEMOD > 0
         /\ PIPEMOD % PIPESIZE = 0 /\ PIPESIZE < PIPEMOD
         /\ pipe \in PipeType
         /\ pipe.nread \in 0 .. PIPEMOD - 1 /\ pipe.nwrite \in 0 .. PIPEMOD - 1
         /\ pipe.data \in [0 .. PIPESIZE - 1 -> Byte \cup {0}]
         /\ Count \in 0 .. PIPESIZE
<1>1. PIPESIZE \in Int /\ PIPESIZE > 0 /\ PIPEMOD \in Int /\ PIPEMOD > 0
      /\ PIPEMOD % PIPESIZE = 0 /\ PIPESIZE < PIPEMOD
  BY FilesAssumption
<1>2. pipe \in PipeType
      /\ pipe.nread \in 0 .. PIPEMOD - 1 /\ pipe.nwrite \in 0 .. PIPEMOD - 1
      /\ pipe.data \in [0 .. PIPESIZE - 1 -> Byte \cup {0}]
  BY DEF FilesInv, FilesTypeOK, PipeType
<1>3. pipe.nwrite - pipe.nread \in Int
  BY <1>2
<1>4. Count \in 0 .. PIPEMOD - 1
  BY <1>1, <1>3, ModRange DEF Count
<1>5. Count \in 0 .. PIPESIZE
  BY <1>1, <1>4 DEF FilesInv, PipeBounded
<1> QED BY <1>1, <1>2, <1>5

LEMMA InsideIs ==
  ASSUME FilesInv
  PROVE  /\ Inside \in Seq(Byte \cup {0}) /\ Len(Inside) = Count
         /\ \A k \in 1 .. Count : Inside[k] = pipe.data[(pipe.nread + k - 1) % PIPESIZE]
<1>1. ASSUME NEW k \in 1 .. Count
      PROVE  pipe.data[(pipe.nread + k - 1) % PIPESIZE] \in Byte \cup {0}
  <2>1. pipe.nread + k - 1 \in Int
    BY RingType
  <2>2. (pipe.nread + k - 1) % PIPESIZE \in 0 .. PIPESIZE - 1
    BY <2>1, RingType, ModRange
  <2> QED BY <2>2, RingType
<1>2. Count \in Nat
  BY RingType
<1> QED BY <1>1, <1>2 DEF Inside

(* n bytes of p go into the pipe: what is inside only grows at its end.    *)
LEMMA PutOK ==
  ASSUME FilesInv, NEW p \in FileProc, NEW n \in Nat, n <= Room, n <= Len(left[p])
  PROVE  LET q == Put(p, n) IN
         /\ q \in PipeType
         /\ q.readopen = pipe.readopen /\ q.writeopen = pipe.writeopen
         /\ q.nread = pipe.nread
         /\ (q.nwrite - q.nread) % PIPEMOD = Count + n
         /\ \A k \in 1 .. Count : q.data[(q.nread + k - 1) % PIPESIZE] = Inside[k]
<1> DEFINE q == Put(p, n)
           i(k) == (k - pipe.nwrite) % PIPESIZE
<1>1. left[p] \in Seq(Byte)
  BY DEF FilesInv, FilesTypeOK
<1>2. ASSUME NEW k \in 0 .. PIPESIZE - 1 PROVE i(k) \in 0 .. PIPESIZE - 1
  <2>1. k - pipe.nwrite \in Int
    BY RingType
  <2> QED BY <2>1, RingType, ModRange
<1>3. /\ q.readopen = pipe.readopen /\ q.writeopen = pipe.writeopen /\ q.nread = pipe.nread
      /\ q.nwrite = (pipe.nwrite + n) % PIPEMOD
      /\ \A k \in 0 .. PIPESIZE - 1 :
           q.data[k] = IF i(k) < n THEN left[p][i(k) + 1] ELSE pipe.data[k]
      /\ q = [readopen |-> q.readopen, writeopen |-> q.writeopen, nread |-> q.nread,
              nwrite |-> q.nwrite, data |-> q.data]
      /\ q.data = [k \in 0 .. PIPESIZE - 1 |-> q.data[k]]
  <2> DEFINE D == [k \in 0 .. PIPESIZE - 1 |-> IF i(k) < n THEN left[p][i(k) + 1] ELSE pipe.data[k]]
  <2>1. pipe = [readopen |-> pipe.readopen, writeopen |-> pipe.writeopen, nread |-> pipe.nread,
                nwrite |-> pipe.nwrite, data |-> pipe.data]
    BY RingType DEF PipeType
  <2>2. DOMAIN pipe.data = 0 .. PIPESIZE - 1
    BY RingType
  <2>3. q = [pipe EXCEPT !.nwrite = (@ + n) % PIPEMOD, !.data = D]
    BY <2>2 DEF Put
  <2>4. D = [k \in 0 .. PIPESIZE - 1 |-> D[k]]
        /\ \A k \in 0 .. PIPESIZE - 1 : D[k] = IF i(k) < n THEN left[p][i(k) + 1] ELSE pipe.data[k]
    OBVIOUS
  <2> HIDE DEF D, i, q
  <2>5. q = [readopen |-> pipe.readopen, writeopen |-> pipe.writeopen, nread |-> pipe.nread,
             nwrite |-> (pipe.nwrite + n) % PIPEMOD, data |-> D]
    BY <2>1, <2>3, Zenon
  <2> QED BY <2>4, <2>5
<1> HIDE DEF q, i
<1>4. q \in PipeType
  <2>1. ASSUME NEW k \in 0 .. PIPESIZE - 1 PROVE q.data[k] \in Byte \cup {0}
    <3>1. CASE i(k) < n
      <4>1. i(k) + 1 \in 1 .. Len(left[p])
        BY <1>1, <1>2, <3>1
      <4>2. left[p][i(k) + 1] \in Byte
        BY <1>1, <4>1
      <4> QED BY <1>3, <3>1, <4>2
    <3>2. CASE ~ (i(k) < n)
      BY <1>3, <3>2, RingType
    <3> QED BY <3>1, <3>2
  <2>2. q.data \in [0 .. PIPESIZE - 1 -> Byte \cup {0}]
    BY <1>3, <2>1
  <2>3. q.nwrite \in 0 .. PIPEMOD - 1
    <3>1. pipe.nwrite + n \in Int
      BY RingType
    <3> QED BY <1>3, <3>1, RingType, ModRange
  <2>4. pipe.readopen \in BOOLEAN /\ pipe.writeopen \in BOOLEAN
    BY RingType DEF PipeType
  <2> QED BY <1>3, <2>2, <2>3, <2>4, RingType DEF PipeType
<1>5. n <= PIPESIZE - Count
  BY DEF Room
<1>6. (q.nwrite - q.nread) % PIPEMOD = Count + n
  <2>1. Count + n < PIPEMOD
    BY <1>5, RingType
  <2>2. Ring(PIPEMOD, PIPEMOD, pipe.nwrite, pipe.nread)
    BY RingType DEF Ring
  <2>3. (((pipe.nwrite + n) % PIPEMOD) - pipe.nread) % PIPEMOD = Count + n
    BY <2>1, <2>2, RingCount DEF Count
  <2> QED BY <1>3, <2>3
<1>7. ASSUME NEW k \in 1 .. Count
      PROVE  q.data[(q.nread + k - 1) % PIPESIZE] = Inside[k]
  <2> DEFINE j == (pipe.nread + (k - 1)) % PIPESIZE
  <2>1. k - 1 \in Nat /\ k - 1 < Count /\ Count <= PIPESIZE
        /\ pipe.nwrite \in Int /\ pipe.nread \in Int /\ pipe.nread + (k - 1) \in Int
        /\ pipe.nread + k - 1 = pipe.nread + (k - 1)
    BY RingType
  <2>2. j \in 0 .. PIPESIZE - 1
    BY <2>1, RingType, ModRange
  <2>3. i(j) = PIPESIZE - Count + (k - 1)
    <3> DEFINE m == k - 1
           nw == pipe.nwrite
           nr == pipe.nread
    <3>1. m \in Nat /\ m < Count /\ Count \in Int /\ nw \in Int /\ nr \in Int
          /\ Count = (nw - nr) % PIPEMOD /\ Count <= PIPESIZE
      BY <2>1, RingType DEF Count
    <3>2. /\ PIPESIZE \in Int /\ PIPESIZE > 0 /\ PIPEMOD \in Int /\ PIPEMOD > 0
          /\ PIPEMOD % PIPESIZE = 0
      BY RingType
    <3> HIDE DEF m, nw, nr
    <3>3. RingAt(PIPESIZE, PIPEMOD, nw, nr, m, Count)
      BY <3>1, <3>2 DEF RingAt
    <3>4. (((nr + m) % PIPESIZE) - nw) % PIPESIZE = PIPESIZE - Count + m
      BY <3>3, RingSlot
    <3> QED BY <3>4 DEF i, m, nw, nr
  <2> HIDE DEF j
  <2>4. ~ (i(j) < n)
    BY <1>5, <2>1, <2>3, RingType
  <2>5. q.data[j] = pipe.data[j]
    BY <1>3, <2>2, <2>4
  <2> QED BY <1>3, <2>1, <2>5, InsideIs DEF j
<1> QED BY <1>3, <1>4, <1>6, <1>7 DEF q

(* m bytes leave the pipe: the others stay inside, in order.               *)
LEMMA GetOK ==
  ASSUME FilesInv, NEW m \in 0 .. Count
  PROVE  LET q == [pipe EXCEPT !.nread = (@ + m) % PIPEMOD] IN
         /\ q \in PipeType
         /\ q.readopen = pipe.readopen /\ q.writeopen = pipe.writeopen
         /\ (q.nwrite - q.nread) % PIPEMOD = Count - m
         /\ \A k \in 1 .. Count - m : q.data[(q.nread + k - 1) % PIPESIZE] = Inside[m + k]
<1> DEFINE q == [pipe EXCEPT !.nread = (@ + m) % PIPEMOD]
<1>1. /\ PIPESIZE \in Int /\ PIPESIZE > 0 /\ PIPEMOD \in Int /\ PIPEMOD > 0
      /\ PIPEMOD % PIPESIZE = 0 /\ Count \in 0 .. PIPESIZE
      /\ pipe.nread \in Int /\ pipe.nwrite \in Int /\ m \in Nat /\ m <= Count
      /\ pipe.nread + m \in Int
  BY RingType
<1>2. (pipe.nread + m) % PIPEMOD \in 0 .. PIPEMOD - 1
  BY <1>1, ModRange
<1>3. /\ q.readopen = pipe.readopen /\ q.writeopen = pipe.writeopen /\ q.data = pipe.data
      /\ q.nwrite = pipe.nwrite /\ q.nread = (pipe.nread + m) % PIPEMOD /\ q \in PipeType
  BY <1>2, RingType DEF PipeType
<1> HIDE DEF q
<1>4. (q.nwrite - q.nread) % PIPEMOD = Count - m
  <2>1. Ring(PIPEMOD, PIPEMOD, pipe.nwrite, pipe.nread)
    BY <1>1 DEF Ring
  <2>2. (pipe.nwrite - ((pipe.nread + m) % PIPEMOD)) % PIPEMOD = Count - m
    BY <1>1, <2>1, RingCount DEF Count
  <2> QED BY <1>3, <2>2
<1>5. ASSUME NEW k \in 1 .. Count - m
      PROVE  q.data[(q.nread + k - 1) % PIPESIZE] = Inside[m + k]
  <2>1. k - 1 \in Int /\ m + k \in 1 .. Count
        /\ q.nread + k - 1 = q.nread + (k - 1)
        /\ pipe.nread + m + (k - 1) = pipe.nread + (m + k) - 1
    BY <1>1, <1>2, <1>3
  <2>2. (q.nread + (k - 1)) % PIPESIZE = (pipe.nread + m + (k - 1)) % PIPESIZE
    <3> DEFINE a == pipe.nread + m
               b == k - 1
    <3>1. a \in Int /\ b \in Int
      BY <1>1, <2>1
    <3> HIDE DEF a, b
    <3>2. ((a % PIPEMOD) + b) % PIPESIZE = (a + b) % PIPESIZE
      <4>1. Ring(PIPESIZE, PIPEMOD, a, b)
        BY <1>1, <3>1 DEF Ring
      <4> QED BY <4>1, RingInner
    <3> QED BY <1>3, <3>2 DEF a, b
  <2> QED BY <1>3, <2>1, <2>2, InsideIs
<1> QED BY <1>3, <1>4, <1>5 DEF q

LEMMA WriteKeeps ==
  ASSUME FilesInv, NEW p \in FileProc, pipewrite(p)
  PROVE  /\ FilesInv'
         /\ \/ UNCHANGED pipe
            \/ \E n \in Nat : n <= Room /\ n <= Len(left[p]) /\ pipe' = Put(p, n)
<1> DEFINE n == IF Room < Len(left[p]) THEN Room ELSE Len(left[p])
<1>1. left[p] \in Seq(Byte) /\ Len(left[p]) \in Nat /\ Room \in Nat
  BY RingType DEF FilesInv, FilesTypeOK, Room
<1>2. n \in Nat /\ n <= Room /\ n <= Len(left[p])
  BY <1>1
<1>3. /\ UNCHANGED <<ofile, ftable, end>>
      /\ UNCHANGED ppc \/ ppc' = [ppc EXCEPT ![p] = "run"]
      /\ ppc[p] = "write"
  BY DEF pipewrite, PGoTo
<1>4. \/ UNCHANGED pipe
      \/ \E k \in Nat : k <= Room /\ k <= Len(left[p]) /\ pipe' = Put(p, k)
  <2>1. CASE UNCHANGED pipe
    BY <2>1
  <2>2. CASE pipe' = Put(p, n)
    <3> HIDE DEF n
    <3> QED BY <1>2, <2>2
  <2>3. CASE \E k \in 0 .. n : k < Len(left[p]) /\ pipe' = Put(p, k)
    <3> HIDE DEF n
    <3>1. PICK k \in 0 .. n : k < Len(left[p]) /\ pipe' = Put(p, k)
      BY <2>3
    <3>2. k \in Nat /\ k <= Room /\ k <= Len(left[p])
      BY <1>1, <1>2, <3>1
    <3> QED BY <3>1, <3>2
  <2> QED BY <2>1, <2>2, <2>3 DEF pipewrite
<1>5. left' \in [FileProc -> Seq(Byte)]
  <2>1. left' = [left EXCEPT ![p] = <<>>] \/ left' = [left EXCEPT ![p] = SubSeq(@, n + 1, Len(@))]
    BY DEF pipewrite
  <2>2. SubSeq(left[p], n + 1, Len(left[p])) \in Seq(Byte)
    <3> HIDE DEF n
    <3> QED BY <1>1, <1>2
  <2>3. <<>> \in Seq(Byte)
    OBVIOUS
  <2> HIDE DEF n
  <2> QED BY <2>1, <2>2, <2>3, Zenon DEF FilesInv, FilesTypeOK
<1> HIDE DEF n
<1>6. /\ pipe' \in PipeType /\ PipeBounded'
      /\ pipe'.readopen = pipe.readopen /\ pipe'.writeopen = pipe.writeopen
  <2>1. CASE UNCHANGED pipe
    BY <2>1 DEF FilesInv, FilesTypeOK, PipeBounded, Count
  <2>2. CASE \E k \in Nat : k <= Room /\ k <= Len(left[p]) /\ pipe' = Put(p, k)
    <3>1. PICK k \in Nat : k <= Room /\ k <= Len(left[p]) /\ pipe' = Put(p, k)
      BY <2>2
    <3>2. /\ pipe' \in PipeType
          /\ pipe'.readopen = pipe.readopen /\ pipe'.writeopen = pipe.writeopen
          /\ Count' = Count + k
      BY <3>1, PutOK DEF Count
    <3>3. Count + k <= PIPESIZE
      BY <3>1, RingType DEF Room
    <3> QED BY <3>2, <3>3 DEF PipeBounded
  <2> QED BY <1>4, <2>1, <2>2
<1>7. FilesTypeOK'
  BY <1>3, <1>5, <1>6, Zenon DEF FilesInv, FilesTypeOK
<1>8. \A q \in FileProc : ppc'[q] = "new" => ppc[q] = "new"
  BY <1>3 DEF FilesInv, FilesTypeOK
<1> QED BY <1>3, <1>4, <1>6, <1>7, <1>8, QuietCall

LEMMA ReadKeeps ==
  ASSUME FilesInv, NEW p \in FileProc, NEW n \in Nat, piperead(p, n)
  PROVE  /\ FilesInv'
         /\ \/ UNCHANGED pipe
            \/ \E m \in 0 .. Count : pipe' = [pipe EXCEPT !.nread = (@ + m) % PIPEMOD]
<1>1. /\ UNCHANGED <<ofile, ftable, end, left>>
      /\ UNCHANGED ppc \/ ppc' = [ppc EXCEPT ![p] = "run"]
      /\ ppc[p] = "read"
  BY DEF piperead, PGoTo
<1>2. \/ UNCHANGED pipe
      \/ \E m \in 0 .. Count : pipe' = [pipe EXCEPT !.nread = (@ + m) % PIPEMOD]
  <2> DEFINE m == IF n < Count THEN n ELSE Count
  <2>1. m \in 0 .. Count
    BY RingType
  <2>2. UNCHANGED pipe \/ pipe' = [pipe EXCEPT !.nread = (@ + m) % PIPEMOD]
    BY DEF piperead
  <2> HIDE DEF m
  <2> QED BY <2>1, <2>2
<1>3. /\ pipe' \in PipeType /\ PipeBounded'
      /\ pipe'.readopen = pipe.readopen /\ pipe'.writeopen = pipe.writeopen
  <2>1. CASE UNCHANGED pipe
    BY <2>1 DEF FilesInv, FilesTypeOK, PipeBounded, Count
  <2>2. CASE \E m \in 0 .. Count : pipe' = [pipe EXCEPT !.nread = (@ + m) % PIPEMOD]
    <3>1. PICK m \in 0 .. Count : pipe' = [pipe EXCEPT !.nread = (@ + m) % PIPEMOD]
      BY <2>2
    <3>2. /\ pipe' \in PipeType
          /\ pipe'.readopen = pipe.readopen /\ pipe'.writeopen = pipe.writeopen
          /\ Count' = Count - m
      BY <3>1, GetOK DEF Count
    <3>3. Count - m <= PIPESIZE
      BY <3>1, RingType
    <3> QED BY <3>2, <3>3 DEF PipeBounded
  <2> QED BY <1>2, <2>1, <2>2
<1>4. FilesTypeOK'
  BY <1>1, <1>3 DEF FilesInv, FilesTypeOK
<1>5. \A q \in FileProc : ppc'[q] = "new" => ppc[q] = "new"
  BY <1>1 DEF FilesInv, FilesTypeOK
<1> QED BY <1>1, <1>2, <1>3, <1>4, <1>5, QuietCall

(* What a call may do to the pipe.                                         *)
PipeMoves ==
  \/ Inside' = Inside
  \/ Count' = 0
  \/ \E p \in FileProc, n \in Nat : n <= Room /\ n <= Len(left[p]) /\ pipe' = Put(p, n)
  \/ \E m \in 0 .. Count : pipe' = [pipe EXCEPT !.nread = (@ + m) % PIPEMOD]

LEMMA SameInside ==
  ASSUME pipe'.nread = pipe.nread, pipe'.nwrite = pipe.nwrite, pipe'.data = pipe.data
  PROVE  Inside' = Inside
BY DEF Inside, Count

LEMMA CallKeeps ==
  ASSUME FilesInv, [AnyCall]_fileVars2
  PROVE  FilesInv' /\ PipeMoves
<1>1. CASE UNCHANGED fileVars2
  <2>1. UNCHANGED <<ofile, ftable, pipe, ppc, end, left>>
    BY <1>1 DEF fileVars2
  <2> QED BY <2>1, QuietCall, SameInside DEF FilesInv, FilesTypeOK, PipeBounded, Count, PipeMoves
<1>2. SUFFICES ASSUME NEW p \in FileProc, FileCall(p) PROVE FilesInv' /\ PipeMoves
  BY <1>1 DEF AnyCall
<1>3. CASE sys_openFd(p)
  BY <1>3, OpenKeeps, SameInside DEF sys_openFd, PipeMoves
<1>4. CASE sys_pipe(p)
  <2>1. UNCHANGED pipe \/ pipe' = [NoPipe EXCEPT !.readopen = TRUE, !.writeopen = TRUE]
    BY <1>4 DEF sys_pipe
  <2>2. CASE pipe' = [NoPipe EXCEPT !.readopen = TRUE, !.writeopen = TRUE]
    <3>1. pipe'.nread = NoPipe.nread /\ pipe'.nwrite = NoPipe.nwrite
      BY <2>2 DEF NoPipe
    <3>2. Count' = 0
      BY <3>1, NoPipeOK DEF Count
    <3> QED BY <1>4, <3>2, PipeKeeps DEF PipeMoves
  <2> QED BY <1>4, <2>1, <2>2, PipeKeeps, SameInside DEF PipeMoves
<1>5. CASE pipeclose(p)
  <2> DEFINE rd == pipe.readopen /\ end[p] # "read"
             wr == pipe.writeopen /\ end[p] # "write"
  <2>1. pipe' = [pipe EXCEPT !.readopen = rd, !.writeopen = wr] \/ pipe' = NoPipe
    BY <1>5 DEF pipeclose
  <2>2. CASE pipe' = [pipe EXCEPT !.readopen = rd, !.writeopen = wr]
    <3>1. pipe'.nread = pipe.nread /\ pipe'.nwrite = pipe.nwrite /\ pipe'.data = pipe.data
      BY <2>2, RingType DEF PipeType
    <3> QED BY <1>5, <3>1, PipecloseKeeps, SameInside DEF PipeMoves
  <2>3. CASE pipe' = NoPipe
    <3>1. Count' = 0
      BY <2>3, NoPipeOK DEF Count
    <3> QED BY <1>5, <3>1, PipecloseKeeps DEF PipeMoves
  <2> QED BY <2>1, <2>2, <2>3
<1>6. ASSUME NEW d \in Fd, NEW back \in {"run", "exiting"},
             ofile[p][d] # NoFd, end[p] = "none", fileclose(p, d, back)
      PROVE  FilesInv' /\ PipeMoves
  BY <1>6, CloseKeeps, SameInside, Zenon DEF fileclose, PipeMoves
<1>7. CASE exitCloses(p)
  <2> DEFINE open == {d \in Fd : ofile[p][d] # NoFd}
  <2>1. CASE open # {}
    <3>1. open \in SUBSET Nat
      BY DEF Fd
    <3>2. FirstFd(open) \in open
      BY <2>1, <3>1, FirstFdIn
    <3>3. end[p] = "none" /\ fileclose(p, FirstFd(open), "exiting")
      BY <1>7, <2>1 DEF exitCloses
    <3> QED BY <1>6, <3>2, <3>3
  <2>2. CASE open = {}
    <3>1. ppc' = [ppc EXCEPT ![p] = "zombie"] /\ UNCHANGED <<ofile, ftable, pipe, end, left>>
      BY <1>7, <2>2 DEF exitCloses, PGoTo
    <3>2. FilesTypeOK' /\ PipeBounded'
      BY <3>1 DEF FilesInv, FilesTypeOK, PipeBounded, Count
    <3>3. \A q \in FileProc : ppc'[q] = "new" => ppc[q] = "new"
      BY <3>1 DEF FilesInv, FilesTypeOK
    <3> QED BY <3>1, <3>2, <3>3, QuietCall, SameInside DEF PipeMoves
  <2> QED BY <2>1, <2>2
<1>8. ASSUME NEW d \in Fd, sys_dup(p, d) PROVE FilesInv' /\ PipeMoves
  BY <1>8, DupKeeps, SameInside DEF sys_dup, PipeMoves
<1>9. ASSUME NEW d \in Fd, sys_closeFd(p, d) PROVE FilesInv' /\ PipeMoves
  BY <1>6, <1>9 DEF sys_closeFd, Running
<1>10. ASSUME NEW d \in Fd, NEW m \in Message, filereadPipe(p, d) \/ filewritePipe(p, d, m)
       PROVE  FilesInv' /\ PipeMoves
  <2>1. /\ ppc' = [ppc EXCEPT ![p] = "read"] \/ ppc' = [ppc EXCEPT ![p] = "write"]
        /\ UNCHANGED <<ofile, ftable, pipe, end>>
        /\ left' = left \/ left' = [left EXCEPT ![p] = m]
    BY <1>10 DEF filereadPipe, filewritePipe, PGoTo
  <2>2. FilesTypeOK' /\ PipeBounded'
    BY <2>1, FilesAssumption, Zenon DEF FilesInv, FilesTypeOK, PipeBounded, Count
  <2>3. \A q \in FileProc : ppc'[q] = "new" => ppc[q] = "new"
    BY <2>1 DEF FilesInv, FilesTypeOK
  <2> QED BY <2>1, <2>2, <2>3, QuietCall, SameInside DEF PipeMoves
<1>11. ASSUME NEW np \in FileProc, forkFiles(p, np) PROVE FilesInv' /\ PipeMoves
  BY <1>11, ForkKeeps, SameInside, Zenon DEF forkFiles, PipeMoves
<1>12. CASE pipewrite(p)
  BY <1>12, WriteKeeps, SameInside DEF PipeMoves
<1>13. ASSUME NEW n \in Nat, piperead(p, n) PROVE FilesInv' /\ PipeMoves
  BY <1>13, ReadKeeps, SameInside DEF PipeMoves
<1>14. CASE killSleeper(p)
  <2>1. UNCHANGED <<ofile, ftable, pipe, ppc, end, left>>
    BY <1>14 DEF killSleeper
  <2> QED BY <2>1, QuietCall, SameInside DEF FilesInv, FilesTypeOK, PipeBounded, Count, PipeMoves
<1>15. ASSUME NEW d \in Fd, filereadPipe(p, d) PROVE FilesInv' /\ PipeMoves
  <2>1. ppc' = [ppc EXCEPT ![p] = "read"] /\ UNCHANGED <<ofile, ftable, pipe, end, left>>
    BY <1>15 DEF filereadPipe, PGoTo
  <2>2. FilesTypeOK' /\ PipeBounded'
    BY <2>1 DEF FilesInv, FilesTypeOK, PipeBounded, Count
  <2>3. \A q \in FileProc : ppc'[q] = "new" => ppc[q] = "new"
    BY <2>1 DEF FilesInv, FilesTypeOK
  <2> QED BY <2>1, <2>2, <2>3, QuietCall, SameInside DEF PipeMoves
<1> QED BY <1>2, <1>3, <1>4, <1>5, <1>7, <1>8, <1>9, <1>10, <1>11, <1>12, <1>13, <1>14, <1>15
    DEF FileCall

InsideOK ==
  /\ Inside \in Seq(Byte \cup {0}) /\ Len(Inside) = Count /\ Count \in 0 .. PIPESIZE
  /\ \A k \in 1 .. Count : Inside[k] = pipe.data[(pipe.nread + k - 1) % PIPESIZE]

LEMMA InsideNext == FilesInv' => InsideOK'
<1>1. FilesInv => InsideOK
  BY InsideIs, RingType DEF InsideOK
<1> QED BY <1>1, PTL

(* Each of these is a step of a first-in first-out queue.                  *)
LEMMA MovesAreFifo ==
  ASSUME FilesInv, FilesInv', PipeMoves
  PROVE  [Pipe!FifoNext]_Inside
<1> DEFINE T == Byte \cup {0}
<1>1. Inside \in Seq(T) /\ Len(Inside) = Count /\ Count \in 0 .. PIPESIZE
  BY InsideIs, RingType
<1>2. Inside' \in Seq(T) /\ Len(Inside') = Count' /\ Count' \in 0 .. PIPESIZE
      /\ \A k \in 1 .. Count' : Inside'[k] = pipe'.data[(pipe'.nread + k - 1) % PIPESIZE]
  BY InsideNext DEF InsideOK
<1> HIDE DEF T
<1> DEFINE Added   == \E n \in 0 .. Len(Inside') : Inside = SubSeq(Inside', 1, n)
           Removed == \E n \in 0 .. Len(Inside) : Inside' = SubSeq(Inside, n + 1, Len(Inside))
<1>3. SUFFICES Added \/ Removed \/ Inside' = Inside
  <2>1. Len(Inside') <= PIPESIZE
    BY <1>2, RingType
  <2> QED BY <1>3, <2>1 DEF Pipe!FifoNext, Pipe!FifoStep
<1>4. CASE Count' = 0
  <2>1. Len(Inside') <= Len(Inside)
        /\ \A k \in 1 .. Len(Inside') : Inside'[k] = Inside[Len(Inside) - Len(Inside') + k]
    BY <1>1, <1>2, <1>4
  <2> QED BY <1>1, <1>2, <2>1, SuffixIf, Zenon
<1>5. ASSUME NEW p \in FileProc, NEW n \in Nat, n <= Room, n <= Len(left[p]), pipe' = Put(p, n)
      PROVE  Added
  <2>1. /\ Count' = Count + n
        /\ \A k \in 1 .. Count : pipe'.data[(pipe'.nread + k - 1) % PIPESIZE] = Inside[k]
    BY <1>5, PutOK DEF Count
  <2>2. \A k \in 1 .. Count : k \in 1 .. Count'
    BY <1>1, <2>1
  <2>3. Len(Inside) <= Len(Inside') /\ \A k \in 1 .. Len(Inside) : Inside[k] = Inside'[k]
    <3>1. \A k \in 1 .. Count : Inside[k] = Inside'[k]
      BY <1>2, <2>1, <2>2, Zenon
    <3>2. Len(Inside) = Count /\ Count <= Count' /\ Len(Inside') = Count'
      BY <1>1, <1>2, <1>5, <2>1
    <3> QED BY <3>1, <3>2
  <2> QED BY <1>1, <1>2, <2>3, PrefixIf, Zenon
<1>6. ASSUME NEW m \in 0 .. Count, pipe' = [pipe EXCEPT !.nread = (@ + m) % PIPEMOD]
      PROVE  Removed
  <2>1. /\ Count' = Count - m
        /\ \A k \in 1 .. Count - m : pipe'.data[(pipe'.nread + k - 1) % PIPESIZE] = Inside[m + k]
    BY <1>6, GetOK DEF Count
  <2>2. Count - Count' = m
    BY <1>1, <2>1
  <2>3. \A k \in 1 .. Len(Inside') : Inside'[k] = Inside[Len(Inside) - Len(Inside') + k]
    BY <1>1, <1>2, <2>1, <2>2, Zenon
  <2>4. Len(Inside') <= Len(Inside)
    BY <1>1, <1>2, <2>1
  <2> QED BY <1>1, <1>2, <2>3, <2>4, SuffixIf, Zenon
<1> QED BY <1>4, <1>5, <1>6 DEF PipeMoves

LEMMA InitIsEmpty ==
  ASSUME FilesInv, pipe = NoPipe
  PROVE  Pipe!FifoInit
<1>1. Count = 0
  BY NoPipeOK DEF Count
<1>2. Inside \in Seq(Byte \cup {0}) /\ Len(Inside) = 0
  BY <1>1, InsideIs
<1> QED BY <1>2 DEF Pipe!FifoInit

(* file.c: reference counts and the ends of the pipe, whatever calls any   *)
(* number of processes make in whatever order, for tables of any size and  *)
(* from any number of descriptors open at first.                           *)
THEOREM FilesAreCounted ==
  ASSUME NEW first \in FileProc, NEW open \in 0 .. NOFILE
  PROVE  FilesInit(first, open) /\ [][AnyCall]_fileVars2 => []FilesCounted
<1>1. FilesInit(first, open) => FilesInv
  BY FilesInitOK
<1>2. FilesInv /\ [AnyCall]_fileVars2 => FilesInv'
  BY CallKeeps
<1>3. FilesInv => FilesCounted
  BY DEF FilesInv, RefsCounted, EndsKept, FilesCounted
<1> QED BY <1>1, <1>2, <1>3, PTL

(* pipe.c: the circular buffer with its two wrapping counters implements a *)
(* first-in first-out queue of at most PIPESIZE bytes, for every PIPESIZE  *)
(* that divides the range of the counters.                                 *)
THEOREM PipeImplementsFifo ==
  ASSUME NEW first \in FileProc, NEW open \in 0 .. NOFILE
  PROVE  FilesInit(first, open) /\ [][AnyCall]_fileVars2 => PipeIsFifo
<1>1. FilesInit(first, open) => FilesInv /\ Pipe!FifoInit
  BY FilesInitOK, InitIsEmpty DEF FilesInit
<1>2. FilesInv /\ [AnyCall]_fileVars2 => FilesInv'
  BY CallKeeps
<1>3. FilesInv /\ FilesInv' /\ [AnyCall]_fileVars2 => [Pipe!FifoNext]_Inside
  BY CallKeeps, MovesAreFifo
<1> QED BY <1>1, <1>2, <1>3, PTL DEF PipeIsFifo, Pipe!FifoSpec

(* The steps of Files alone and of a pipeline of the shell are such calls. *)
LEMMA StepsAreCalls ==
  /\ [FilesNext]_fileVars2 => [AnyCall]_fileVars2
  /\ [ShellNext]_shellVars => [AnyCall]_fileVars2
<1>1. [FilesNext]_fileVars2 => [AnyCall]_fileVars2
  BY DEF FilesNext, FilesStep, AnyCall, FileCall
<1>2. ASSUME [ShellNext]_shellVars PROVE [AnyCall]_fileVars2
  <2> USE DEF AnyCall, FileCall
  <2>1. /\ {0, 1, 2, 3} \subseteq Fd /\ {sh, leftcmd, rightcmd} \subseteq FileProc
        /\ 1 .. PIPESIZE \subseteq Nat
    BY ShellAssumption, FilesAssumption DEF Fd
  <2>2. CASE UNCHANGED shellVars
    BY <2>2 DEF shellVars
  <2>3. CASE KillCommand
    BY <2>1, <2>3 DEF KillCommand
  <2>4. ASSUME NEW p \in FileProc, Statement(p) PROVE [AnyCall]_fileVars2
    <3>1. CASE pipeclose(p)
      BY <3>1
    <3>2. CASE ShellStatement
      BY <2>1, <3>2, Zenon DEF ShellStatement
    <3>3. CASE Redirect(p, 1, 3) \/ Redirect(p, 0, 2)
      BY <2>1, <3>3 DEF Redirect
    <3>4. CASE LeftCommand
      BY <2>1, <3>4 DEF LeftCommand
    <3>5. CASE RightCommand
      BY <2>1, <3>5 DEF RightCommand
    <3>6. CASE Exit(p)
      BY <3>6 DEF Exit
    <3> QED BY <2>4, <3>1, <3>2, <3>3, <3>4, <3>5, <3>6, Zenon DEF Statement
  <2> QED BY <1>2, <2>2, <2>3, <2>4 DEF ShellNext
<1> QED BY <1>1, <1>2

(* sh.c: both results hold of a pipeline of the shell, with its kills and  *)
(* early exits.                                                            *)
THEOREM PipelineIsSafe == ShellSpec => []FilesCounted /\ PipeIsFifo
<1>1. sh \in FileProc /\ 2 \in 0 .. NOFILE
  BY ShellAssumption, FilesAssumption
<1>2. FilesInit(sh, 2) /\ [][AnyCall]_fileVars2 => []FilesCounted
  BY <1>1, FilesAreCounted
<1>3. FilesInit(sh, 2) /\ [][AnyCall]_fileVars2 => PipeIsFifo
  BY <1>1, PipeImplementsFifo
<1>4. [ShellNext]_shellVars => [AnyCall]_fileVars2
  BY StepsAreCalls
<1> QED BY <1>2, <1>3, <1>4, PTL DEF ShellSpec, ShellInit
=============================================================================
