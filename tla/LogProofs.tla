----------------------------- MODULE LogProofs ------------------------------
(***************************************************************************)
(* LogSpace and SleeperHasWaker for any number of processes and blocks and *)
(* any sizes that LogSizes allows.  The room begin_op() reserves is a sum  *)
(* over the operations under way; it is counted as the number of pairs of  *)
(* an operation and a block it has logged, and bounded for every set of    *)
(* operations, so that the bound survives the end of any one of them.      *)
(***************************************************************************)
EXTENDS Log, FiniteSetTheorems, TLAPS

(* How long, in seconds, each prover may take over a step.                 *)
USE SMTT(30), ZenonT(30)

(* The types of what the log keeps in memory.                              *)
BookTypeOK ==
  /\ lh \in Seq(HomeBlock) /\ dhead \in Seq(HomeBlock)
  /\ outstanding \in Nat
  /\ committing \in BOOLEAN /\ recovering \in BOOLEAN
  /\ phase \in Phase
  /\ lpc \in [FsProc -> LogPc]
  /\ lbuf \in [FsProc -> HomeBlock \cup {NoBuf}]
  /\ wrote \in [FsProc -> SUBSET HomeBlock]

(* The operations between begin_op() and end_op().                         *)
Ops == {p \in FsProc : lpc[p] \in Holding \cup {"op"}}

(* What runs when: recovery alone, then operations or one commit.          *)
Turns ==
  /\ recovering => /\ ~committing /\ phase \in {"read_head", "install", "clear"}
                   /\ \A p \in FsProc : lpc[p] = "user"
  /\ ~recovering => /\ committing <=> phase # "idle"
                    /\ phase # "read_head"
  /\ committing => Ops = {}
  /\ phase = "done" => lh = <<>>
  /\ phase = "idle" /\ outstanding = 0 => lh = <<>>

Counted ==
  /\ IsFiniteSet(Ops) /\ outstanding = Cardinality(Ops)
  /\ \A p \in FsProc : lpc[p] \in Holding <=> lbuf[p] \in HomeBlock

(* What an operation has logged is in the log.                             *)
Logged == \A p \in Ops : \A b \in wrote[p] : InLog(b)

(* Modify()'s bound, at the moment log_write() is called.                  *)
Within ==
  \A p \in FsProc :
    /\ IsFiniteSet(wrote[p])
    /\ lpc[p] = "dirty" => Cardinality(wrote[p] \cup {lbuf[p]}) <= OPBLOCKS

Pairs(S) == {x \in S \X HomeBlock : x[2] \in wrote[x[1]]}

FewEach == \A S \in SUBSET Ops :
             IsFiniteSet(Pairs(S)) /\ Cardinality(Pairs(S)) <= Cardinality(S) * OPBLOCKS

Reserved == Ops # {} =>
              Len(lh) + outstanding * MAXOPBLOCKS <= LOGSIZE + Cardinality(Pairs(Ops))

BookInv == BookTypeOK /\ Turns /\ Counted /\ Logged /\ Within /\ FewEach /\ Reserved
           /\ SleeperHasWaker
-----------------------------------------------------------------------------
(* Arithmetic of the reservations.                                         *)
LEMMA Spare ==
  ASSUME NEW n \in Nat, n >= 1, NEW m \in Nat, NEW k \in Nat, k < m
  PROVE  n * m >= n * k + (m - k)
<1>1. n * m = n * k + n * (m - k)
  OBVIOUS
<1>2. n * (m - k) >= m - k
  <2>. DEFINE d == m - k
  <2>1. d \in Nat
    OBVIOUS
  <2>. HIDE DEF d
  <2>2. n * d >= d
    BY <2>1
  <2>. QED  BY <2>2 DEF d
<1>. QED  BY <1>1, <1>2

LEMMA Times ==
  ASSUME NEW n \in Nat, NEW m \in Nat
  PROVE  n * m \in Nat /\ (n + 1) * m = n * m + m
  OBVIOUS

(* The pairs of one operation are as many as the blocks it has logged.     *)
LEMMA PairsOfOne ==
  ASSUME NEW p, NEW W \in SUBSET HomeBlock, IsFiniteSet(W)
  PROVE  LET T == {x \in {p} \X HomeBlock : x[2] \in W}
         IN  IsFiniteSet(T) /\ Cardinality(T) <= Cardinality(W)
<1>. DEFINE T == {x \in {p} \X HomeBlock : x[2] \in W}
           f == [b \in W |-> <<p, b>>]
<1>1. f \in Surjection(W, T)
  BY DEF Surjection
<1>. HIDE DEF T, f
<1>2. IsFiniteSet(T) /\ Cardinality(T) <= Cardinality(W)
  BY <1>1, FS_Surjection
<1>. QED  BY <1>2 DEF T

(* What is reserved and logged, as one formula.                            *)
Books == Logged /\ FewEach /\ Reserved

LEMMA NoPairs == Pairs({}) = {}
  BY DEF Pairs

(* A step that neither begins, ends nor logs keeps the books.              *)
LEMMA SameBooks ==
  ASSUME Books, Ops' = Ops, wrote' = wrote, outstanding' = outstanding, lh' = lh
  PROVE  Books'
  BY DEF Books, Logged, FewEach, Reserved, Pairs, InLog

(* Where there is no operation there is nothing to count.                  *)
LEMMA NoBooks == ASSUME Ops' = {} PROVE Books'
<1>1. Logged' /\ Reserved'
  BY DEF Logged, Reserved
<1>2. FewEach'
  <2>1. Pairs({})' = {}
    BY DEF Pairs
  <2>2. IsFiniteSet({}) /\ Cardinality({}) = 0
    BY FS_EmptySet
  <2>3. OPBLOCKS \in Nat
    BY LogSizes
  <2>4. 0 <= 0 * OPBLOCKS
    BY <2>3
  <2>. SUFFICES ASSUME NEW S \in SUBSET Ops'
                PROVE  IsFiniteSet(Pairs(S)') /\ Cardinality(Pairs(S)') <= Cardinality(S) * OPBLOCKS
    BY DEF FewEach
  <2>5. S = {}
    OBVIOUS
  <2>6. Pairs(S)' = {}
    BY <2>5 DEF Pairs
  <2>. QED  BY <2>2, <2>4, <2>5, <2>6, Zenon
<1>. QED  BY <1>1, <1>2 DEF Books

-----------------------------------------------------------------------------
LEMMA BookInit == LogInit => BookInv
<1>. SUFFICES ASSUME LogInit PROVE BookInv
  OBVIOUS
<1>0. BookTypeOK
  <2>1. lh \in Seq(HomeBlock) /\ dhead \in Seq(HomeBlock)
    BY DEF LogInit
  <2>2. /\ lpc \in [FsProc -> LogPc] /\ lbuf \in [FsProc -> HomeBlock \cup {NoBuf}]
        /\ wrote \in [FsProc -> SUBSET HomeBlock]
    BY DEF LogInit, LogPc
  <2>3. committing \in BOOLEAN /\ recovering \in BOOLEAN
    BY Zenon DEF LogInit
  <2>. QED  BY <2>1, <2>2, <2>3 DEF LogInit, BookTypeOK, Phase
<1>1. Turns /\ SleeperHasWaker
  BY DEF LogInit, Turns, SleeperHasWaker
<1>2. Ops = {}
  BY DEF LogInit, Ops, Holding
<1>3. Counted
  BY <1>2, FS_EmptySet, NoBufAssumption DEF LogInit, Counted, Holding
<1>4. Within
  BY FS_EmptySet DEF LogInit, Within
<1>5. Logged /\ Reserved
  BY <1>2 DEF Logged, Reserved
<1>6. FewEach
  <2>. SUFFICES ASSUME NEW S \in SUBSET Ops
                PROVE  IsFiniteSet(Pairs(S)) /\ Cardinality(Pairs(S)) <= Cardinality(S) * OPBLOCKS
    BY DEF FewEach
  <2>1. S = {} /\ Pairs(S) = {}
    BY <1>2, NoPairs
  <2>2. Cardinality({}) = 0 /\ 0 <= 0 * OPBLOCKS
    BY FS_EmptySet, LogSizes
  <2>. QED  BY <2>1, <2>2, FS_EmptySet, Zenon
<1>. QED  BY <1>0, <1>1, <1>3, <1>4, <1>5, <1>6 DEF BookInv

LEMMA CrashBook == ASSUME BookInv, Crash PROVE BookInv'
<1>0. BookTypeOK'
  <2>1. lh' \in Seq(HomeBlock) /\ dhead' \in Seq(HomeBlock)
    BY DEF BookInv, BookTypeOK, Crash, Boot
  <2>2. /\ lpc' \in [FsProc -> LogPc] /\ lbuf' \in [FsProc -> HomeBlock \cup {NoBuf}]
        /\ wrote' \in [FsProc -> SUBSET HomeBlock]
    BY DEF Crash, Boot, LogPc
  <2>3. committing' \in BOOLEAN /\ recovering' \in BOOLEAN
    BY Zenon DEF Crash, Boot
  <2>. QED  BY <2>1, <2>2, <2>3 DEF Crash, Boot, BookTypeOK, Phase
<1>1. Turns' /\ SleeperHasWaker'
  BY DEF Crash, Boot, Turns, SleeperHasWaker
<1>2. Ops' = {}
  BY DEF Crash, Boot, Ops, Holding
<1>3. Counted'
  BY <1>2, FS_EmptySet, NoBufAssumption DEF Crash, Boot, Counted, Holding
<1>4. Within'
  BY FS_EmptySet DEF Crash, Boot, Within
<1>. QED  BY <1>0, <1>1, <1>2, <1>3, <1>4, NoBooks DEF BookInv, Books

(* begin_op() sleeps.                                                      *)
LEMMA SleepBook ==
  ASSUME BookInv, NEW p \in FsProc, begin_op(p), ~MayBegin
  PROVE  BookInv'
<1>. USE DEF BookInv
<1>1. /\ ~recovering /\ lpc[p] \in {"user", "begin"}
      /\ lpc' = [lpc EXCEPT ![p] = "asleep"]
      /\ UNCHANGED <<dhead, lh, outstanding, committing, recovering, phase, lbuf, wrote>>
  BY DEF begin_op
<1>2. Ops' = Ops
  BY <1>1 DEF Ops, Holding, BookTypeOK
<1>3. BookTypeOK'
  BY <1>1 DEF BookTypeOK, LogPc
<1>4. Turns'
  BY <1>1, <1>2 DEF Turns
<1>5. Counted'
  BY <1>1, <1>2, NoBufAssumption DEF Counted, BookTypeOK, Holding
<1>6. Within'
  BY <1>1 DEF Within, BookTypeOK
<1>7. SleeperHasWaker'
  <2>. SUFFICES ASSUME ~committing PROVE outstanding > 0
    BY <1>1 DEF SleeperHasWaker
  <2>. SUFFICES ASSUME outstanding = 0 PROVE FALSE
    BY DEF BookTypeOK
  <2>1. lh = <<>>
    BY <1>1 DEF Turns
  <2>. QED  BY <2>1, LogSizes DEF MayBegin
<1>. QED  BY <1>1, <1>2, <1>3, <1>4, <1>5, <1>6, <1>7, SameBooks DEF Books

LEMMA TimesMonotone ==
  ASSUME NEW i \in Nat, NEW j \in Nat, i <= j, NEW k \in Nat
  PROVE  i * k <= j * k
  OBVIOUS

(* begin_op() admits the operation: it has logged nothing yet, and its     *)
(* MAXOPBLOCKS are there.                                                  *)
LEMMA AdmitBook ==
  ASSUME BookInv, NEW p \in FsProc, begin_op(p), MayBegin
  PROVE  BookInv'
<1>. USE DEF BookInv
<1>1. /\ ~recovering /\ lpc[p] \in {"user", "begin"}
      /\ outstanding' = outstanding + 1
      /\ lpc' = [lpc EXCEPT ![p] = "op"] /\ wrote' = [wrote EXCEPT ![p] = {}]
      /\ UNCHANGED <<dhead, lh, committing, recovering, phase, lbuf>>
  BY DEF begin_op
<1>2. Ops' = Ops \cup {p} /\ p \notin Ops
  BY <1>1 DEF Ops, Holding, BookTypeOK
<1>3. BookTypeOK'
  BY <1>1 DEF BookTypeOK, LogPc
<1>4. Turns'
  BY <1>1, <1>2 DEF Turns, MayBegin, BookTypeOK
<1>5. Counted'
  <2>1. IsFiniteSet(Ops') /\ outstanding' = Cardinality(Ops')
    BY <1>1, <1>2, FS_AddElement DEF Counted
  <2>. QED  BY <1>1, <2>1, NoBufAssumption DEF Counted, BookTypeOK, Holding
<1>6. Within'
  BY <1>1, FS_EmptySet DEF Within, BookTypeOK
<1>7. SleeperHasWaker'
  BY <1>1 DEF SleeperHasWaker, BookTypeOK
<1>8. Logged'
  BY <1>1, <1>2 DEF Logged, BookTypeOK, InLog
<1>9. ASSUME NEW S \in SUBSET Ops' PROVE Pairs(S)' = Pairs(S \ {p})
  BY <1>1, <1>2, <1>9 DEF Pairs, BookTypeOK, Ops
<1>10. FewEach'
  <2>. SUFFICES ASSUME NEW S \in SUBSET Ops'
                PROVE  IsFiniteSet(Pairs(S)') /\ Cardinality(Pairs(S)') <= Cardinality(S) * OPBLOCKS
    BY DEF FewEach
  <2>. DEFINE R == S \ {p}
  <2>1. R \in SUBSET Ops /\ R \in SUBSET S
    BY <1>2
  <2>2. IsFiniteSet(S)
    BY <1>5, FS_Subset DEF Counted
  <2>3. /\ IsFiniteSet(R) /\ Cardinality(R) \in Nat /\ Cardinality(S) \in Nat
        /\ Cardinality(R) <= Cardinality(S)
    BY <2>1, <2>2, FS_Subset, FS_CardinalityType
  <2>4. /\ IsFiniteSet(Pairs(R)) /\ Cardinality(Pairs(R)) \in Nat
        /\ Cardinality(Pairs(R)) <= Cardinality(R) * OPBLOCKS
    BY <2>1, FS_CardinalityType DEF FewEach
  <2>5. Pairs(S)' = Pairs(R)
    BY <1>9
  <2>6. OPBLOCKS \in Nat
    BY LogSizes
  <2>. HIDE DEF R
  <2>7. Cardinality(R) * OPBLOCKS <= Cardinality(S) * OPBLOCKS
    BY <2>3, <2>6, TimesMonotone
  <2>8. Cardinality(R) * OPBLOCKS \in Nat /\ Cardinality(S) * OPBLOCKS \in Nat
    BY <2>3, <2>6, Times
  <2>. QED  BY <2>4, <2>5, <2>7, <2>8
<1>11. Reserved'
  <2>1. Pairs(Ops)' = Pairs(Ops)
    BY <1>1, <1>2 DEF Pairs, BookTypeOK, Ops
  <2>2. Cardinality(Pairs(Ops)) \in Nat
    BY FS_CardinalityType DEF FewEach
  <2>3. Len(lh') + outstanding' * MAXOPBLOCKS <= LOGSIZE
    BY <1>1 DEF MayBegin
  <2>4. Len(lh') \in Nat /\ outstanding' \in Nat /\ MAXOPBLOCKS \in Nat /\ LOGSIZE \in Nat
    BY <1>3, LogSizes DEF BookTypeOK
  <2>5. outstanding' * MAXOPBLOCKS \in Nat
    BY <2>4, Times, Zenon
  <2>. QED  BY <2>1, <2>2, <2>3, <2>4, <2>5 DEF Reserved
<1>. QED  BY <1>3, <1>4, <1>5, <1>6, <1>7, <1>8, <1>10, <1>11

(* bread(), the change of a block and brelse(): steps inside an operation  *)
(* that log nothing.                                                       *)
LEMMA InsideBook ==
  ASSUME BookInv, NEW p \in FsProc, p \in Ops,
         \/ \E b \in HomeBlock : Bread(p, b)
         \/ \E v \in Content : Modify(p, v)
         \/ Brelse(p)
  PROVE  BookInv'
<1>. USE DEF BookInv
<1>1. UNCHANGED <<dhead, lh, outstanding, committing, recovering, phase, wrote>>
  BY DEF Bread, Modify, Brelse
<1>. DEFINE Inside(to, b) ==
              /\ lpc' = [lpc EXCEPT ![p] = to] /\ lbuf' = [lbuf EXCEPT ![p] = b]
              /\ b \in HomeBlock <=> to # "op"
              /\ to = "dirty" => Cardinality(wrote[p] \cup {b}) <= OPBLOCKS
<1>2. PICK to \in {"hold", "dirty", "op"}, b \in HomeBlock \cup {NoBuf} : Inside(to, b)
  <2>1. ASSUME NEW b \in HomeBlock, Bread(p, b) PROVE Inside("hold", b)
    BY <2>1 DEF Bread
  <2>2. ASSUME NEW v \in Content, Modify(p, v) PROVE lbuf[p] \in HomeBlock /\ Inside("dirty", lbuf[p])
    <3>1. lbuf[p] \in HomeBlock /\ lbuf' = [lbuf EXCEPT ![p] = lbuf[p]]
      BY <2>2 DEF Modify, Counted, Holding, BookTypeOK
    <3>. QED  BY <2>2, <3>1, Zenon DEF Modify
  <2>3. ASSUME Brelse(p) PROVE Inside("op", NoBuf)
    BY <2>3, NoBufAssumption DEF Brelse
  <2>. HIDE DEF Inside
  <2>. QED  BY <2>1, <2>2, <2>3
<1>3. Ops' = Ops
  BY <1>2 DEF Ops, Holding, BookTypeOK
<1>4. BookTypeOK'
  BY <1>1, <1>2 DEF BookTypeOK, LogPc, Holding
<1>5. Turns'
  BY <1>1, <1>2, <1>3 DEF Turns, BookTypeOK, Ops, Holding
<1>6. Counted'
  BY <1>1, <1>2, <1>3 DEF Counted, BookTypeOK, Holding
<1>7. Within'
  BY <1>1, <1>2, Zenon DEF Within, BookTypeOK
<1>8. SleeperHasWaker'
  BY <1>1, <1>2 DEF SleeperHasWaker, BookTypeOK
<1>. QED  BY <1>1, <1>3, <1>4, <1>5, <1>6, <1>7, <1>8, SameBooks DEF Books

(* log_write(): the log grows by a block only if the operation's pairs do. *)
LEMMA LogWriteBook ==
  ASSUME BookInv, NEW p \in FsProc, log_write(p)
  PROVE  BookInv'
<1>. USE DEF BookInv
<1>. DEFINE b == lbuf[p]
           W == wrote[p] \cup {b}
<1>1. /\ lpc[p] = "dirty" /\ outstanding >= 1
      /\ lpc' = [lpc EXCEPT ![p] = "logged"] /\ wrote' = [wrote EXCEPT ![p] = W]
      /\ UNCHANGED <<dhead, outstanding, committing, recovering, phase, lbuf>>
  BY DEF log_write
<1>2. b \in HomeBlock /\ p \in Ops
  BY <1>1 DEF Counted, Ops, Holding
<1>3. Ops' = Ops
  BY <1>1 DEF Ops, Holding, BookTypeOK
<1>4. /\ lh' \in Seq(HomeBlock)
      /\ \/ lh' = lh /\ InLog(b)
         \/ lh' = Append(lh, b)
  <2>1. Absorb(b)
    BY DEF log_write
  <2>2. (lh' = lh /\ InLog(b)) \/ lh' = Append(lh, b)
    BY <2>1, Zenon DEF Absorb
  <2>3. lh \in Seq(HomeBlock)
    BY DEF BookTypeOK
  <2>. HIDE DEF b
  <2>4. Append(lh, b) \in Seq(HomeBlock)
    BY <1>2, <2>3
  <2>. QED  BY <2>2, <2>3, <2>4
<1>5. BookTypeOK'
  BY <1>1, <1>2, <1>4 DEF BookTypeOK, LogPc, Holding
<1>6. Turns'
  <2>1. ~recovering /\ ~committing
    BY <1>1, <1>2 DEF Turns
  <2>2. phase = "idle"
    BY <2>1 DEF Turns
  <2>. QED  BY <1>1, <1>3, <2>1, <2>2 DEF Turns
<1>7. Counted'
  BY <1>1, <1>3 DEF Counted, BookTypeOK, Holding
<1>8. /\ IsFiniteSet(W) /\ Cardinality(W) \in Nat /\ Cardinality(W) <= OPBLOCKS
      /\ W \in SUBSET HomeBlock
  <2>1. IsFiniteSet(W)
    BY FS_AddElement, Zenon DEF Within
  <2>. QED  BY <1>1, <1>2, <2>1, FS_CardinalityType DEF Within, BookTypeOK
<1>9. Within'
  BY <1>1, <1>8 DEF Within, BookTypeOK
<1>10. SleeperHasWaker'
  BY <1>1 DEF SleeperHasWaker, BookTypeOK
<1>11. \A c : InLog(c) => InLog(c)'
  BY <1>4 DEF InLog, BookTypeOK
<1>12. InLog(b)'
  <2>1. CASE lh' = Append(lh, b)
    BY <1>1, <2>1 DEF InLog, BookTypeOK
  <2>. QED  BY <1>1, <1>4, <1>11, <2>1
<1>13. Logged'
  BY <1>1, <1>3, <1>11, <1>12 DEF Logged, BookTypeOK, Ops
<1>14. FewEach'
  <2>. SUFFICES ASSUME NEW S \in SUBSET Ops
                PROVE  IsFiniteSet(Pairs(S)') /\ Cardinality(Pairs(S)') <= Cardinality(S) * OPBLOCKS
    BY <1>3 DEF FewEach
  <2>1. CASE p \notin S
    <3>1. Pairs(S)' = Pairs(S)
      BY <1>1, <2>1 DEF Pairs, BookTypeOK, Ops
    <3>. QED  BY <3>1 DEF FewEach
  <2>2. CASE p \in S
    <3>. DEFINE R == S \ {p}
                T == {x \in {p} \X HomeBlock : x[2] \in W}
    <3>1. Pairs(S)' = Pairs(R) \cup T
      BY <1>1, <1>2, <2>2 DEF Pairs, BookTypeOK, Ops
    <3>2. IsFiniteSet(T) /\ Cardinality(T) <= Cardinality(W)
      BY <1>8, PairsOfOne, Zenon
    <3>3. R \in SUBSET Ops /\ IsFiniteSet(S)
      BY FS_Subset DEF Counted
    <3>4. IsFiniteSet(R) /\ Cardinality(S) = Cardinality(R) + 1 /\ Cardinality(R) \in Nat
      <4>1. IsFiniteSet(R) /\ Cardinality(R) = Cardinality(S) - 1
        BY <2>2, <3>3, FS_RemoveElement
      <4>2. Cardinality(S) \in Nat /\ Cardinality(R) \in Nat
        BY <3>3, <4>1, FS_CardinalityType
      <4>. HIDE DEF R
      <4>. QED  BY <4>1, <4>2
    <3>5. IsFiniteSet(Pairs(R)) /\ Cardinality(Pairs(R)) <= Cardinality(R) * OPBLOCKS
      BY <3>3 DEF FewEach
    <3>. HIDE DEF R, T, W, b
    <3>6. /\ IsFiniteSet(Pairs(R) \cup T)
          /\ Cardinality(Pairs(R) \cup T) <= Cardinality(Pairs(R)) + Cardinality(T)
          /\ Cardinality(Pairs(R) \cup T) \in Nat
      <4>1. IsFiniteSet(Pairs(R) \cap T)
        BY <3>2, FS_Subset
      <4>2. /\ IsFiniteSet(Pairs(R) \cup T)
            /\ Cardinality(Pairs(R) \cup T)
                 = Cardinality(Pairs(R)) + Cardinality(T) - Cardinality(Pairs(R) \cap T)
        BY <3>2, <3>5, FS_Union
      <4>3. /\ Cardinality(Pairs(R)) \in Nat /\ Cardinality(T) \in Nat
            /\ Cardinality(Pairs(R) \cap T) \in Nat /\ Cardinality(Pairs(R) \cup T) \in Nat
        BY <3>2, <3>5, <4>1, <4>2, FS_CardinalityType
      <4>. QED  BY <4>2, <4>3
    <3>7. OPBLOCKS \in Nat
      BY LogSizes
    <3>8. /\ Cardinality(S) * OPBLOCKS = Cardinality(R) * OPBLOCKS + OPBLOCKS
          /\ Cardinality(R) * OPBLOCKS \in Nat
      BY <3>4, <3>7, Times
    <3>9. Cardinality(Pairs(R)) \in Nat /\ Cardinality(T) \in Nat
      BY <3>2, <3>5, FS_CardinalityType
    <3>. QED  BY <1>8, <3>1, <3>2, <3>5, <3>6, <3>7, <3>8, <3>9
  <2>. QED  BY <2>1, <2>2
<1>15. Reserved'
  <2>1. IsFiniteSet(Pairs(Ops)) /\ Cardinality(Pairs(Ops)) \in Nat
    BY FS_CardinalityType DEF FewEach
  <2>2. Len(lh) + outstanding * MAXOPBLOCKS <= LOGSIZE + Cardinality(Pairs(Ops))
    BY <1>2 DEF Reserved
  <2>3. Len(lh) \in Nat /\ LOGSIZE \in Nat /\ outstanding * MAXOPBLOCKS \in Nat
    BY LogSizes, Times DEF BookTypeOK
  <2>4. CASE b \in wrote[p]
    <3>1. wrote' = wrote /\ InLog(b)
      BY <1>1, <1>2, <2>4 DEF BookTypeOK, Logged
    <3>2. lh' = lh
      BY <3>1 DEF log_write, Absorb
    <3>3. Pairs(Ops)' = Pairs(Ops)
      BY <1>3, <3>1 DEF Pairs
    <3>. QED  BY <1>1, <2>2, <3>2, <3>3 DEF Reserved
  <2>5. CASE b \notin wrote[p]
    <3>1. Pairs(Ops)' = Pairs(Ops) \cup {<<p, b>>} /\ <<p, b>> \notin Pairs(Ops)
      BY <1>1, <1>2, <1>3, <2>5 DEF Pairs, BookTypeOK, Ops
    <3>2. Cardinality(Pairs(Ops)') = Cardinality(Pairs(Ops)) + 1
      BY <2>1, <3>1, FS_AddElement, Zenon
    <3>3. Len(lh') \in Nat /\ Len(lh') <= Len(lh) + 1
      BY <1>4 DEF BookTypeOK
    <3>. QED  BY <1>1, <2>1, <2>2, <2>3, <3>2, <3>3 DEF Reserved
  <2>. QED  BY <2>4, <2>5
<1>. QED  BY <1>5, <1>6, <1>7, <1>9, <1>10, <1>13, <1>14, <1>15

(* wakeup(&log) leaves no sleeper and changes nothing else.                *)
LEMMA WokenPcs ==
  ASSUME NEW f \in [FsProc -> LogPc]
  PROVE  /\ Woken(f) \in [FsProc -> LogPc]
         /\ \A q \in FsProc : /\ Woken(f)[q] # "asleep"
                              /\ f[q] # "asleep" => Woken(f)[q] = f[q]
                              /\ f[q] = "asleep" => Woken(f)[q] = "begin"
  BY DEF Woken, LogPc, Holding

(* end_op(): what the operation did not use of its reservation is free,    *)
(* and what it did use was less than the reservation.                      *)
LEMMA EndBook ==
  ASSUME BookInv, NEW p \in FsProc, end_op(p)
  PROVE  BookInv'
<1>. USE DEF BookInv
<1>1. /\ lpc[p] = "op" /\ ~committing /\ outstanding' = outstanding - 1
      /\ UNCHANGED <<dhead, lh, recovering, lbuf, wrote>>
  BY DEF end_op
<1>2. p \in Ops /\ ~recovering /\ phase = "idle"
  <2>1. p \in Ops /\ ~recovering
    BY <1>1 DEF Ops, Turns
  <2>. QED  BY <1>1, <2>1 DEF Turns
<1>3. /\ lpc' \in [FsProc -> LogPc] /\ lpc'[p] \in {"commit", "user"}
      /\ \A q \in FsProc \ {p} : lpc'[q] = lpc[q] \/ (lpc[q] = "asleep" /\ lpc'[q] = "begin")
  <2>1. ASSUME outstanding = 1 PROVE <1>3
    BY <1>1, <2>1 DEF end_op, BookTypeOK, LogPc
  <2>2. ASSUME outstanding > 1 PROVE <1>3
    <3>1. lpc' = Woken([lpc EXCEPT ![p] = "user"]) /\ [lpc EXCEPT ![p] = "user"] \in [FsProc -> LogPc]
      BY <2>2 DEF end_op, BookTypeOK, LogPc
    <3>. QED  BY <3>1, WokenPcs, Zenon DEF BookTypeOK
  <2>. QED  BY <2>1, <2>2 DEF end_op
<1>4. Ops' = Ops \ {p}
  BY <1>3 DEF Ops, Holding
<1>5. /\ IsFiniteSet(Ops') /\ outstanding' = Cardinality(Ops')
      /\ outstanding \in Nat /\ outstanding' \in Nat /\ outstanding = outstanding' + 1
  <2>1. IsFiniteSet(Ops') /\ Cardinality(Ops') = Cardinality(Ops) - 1
    BY <1>2, <1>4, FS_RemoveElement DEF Counted
  <2>2. Cardinality(Ops') \in Nat /\ Cardinality(Ops) \in Nat
    BY <2>1, FS_CardinalityType DEF Counted
  <2>. QED  BY <1>1, <2>1, <2>2 DEF Counted
<1>6. \/ /\ outstanding' = 0 /\ committing' = TRUE
         /\ phase' \in {"write_log", "done"} /\ (phase' = "done" => Len(lh) = 0)
      \/ /\ outstanding' # 0 /\ UNCHANGED <<committing, phase>>
         /\ \A q \in FsProc : lpc'[q] # "asleep"
  <2>1. CASE outstanding = 1
    <3>1. ~(outstanding > 1) /\ outstanding' = 0
      BY <1>5, <2>1
    <3>2. committing' = TRUE /\ phase' = IF Len(lh) > 0 THEN "write_log" ELSE "done"
      BY <3>1, Zenon DEF end_op
    <3>3. Len(lh) \in Nat
      BY DEF BookTypeOK
    <3>. QED  BY <3>1, <3>2, <3>3
  <2>2. CASE outstanding > 1
    <3>1. lpc' = Woken([lpc EXCEPT ![p] = "user"]) /\ [lpc EXCEPT ![p] = "user"] \in [FsProc -> LogPc]
      BY <2>2 DEF end_op, BookTypeOK, LogPc
    <3>2. outstanding # 1 /\ outstanding' # 0
      BY <1>5, <2>2
    <3>3. UNCHANGED <<committing, phase>>
      BY <3>2, Zenon DEF end_op
    <3>. QED  BY <3>1, <3>2, <3>3, WokenPcs, Zenon
  <2>. QED  BY <2>1, <2>2, Zenon DEF end_op
<1>7. BookTypeOK'
  BY <1>1, <1>3, <1>5, <1>6, Zenon DEF BookTypeOK, Phase
<1>8. Turns'
  <2>1. outstanding' = 0 => Ops' = {}
    BY <1>5, FS_EmptySet, Zenon
  <2>2. Len(lh) = 0 => lh = <<>>
    BY DEF BookTypeOK
  <2>. QED  BY <1>1, <1>2, <1>6, <2>1, <2>2 DEF Turns
<1>9. Counted'
  BY <1>1, <1>3, <1>5 DEF Counted, Holding
<1>10. Within'
  BY <1>1, <1>3 DEF Within
<1>11. SleeperHasWaker'
  BY <1>6 DEF SleeperHasWaker
<1>12. Logged'
  BY <1>1, <1>4 DEF Logged, InLog
<1>13. \A S : Pairs(S)' = Pairs(S)
  BY <1>1 DEF Pairs
<1>14. FewEach'
  BY <1>4, <1>13 DEF FewEach
<1>15. Reserved'
  <2>. DEFINE R == Ops \ {p}
  <2>1. Pairs(Ops) = Pairs(R) \cup Pairs({p}) /\ Pairs(Ops)' = Pairs(R)
    BY <1>1, <1>2, <1>4 DEF Pairs
  <2>2. IsFiniteSet(Pairs(R)) /\ IsFiniteSet(Pairs({p})) /\ IsFiniteSet(Pairs(Ops))
    BY <1>2 DEF FewEach
  <2>3. Cardinality(Pairs({p})) <= OPBLOCKS
    <3>1. Cardinality({p}) = 1
      BY FS_Singleton, Zenon
    <3>2. Cardinality(Pairs({p})) <= Cardinality({p}) * OPBLOCKS
      BY <1>2 DEF FewEach
    <3>3. 1 * OPBLOCKS = OPBLOCKS
      BY LogSizes
    <3>. QED  BY <3>1, <3>2, <3>3, Zenon
  <2>. HIDE DEF R
  <2>4. IsFiniteSet(Pairs(R) \cap Pairs({p}))
    BY <2>2, FS_Subset
  <2>5. Cardinality(Pairs(Ops)) = Cardinality(Pairs(R)) + Cardinality(Pairs({p}))
                                   - Cardinality(Pairs(R) \cap Pairs({p}))
    BY <2>1, <2>2, FS_Union
  <2>6. /\ Cardinality(Pairs(R)) \in Nat /\ Cardinality(Pairs({p})) \in Nat
        /\ Cardinality(Pairs(R) \cap Pairs({p})) \in Nat
    BY <2>2, <2>4, FS_CardinalityType
  <2>7. Len(lh) + outstanding * MAXOPBLOCKS <= LOGSIZE + Cardinality(Pairs(Ops))
    BY <1>2 DEF Reserved
  <2>8. /\ outstanding * MAXOPBLOCKS = outstanding' * MAXOPBLOCKS + MAXOPBLOCKS
        /\ outstanding' * MAXOPBLOCKS \in Nat
    BY <1>5, LogSizes, Times, Zenon
  <2>9. /\ Len(lh) \in Nat /\ LOGSIZE \in Nat /\ MAXOPBLOCKS \in Nat /\ OPBLOCKS \in Nat
        /\ OPBLOCKS < MAXOPBLOCKS
    BY LogSizes DEF BookTypeOK
  <2>10. Len(lh) + outstanding' * MAXOPBLOCKS <= LOGSIZE + Cardinality(Pairs(R))
    BY <2>3, <2>5, <2>6, <2>7, <2>8, <2>9
  <2>. QED  BY <1>1, <2>1, <2>10 DEF Reserved
<1>. QED  BY <1>7, <1>8, <1>9, <1>10, <1>11, <1>12, <1>14, <1>15

(* The end of end_op() after commit().                                     *)
LEMMA CommittedBook ==
  ASSUME BookInv, NEW p \in FsProc, Committed(p)
  PROVE  BookInv'
<1>. USE DEF BookInv
<1>1. /\ lpc[p] = "commit" /\ phase = "done" /\ committing' = FALSE /\ phase' = "idle"
      /\ UNCHANGED <<dhead, lh, outstanding, recovering, lbuf, wrote>>
  BY DEF Committed
<1>2. /\ lpc' \in [FsProc -> LogPc] /\ lpc'[p] = "user"
      /\ \A q \in FsProc \ {p} : lpc'[q] = lpc[q] \/ (lpc[q] = "asleep" /\ lpc'[q] = "begin")
      /\ \A q \in FsProc : lpc'[q] # "asleep"
  <2>1. lpc' = Woken([lpc EXCEPT ![p] = "user"]) /\ [lpc EXCEPT ![p] = "user"] \in [FsProc -> LogPc]
    BY DEF Committed, BookTypeOK, LogPc
  <2>. QED  BY <2>1, WokenPcs, Zenon DEF BookTypeOK
<1>3. Ops' = Ops
  BY <1>1, <1>2 DEF Ops, Holding
<1>4. ~recovering /\ lh = <<>>
  BY <1>1 DEF Turns
<1>5. BookTypeOK'
  BY <1>1, <1>2, Zenon DEF BookTypeOK, Phase
<1>6. Turns'
  BY <1>1, <1>3, <1>4 DEF Turns
<1>7. Counted'
  BY <1>1, <1>2, <1>3 DEF Counted, Holding
<1>8. Within' /\ SleeperHasWaker'
  BY <1>1, <1>2 DEF Within, SleeperHasWaker
<1>. QED  BY <1>1, <1>3, <1>5, <1>6, <1>7, <1>8, SameBooks DEF Books

(* Eviction and the steps of commit() and recover_from_log(): operations   *)
(* are not touched, and there are none where the log changes.              *)
LEMMA QuietBook ==
  ASSUME BookInv,
         \/ \E b \in HomeBlock : Evict(b)
         \/ write_log \/ write_head \/ install_trans \/ ClearHead \/ read_head
  PROVE  BookInv'
<1>. USE DEF BookInv
<1>1. UNCHANGED <<outstanding, committing, lpc, lbuf, wrote>>
  BY DEF Evict, write_log, write_head, install_trans, ClearHead, read_head
<1>2. Ops' = Ops
  BY <1>1 DEF Ops
<1>3. Counted' /\ Within' /\ SleeperHasWaker'
  BY <1>1, <1>2 DEF Counted, Within, SleeperHasWaker
<1>4. ASSUME NEW b \in HomeBlock, Evict(b) PROVE BookInv'
  <2>1. UNCHANGED <<dhead, lh, recovering, phase>>
    BY <1>4 DEF Evict
  <2>2. BookTypeOK' /\ Turns'
    BY <1>1, <1>2, <2>1 DEF BookTypeOK, Turns
  <2>. QED  BY <1>1, <1>2, <1>3, <2>1, <2>2, SameBooks DEF Books
<1>5. CASE write_log
  <2>1. phase = "write_log" /\ phase' \in {"write_log", "write_head"} /\ UNCHANGED <<dhead, lh, recovering>>
    BY <1>5 DEF write_log, Advance
  <2>2. BookTypeOK' /\ Turns'
    BY <1>1, <1>2, <2>1 DEF BookTypeOK, Turns, Phase
  <2>. QED  BY <1>1, <1>2, <1>3, <2>1, <2>2, SameBooks DEF Books
<1>6. CASE write_head
  <2>1. phase = "write_head" /\ phase' = "install" /\ dhead' = lh /\ UNCHANGED <<lh, recovering>>
    BY <1>6 DEF write_head
  <2>2. BookTypeOK' /\ Turns'
    BY <1>1, <1>2, <2>1 DEF BookTypeOK, Turns, Phase
  <2>. QED  BY <1>1, <1>2, <1>3, <2>1, <2>2, SameBooks DEF Books
<1>7. CASE install_trans
  <2>1. phase = "install" /\ phase' \in {"install", "clear"} /\ UNCHANGED <<dhead, lh, recovering>>
    BY <1>7 DEF install_trans, Advance
  <2>2. BookTypeOK' /\ Turns'
    BY <1>1, <1>2, <2>1 DEF BookTypeOK, Turns, Phase
  <2>. QED  BY <1>1, <1>2, <1>3, <2>1, <2>2, SameBooks DEF Books
<1>8. CASE ClearHead
  <2>1. /\ phase = "clear" /\ lh' = <<>> /\ dhead' = <<>> /\ recovering' = FALSE
        /\ phase' = IF recovering THEN "idle" ELSE "done"
    BY <1>8 DEF ClearHead
  <2>2. Ops = {}
    BY <2>1 DEF Turns, Ops, Holding
  <2>3. lh' \in Seq(HomeBlock) /\ dhead' \in Seq(HomeBlock) /\ recovering' \in BOOLEAN
    <3>1. lh' = <<>> /\ dhead' = <<>>
      BY <2>1
    <3>2. recovering' = FALSE
      BY <2>1
    <3>3. lh' \in Seq(HomeBlock) /\ dhead' \in Seq(HomeBlock)
      BY <3>1
    <3>. QED  BY <3>2, <3>3, Zenon
  <2>4. BookTypeOK'
    BY <1>1, <2>1, <2>3 DEF BookTypeOK, Phase
  <2>5. Turns'
    BY <1>1, <1>2, <2>1, <2>2 DEF Turns
  <2>. QED  BY <1>2, <1>3, <2>2, <2>4, <2>5, NoBooks DEF Books
<1>9. CASE read_head
  <2>1. phase = "read_head" /\ lh' = dhead /\ phase' \in {"install", "clear"} /\ UNCHANGED <<dhead, recovering>>
    BY <1>9 DEF read_head
  <2>2. recovering /\ Ops = {}
    BY <2>1 DEF Turns, Ops, Holding
  <2>3. BookTypeOK' /\ Turns'
    BY <1>1, <1>2, <2>1, <2>2 DEF BookTypeOK, Turns, Phase
  <2>. QED  BY <1>2, <1>3, <2>2, <2>3, NoBooks DEF Books
<1>. QED  BY <1>4, <1>5, <1>6, <1>7, <1>8, <1>9

(* Every step keeps the books.                                             *)
LEMMA BookStep == BookInv /\ [LogNext]_logVars => BookInv'
<1>. SUFFICES ASSUME BookInv, [LogNext]_logVars PROVE BookInv'
  OBVIOUS
<1>1. CASE UNCHANGED logVars
  BY <1>1, ZenonT(30) DEF logVars, BookInv, BookTypeOK, Turns, Counted, Logged, Within, FewEach, Reserved,
              SleeperHasWaker, Ops, Pairs, InLog
<1>2. ASSUME NEW p \in FsProc, LogStep(p) PROVE BookInv'
  <2>1. CASE begin_op(p)
    BY <2>1, SleepBook, AdmitBook
  <2>2. ASSUME \/ \E b \in HomeBlock : Bread(p, b)
               \/ \E v \in Content : Modify(p, v)
               \/ Brelse(p)
        PROVE  BookInv'
    <3>1. p \in Ops
      BY <2>2 DEF Ops, Holding, Bread, Modify, Brelse
    <3>. QED  BY <2>2, <3>1, InsideBook
  <2>3. CASE log_write(p)
    BY <2>3, LogWriteBook
  <2>4. CASE end_op(p)
    BY <2>4, EndBook
  <2>5. CASE Committed(p)
    BY <2>5, CommittedBook
  <2>. QED  BY <1>2, <2>1, <2>2, <2>3, <2>4, <2>5 DEF LogStep
<1>. QED  BY <1>1, <1>2, QuietBook, CrashBook DEF LogNext

LEMMA BookAlways == LogSpec => []BookInv
  BY BookInit, BookStep, PTL DEF LogSpec

(***************************************************************************)
(* log_write() and end_op() never panic in an operation that begin_op()    *)
(* has admitted: begin_op()'s estimate covers all the operations that      *)
(* share the log, for any number of processes and any log size, provided   *)
(* that an operation writes fewer blocks than it reserves.                 *)
(***************************************************************************)
THEOREM LogNeverFull == LogSpec => []LogSpace
<1>1. BookInv => LogSpace
  <2>. SUFFICES ASSUME BookInv, NEW p \in FsProc, lpc[p] \in Holding \cup {"op"}
                PROVE  outstanding >= 1 /\ ~committing /\ ~LogFull
    BY DEF LogSpace, Holding
  <2>. USE DEF BookInv
  <2>1. p \in Ops
    BY DEF Ops
  <2>2. outstanding >= 1 /\ ~committing /\ outstanding \in Nat
    BY <2>1, FS_EmptySet DEF Counted, Turns, BookTypeOK
  <2>3. Cardinality(Pairs(Ops)) <= outstanding * OPBLOCKS /\ Cardinality(Pairs(Ops)) \in Nat
    BY FS_CardinalityType DEF FewEach, Counted
  <2>4. Len(lh) + outstanding * MAXOPBLOCKS <= LOGSIZE + Cardinality(Pairs(Ops))
    BY <2>1 DEF Reserved
  <2>5. outstanding * MAXOPBLOCKS >= outstanding * OPBLOCKS + (MAXOPBLOCKS - OPBLOCKS)
    BY <2>2, LogSizes, Spare
  <2>6. outstanding * MAXOPBLOCKS \in Nat /\ outstanding * OPBLOCKS \in Nat
    BY <2>2, LogSizes, Times
  <2>7. Len(lh) \in Nat
    BY DEF BookTypeOK
  <2>8. Len(lh) <= LOGSIZE - MAXOPBLOCKS + OPBLOCKS
    BY <2>3, <2>4, <2>5, <2>6, <2>7, LogSizes
  <2>9. ~LogFull
    BY <2>7, <2>8, LogSizes DEF LogFull
  <2>. QED  BY <2>2, <2>9
<1>. QED  BY <1>1, BookAlways, PTL

(* Whoever sleeps in begin_op() has an operation or a commit under way     *)
(* whose end_op() wakes it, whatever ends, commits and crashes come first. *)
THEOREM SleepersWoken == LogSpec => []SleeperHasWaker
<1>1. BookInv => SleeperHasWaker
  BY DEF BookInv
<1>. QED  BY <1>1, BookAlways, PTL

-----------------------------------------------------------------------------
(* Log implements AtomicDisk, for any number of processes, blocks and      *)
(* contents: LogAtomic.  The invariant says where each block's last value  *)
(* is (cache, log or home), at every step of commit() and of a recovery    *)
(* that a crash may have interrupted, and which references keep it there.  *)

(* The types of blocks and buffers; BookTypeOK has the others.             *)
DiskTypeOK ==
  /\ disk \in [HomeBlock -> Content] /\ logarea \in [LogSlot -> Content]
  /\ cache \in [HomeBlock -> Content \cup {NoBuf}]
  /\ bref \in [HomeBlock -> Nat]
  /\ tail \in Nat

Distinct(s) == \A i, j \in 1 .. Len(s) : s[i] = s[j] => i = j

(* The two headers, and how far a loop over tail is.                       *)
Headers ==
  /\ Distinct(lh) /\ Len(lh) <= LOGSIZE
  /\ Distinct(dhead) /\ Len(dhead) <= LOGSIZE
  /\ phase \in {"install", "clear"} => dhead = lh
  /\ phase \in {"idle", "write_log", "write_head", "done"} => dhead = <<>>
  /\ phase \in {"write_log", "install"} => tail \in 1 .. Len(lh)
  /\ phase \in {"write_head", "read_head"} => tail = 1
  /\ phase = "write_head" => Len(lh) > 0

(* The log blocks write_log() has filled, and the home blocks              *)
(* install_trans() has.                                                    *)
Copied ==
  /\ phase = "write_log" => \A i \in 1 .. Len(lh) : i < tail => logarea[i] = Now(lh[i])
  /\ phase = "write_head" \/ (phase \in {"install", "clear"} /\ ~recovering)
       => \A i \in 1 .. Len(lh) : logarea[i] = Now(lh[i])

Installed ==
  /\ phase = "install" => \A i \in 1 .. Len(lh) : i < tail => disk[lh[i]] = logarea[i]
  /\ phase = "clear" => \A i \in 1 .. Len(lh) : disk[lh[i]] = logarea[i]

OneHolder == \A p, q \in FsProc : lbuf[p] = lbuf[q] /\ lbuf[p] # NoBuf => p = q

(* Blocks with a bpin() that install_trans() has still to undo.            *)
Pinned(b) ==
  /\ ~recovering /\ phase # "clear"
  /\ \E i \in 1 .. Len(lh) : lh[i] = b /\ (phase = "install" => i >= tail)

Dirty(b) == \E q \in FsProc : lbuf[q] = b /\ lpc[q] = "dirty"

References ==
  \A b \in HomeBlock :
    bref[b] = (IF Locked(b) THEN 1 ELSE 0) + (IF Pinned(b) THEN 1 ELSE 0)

(* A buffer that nothing keeps in the cache holds what the disk holds.     *)
Clean ==
  \A b \in HomeBlock : cache[b] # NoBuf /\ ~Pinned(b) /\ ~Dirty(b) => cache[b] = disk[b]

DiskInv == DiskTypeOK /\ Headers /\ Copied /\ Installed /\ OneHolder /\ References /\ Clean

-----------------------------------------------------------------------------
(* While an operation is under way nothing commits or recovers.            *)
LEMMA OpsAlone ==
  ASSUME BookInv, NEW p \in Ops
  PROVE  ~recovering /\ ~committing /\ phase = "idle"
<1>1. ~recovering /\ ~committing
  BY DEF BookInv, Turns, Ops, Holding
<1>. QED  BY <1>1 DEF BookInv, Turns

(* During a commit or a recovery no buffer is locked.                      *)
LEMMA NoHolder ==
  ASSUME BookInv, phase # "idle", NEW b \in HomeBlock
  PROVE  ~Locked(b) /\ ~Dirty(b)
<1>1. Ops = {}
  BY DEF BookInv, Turns, Ops, Holding
<1>2. \A q \in FsProc : lbuf[q] \notin HomeBlock
  BY <1>1 DEF BookInv, Counted, Ops
<1>. QED  BY <1>2 DEF Locked, Dirty

LEMMA NowType ==
  ASSUME DiskTypeOK, NEW b \in HomeBlock
  PROVE  Now(b) \in Content
  BY DEF DiskTypeOK, Now

(* Outside commit() and recovery nothing is said of the log's blocks.       *)
LEMMA QuietPhase ==
  ASSUME phase' \in {"idle", "done"}
  PROVE  Copied' /\ Installed'
  BY DEF Copied, Installed

LEMMA DiskInit == LogInit => DiskInv
<1>. SUFFICES ASSUME LogInit PROVE DiskInv
  OBVIOUS
<1>1. lh = <<>> /\ dhead = <<>> /\ phase = "read_head" /\ tail = 1 /\ recovering
  BY DEF LogInit
<1>2. Len(lh) = 0 /\ Len(dhead) = 0
  BY <1>1
<1>3. DiskTypeOK
  BY DEF LogInit, DiskTypeOK
<1>4. Headers /\ Copied /\ Installed
  BY <1>1, <1>2, LogSizes DEF Headers, Copied, Installed, Distinct
<1>5. OneHolder
  BY DEF LogInit, OneHolder
<1>6. References
  BY <1>1, NoBufAssumption DEF LogInit, References, Locked, Pinned
<1>7. Clean
  BY DEF LogInit, Clean
<1>. QED  BY <1>3, <1>4, <1>5, <1>6, <1>7 DEF DiskInv

LEMMA CrashDisk == ASSUME BookInv, DiskInv, Crash PROVE DiskInv'
<1>1. /\ lh' = <<>> /\ dhead' = dhead /\ phase' = "read_head" /\ tail' = 1 /\ recovering'
      /\ disk' = disk /\ logarea' = logarea
  BY DEF Crash, Boot
<1>2. Len(lh') = 0
  BY <1>1
<1>3. DiskTypeOK'
  BY <1>1 DEF Crash, Boot, DiskInv, DiskTypeOK
<1>4. Headers' /\ Copied' /\ Installed'
  BY <1>1, <1>2, LogSizes DEF DiskInv, Headers, Copied, Installed, Distinct
<1>5. OneHolder'
  BY DEF Crash, Boot, OneHolder
<1>6. References'
  BY <1>1, NoBufAssumption DEF Crash, Boot, References, Locked, Pinned
<1>7. Clean'
  BY DEF Crash, Boot, Clean
<1>. QED  BY <1>3, <1>4, <1>5, <1>6, <1>7 DEF DiskInv

LEMMA BeginDisk ==
  ASSUME BookInv, DiskInv, NEW p \in FsProc, begin_op(p)
  PROVE  DiskInv'
<1>1. UNCHANGED <<disk, logarea, dhead, cache, bref, lh, recovering, phase, tail, lbuf>>
  BY DEF begin_op
<1>2. \A q \in FsProc : lpc[q] = "dirty" <=> lpc'[q] = "dirty"
  BY DEF begin_op, BookInv, BookTypeOK
<1>3. DiskTypeOK' /\ Headers' /\ Copied' /\ Installed' /\ OneHolder'
  BY <1>1 DEF DiskInv, DiskTypeOK, Headers, Copied, Installed, OneHolder, Now, Distinct
<1>4. \A b : (Locked(b)' <=> Locked(b)) /\ (Pinned(b)' <=> Pinned(b)) /\ (Dirty(b)' <=> Dirty(b))
  BY <1>1, <1>2 DEF Locked, Pinned, Dirty
<1>5. References' /\ Clean'
  BY <1>1, <1>4 DEF DiskInv, References, Clean
<1>. QED  BY <1>3, <1>5 DEF DiskInv

LEMMA EndDisk ==
  ASSUME BookInv, DiskInv, NEW p \in FsProc, end_op(p)
  PROVE  DiskInv'
<1>1. UNCHANGED <<disk, logarea, dhead, cache, bref, lh, recovering, lbuf>>
  BY DEF end_op
<1>2. p \in Ops /\ lpc[p] = "op"
  BY DEF end_op, Ops
<1>3. ~recovering /\ phase = "idle"
  BY <1>2, OpsAlone
<1>4. \/ phase' = "write_log" /\ tail' = 1 /\ Len(lh) > 0
      \/ phase' = "done" /\ tail' = 1
      \/ phase' = phase /\ tail' = tail
  BY DEF end_op
<1>5. \A q \in FsProc : lpc[q] = "dirty" <=> lpc'[q] = "dirty"
  BY <1>2 DEF end_op, BookInv, BookTypeOK, Woken
<1>6. DiskTypeOK' /\ OneHolder'
  BY <1>1, <1>4 DEF DiskInv, DiskTypeOK, OneHolder
<1>7. Headers'
  BY <1>1, <1>3, <1>4 DEF DiskInv, Headers, Distinct, BookInv, BookTypeOK
<1>8. Copied' /\ Installed'
  <2>1. CASE phase' = "write_log" /\ tail' = 1
    BY <2>1 DEF Copied, Installed
  <2>. QED  BY <1>3, <1>4, <2>1, QuietPhase
<1>9. \A b : (Locked(b)' <=> Locked(b)) /\ (Pinned(b)' <=> Pinned(b)) /\ (Dirty(b)' <=> Dirty(b))
  BY <1>1, <1>3, <1>4, <1>5 DEF Locked, Pinned, Dirty
<1>10. References' /\ Clean'
  BY <1>1, <1>9 DEF DiskInv, References, Clean
<1>. QED  BY <1>6, <1>7, <1>8, <1>10 DEF DiskInv

LEMMA CommittedDisk ==
  ASSUME BookInv, DiskInv, NEW p \in FsProc, Committed(p)
  PROVE  DiskInv'
<1>1. /\ UNCHANGED <<disk, logarea, dhead, cache, bref, lh, recovering, tail, lbuf>>
      /\ phase = "done" /\ phase' = "idle" /\ lpc[p] = "commit"
  BY DEF Committed
<1>2. \A q \in FsProc : lpc[q] = "dirty" <=> lpc'[q] = "dirty"
  BY <1>1 DEF Committed, BookInv, BookTypeOK, Woken
<1>3. DiskTypeOK' /\ OneHolder' /\ Headers' /\ Copied' /\ Installed'
  <2>1. DiskTypeOK' /\ OneHolder'
    BY <1>1 DEF DiskInv, DiskTypeOK, OneHolder
  <2>2. Headers'
    BY <1>1 DEF DiskInv, Headers, Distinct
  <2>. QED  BY <1>1, <2>1, <2>2, QuietPhase
<1>4. \A b : (Locked(b)' <=> Locked(b)) /\ (Pinned(b)' <=> Pinned(b)) /\ (Dirty(b)' <=> Dirty(b))
  BY <1>1, <1>2, Zenon DEF Locked, Pinned, Dirty
<1>5. References' /\ Clean'
  BY <1>1, <1>4 DEF DiskInv, References, Clean
<1>. QED  BY <1>3, <1>5 DEF DiskInv

(* bget() may take a buffer without references: it holds what the disk     *)
(* holds.                                                                  *)
LEMMA EvictedClean ==
  ASSUME DiskInv, NEW b \in HomeBlock, bref[b] = 0
  PROVE  ~Locked(b) /\ ~Pinned(b) /\ Now(b) = disk[b]
<1>1. ~Locked(b) /\ ~Pinned(b)
  BY DEF DiskInv, References
<1>2. ~Dirty(b)
  BY <1>1 DEF Locked, Dirty
<1>. QED  BY <1>1, <1>2 DEF DiskInv, Clean, Now

LEMMA EvictDisk ==
  ASSUME BookInv, DiskInv, NEW b \in HomeBlock, Evict(b)
  PROVE  DiskInv' /\ \A c \in HomeBlock : Now(c)' = Now(c)
<1>1. /\ UNCHANGED <<disk, logarea, dhead, bref, lh, recovering, phase, tail, lpc, lbuf>>
      /\ bref[b] = 0 /\ cache' = [cache EXCEPT ![b] = NoBuf]
  BY DEF Evict
<1>2. \A c \in HomeBlock : Now(c)' = Now(c)
  <2>1. Now(b)' = disk[b]
    BY <1>1 DEF Now, DiskInv, DiskTypeOK
  <2>. QED  BY <1>1, <2>1, EvictedClean DEF Now, DiskInv, DiskTypeOK
<1>3. DiskTypeOK' /\ OneHolder' /\ Headers' /\ Installed'
  BY <1>1 DEF DiskInv, DiskTypeOK, OneHolder, Headers, Distinct, Installed
<1>4. Copied'
  <2>1. \A i \in 1 .. Len(lh) : Now(lh[i])' = Now(lh[i])
    <3>1. \A i \in 1 .. Len(lh) : lh[i] \in HomeBlock
      BY DEF BookInv, BookTypeOK
    <3>2. \A c \in HomeBlock : Now(c)' = Now(c)
      BY <1>2
    <3>. QED  BY <1>1, <3>1, <3>2 DEF Now
  <2>2. UNCHANGED <<phase, tail, recovering, logarea, lh>>
    BY <1>1, Zenon
  <2>3. Copied
    BY Zenon DEF DiskInv
  <2>. QED  BY <2>1, <2>2, <2>3, ZenonT(30) DEF Copied
<1>5. \A c : (Locked(c)' <=> Locked(c)) /\ (Pinned(c)' <=> Pinned(c)) /\ (Dirty(c)' <=> Dirty(c))
  BY <1>1 DEF Locked, Pinned, Dirty
<1>6. References'
  BY <1>1, <1>5 DEF DiskInv, References
<1>7. Clean'
  BY <1>1, <1>5 DEF DiskInv, DiskTypeOK, Clean
<1>. QED  BY <1>2, <1>3, <1>4, <1>6, <1>7 DEF DiskInv

LEMMA BreadDisk ==
  ASSUME BookInv, DiskInv, NEW p \in FsProc, NEW b \in HomeBlock, Bread(p, b)
  PROVE  DiskInv' /\ \A c \in HomeBlock : Now(c)' = Now(c)
<1>1. /\ UNCHANGED <<disk, logarea, dhead, lh, recovering, phase, tail>>
      /\ lpc[p] = "op" /\ ~Locked(b)
      /\ cache' = [cache EXCEPT ![b] = Now(b)] /\ bref' = [bref EXCEPT ![b] = @ + 1]
      /\ lbuf' = [lbuf EXCEPT ![p] = b] /\ lpc' = [lpc EXCEPT ![p] = "hold"]
  BY DEF Bread
<1>2. ~recovering /\ phase = "idle" /\ lbuf[p] \notin HomeBlock
  BY <1>1, OpsAlone DEF Ops, BookInv, Counted, Holding
<1>3. \A c \in HomeBlock : Now(c)' = Now(c)
  BY <1>1, NoBufAssumption DEF Now, DiskInv, DiskTypeOK
<1>4. DiskTypeOK'
  BY <1>1, NowType DEF DiskInv, DiskTypeOK
<1>5. Headers' /\ Copied' /\ Installed'
  <2>1. Headers'
    BY <1>1 DEF DiskInv, Headers, Distinct
  <2>. QED  BY <1>1, <1>2, <2>1, QuietPhase
<1>6. OneHolder'
  BY <1>1 DEF DiskInv, OneHolder, Locked, BookInv, BookTypeOK
<1>7. /\ Locked(b)'
      /\ \A c \in HomeBlock : c # b => (Locked(c)' <=> Locked(c))
      /\ \A c \in HomeBlock : (Pinned(c)' <=> Pinned(c)) /\ (Dirty(c)' <=> Dirty(c))
  <2>1. Locked(b)' /\ \A c \in HomeBlock : c # b => (Locked(c)' <=> Locked(c))
    BY <1>1, <1>2 DEF Locked, BookInv, BookTypeOK
  <2>2. \A c \in HomeBlock : Pinned(c)' <=> Pinned(c)
    BY <1>1 DEF Pinned
  <2>3. \A c \in HomeBlock : Dirty(c)' <=> Dirty(c)
    BY <1>1, <1>2 DEF Dirty, BookInv, BookTypeOK
  <2>. QED  BY <2>1, <2>2, <2>3
<1>8. References'
  BY <1>1, <1>7 DEF DiskInv, DiskTypeOK, References
<1>9. Clean'
  BY <1>1, <1>7 DEF DiskInv, DiskTypeOK, Clean, Now
<1>. QED  BY <1>3, <1>4, <1>5, <1>6, <1>8, <1>9 DEF DiskInv

LEMMA ModifyDisk ==
  ASSUME BookInv, DiskInv, NEW p \in FsProc, NEW v \in Content, Modify(p, v)
  PROVE  /\ DiskInv' /\ lbuf[p] \in HomeBlock
         /\ \A c \in HomeBlock : Now(c)' = IF c = lbuf[p] THEN v ELSE Now(c)
<1>. DEFINE b == lbuf[p]
<1>1. /\ UNCHANGED <<disk, logarea, dhead, bref, lh, recovering, phase, tail, lbuf>>
      /\ lpc[p] = "hold" /\ cache' = [cache EXCEPT ![b] = v] /\ lpc' = [lpc EXCEPT ![p] = "dirty"]
  BY DEF Modify
<1>2. ~recovering /\ phase = "idle" /\ b \in HomeBlock
  BY <1>1, OpsAlone DEF Ops, BookInv, Counted, Holding
<1>3. \A c \in HomeBlock : Now(c)' = IF c = b THEN v ELSE Now(c)
  BY <1>1, NoBufAssumption DEF Now, DiskInv, DiskTypeOK
<1>4. DiskTypeOK' /\ OneHolder' /\ Headers' /\ Copied' /\ Installed'
  <2>1. DiskTypeOK' /\ OneHolder'
    BY <1>1, <1>2 DEF DiskInv, DiskTypeOK, OneHolder
  <2>2. Headers'
    BY <1>1 DEF DiskInv, Headers, Distinct
  <2>. QED  BY <1>1, <1>2, <2>1, <2>2, QuietPhase
<1>5. \A c \in HomeBlock : (Locked(c)' <=> Locked(c)) /\ (Pinned(c)' <=> Pinned(c))
  BY <1>1 DEF Locked, Pinned
<1>6. Dirty(b)' /\ \A c \in HomeBlock : Dirty(c) => Dirty(c)'
  BY <1>1 DEF Dirty, BookInv, BookTypeOK
<1>7. References'
  BY <1>1, <1>5 DEF DiskInv, References
<1>8. Clean'
  BY <1>1, <1>5, <1>6 DEF DiskInv, DiskTypeOK, Clean
<1>. QED  BY <1>2, <1>3, <1>4, <1>7, <1>8 DEF DiskInv

LEMMA LogWriteDisk ==
  ASSUME BookInv, DiskInv, NEW p \in FsProc, log_write(p)
  PROVE  DiskInv'
<1>. DEFINE b == lbuf[p]
<1>1. /\ UNCHANGED <<disk, logarea, dhead, cache, recovering, phase, tail, lbuf>>
      /\ lpc[p] = "dirty" /\ ~LogFull /\ Absorb(b) /\ lpc' = [lpc EXCEPT ![p] = "logged"]
  BY DEF log_write
<1>2. ~recovering /\ phase = "idle" /\ b \in HomeBlock
  BY <1>1, OpsAlone, Zenon DEF Ops, BookInv, Counted, Holding
<1>3. lh \in Seq(HomeBlock) /\ Len(lh) \in Nat
  BY DEF BookInv, BookTypeOK
<1>4. \A c \in HomeBlock : (Pinned(c) <=> InLog(c)) /\ (Pinned(c)' <=> InLog(c)')
  BY <1>1, <1>2, Zenon DEF Pinned, InLog
<1>5. \A c \in HomeBlock : Locked(c)' <=> Locked(c)
  BY <1>1 DEF Locked
<1>6. \A c \in HomeBlock : c # b => (Dirty(c)' <=> Dirty(c))
  BY <1>1 DEF Dirty, BookInv, BookTypeOK
<1>7. InLog(b)' /\ \A c \in HomeBlock : c # b => (InLog(c)' <=> InLog(c))
  <2>1. CASE lh' = lh /\ InLog(b)
    BY <1>1, <2>1 DEF InLog
  <2>2. CASE lh' = Append(lh, b)
    BY <1>1, <1>2, <1>3, <2>2 DEF InLog
  <2>. QED  BY <1>1, <2>1, <2>2 DEF Absorb
<1>8. DiskTypeOK'
  <2>1. bref' = bref \/ bref' = [bref EXCEPT ![b] = @ + 1]
    BY <1>1 DEF Absorb
  <2>2. bref' \in [HomeBlock -> Nat]
    BY <1>2, <2>1 DEF DiskInv, DiskTypeOK
  <2>. QED  BY <1>1, <2>2 DEF DiskInv, DiskTypeOK
<1>9. OneHolder'
  BY <1>1 DEF DiskInv, OneHolder
<1>10. Headers'
  <2>1. Distinct(lh') /\ Len(lh') <= LOGSIZE
    <3>1. CASE lh' = lh
      BY <3>1 DEF DiskInv, Headers
    <3>2. CASE lh' = Append(lh, b) /\ ~InLog(b)
      BY <1>1, <1>2, <1>3, <3>2, LogSizes DEF DiskInv, Headers, Distinct, InLog, LogFull
    <3>. QED  BY <1>1, <3>1, <3>2 DEF Absorb
  <2>. QED  BY <1>1, <1>2, <2>1 DEF DiskInv, Headers
<1>11. Copied' /\ Installed'
  BY <1>1, <1>2, QuietPhase
<1>12. References'
  BY <1>1, <1>2, <1>4, <1>5, <1>7 DEF Absorb, DiskInv, DiskTypeOK, References
<1>13. Clean'
  BY <1>1, <1>4, <1>6, <1>7, Zenon DEF DiskInv, Clean
<1>. QED  BY <1>8, <1>9, <1>10, <1>11, <1>12, <1>13 DEF DiskInv

LEMMA BrelseDisk ==
  ASSUME BookInv, DiskInv, NEW p \in FsProc, Brelse(p)
  PROVE  DiskInv'
<1>0. PICK b \in HomeBlock : b = lbuf[p]
  BY DEF Brelse, BookInv, Counted, Holding
<1>1. /\ UNCHANGED <<disk, logarea, dhead, cache, lh, recovering, phase, tail>>
      /\ lpc[p] \in {"hold", "logged"} /\ bref' = [bref EXCEPT ![b] = @ - 1]
      /\ lbuf' = [lbuf EXCEPT ![p] = NoBuf] /\ lpc' = [lpc EXCEPT ![p] = "op"]
  BY <1>0 DEF Brelse
<1>2. ~recovering /\ phase = "idle"
  BY <1>1, OpsAlone DEF Ops, Holding
<1>3. Locked(b) /\ ~Locked(b)'
  BY <1>0, <1>1, NoBufAssumption DEF Locked, DiskInv, OneHolder, BookInv, BookTypeOK
<1>4. \A c \in HomeBlock : c # b => (Locked(c)' <=> Locked(c))
  BY <1>0, <1>1, NoBufAssumption DEF Locked, BookInv, BookTypeOK
<1>5. \A c \in HomeBlock : (Pinned(c)' <=> Pinned(c)) /\ (Dirty(c)' <=> Dirty(c))
  <2>1. \A c \in HomeBlock : Pinned(c)' <=> Pinned(c)
    BY <1>1 DEF Pinned
  <2>2. \A c \in HomeBlock : Dirty(c)' <=> Dirty(c)
    BY <1>1, NoBufAssumption DEF Dirty, BookInv, BookTypeOK
  <2>. QED  BY <2>1, <2>2
<1>6. bref[b] >= 1 /\ bref[b] \in Nat
  BY <1>2, <1>3 DEF DiskInv, References, DiskTypeOK
<1>7. DiskTypeOK'
  BY <1>1, <1>6 DEF DiskInv, DiskTypeOK
<1>8. OneHolder'
  BY <1>1 DEF DiskInv, OneHolder, BookInv, BookTypeOK
<1>9. Headers' /\ Copied' /\ Installed'
  <2>1. Headers'
    BY <1>1 DEF DiskInv, Headers, Distinct
  <2>. QED  BY <1>1, <1>2, <2>1, QuietPhase
<1>10. References'
  BY <1>1, <1>2, <1>3, <1>4, <1>5 DEF DiskInv, DiskTypeOK, References
<1>11. Clean'
  BY <1>1, <1>5 DEF DiskInv, Clean
<1>. QED  BY <1>7, <1>8, <1>9, <1>10, <1>11 DEF DiskInv

(* The steps of commit() and of a recovery.                                *)
LEMMA WriteLogDisk == ASSUME BookInv, DiskInv, write_log PROVE DiskInv'
<1>1. /\ UNCHANGED <<disk, dhead, cache, bref, lh, recovering, lpc, lbuf>>
      /\ phase = "write_log" /\ logarea' = [logarea EXCEPT ![tail] = Now(lh[tail])]
      /\ \/ tail < Len(lh) /\ tail' = tail + 1 /\ phase' = phase
         \/ ~(tail < Len(lh)) /\ tail' = 1 /\ phase' = "write_head"
  BY DEF write_log, Advance
<1>2. /\ lh \in Seq(HomeBlock) /\ Len(lh) \in Nat /\ tail \in 1 .. Len(lh) /\ Len(lh) <= LOGSIZE
      /\ tail \in LogSlot /\ lh[tail] \in HomeBlock
  BY <1>1, LogSizes DEF BookInv, BookTypeOK, DiskInv, Headers, LogSlot
<1>3. DiskTypeOK'
  BY <1>1, <1>2, NowType DEF DiskInv, DiskTypeOK
<1>4. OneHolder'
  BY <1>1 DEF DiskInv, OneHolder
<1>5. Headers'
  BY <1>1, <1>2 DEF DiskInv, Headers, Distinct
<1>6. \A b : (Locked(b)' <=> Locked(b)) /\ (Pinned(b)' <=> Pinned(b)) /\ (Dirty(b)' <=> Dirty(b))
            /\ Now(b)' = Now(b)
  BY <1>1, Zenon DEF Locked, Pinned, Dirty, Now
<1>7. \A i \in 1 .. Len(lh) : i <= tail => logarea'[i] = Now(lh[i])
  <2>. SUFFICES ASSUME NEW i \in 1 .. Len(lh), i <= tail PROVE logarea'[i] = Now(lh[i])
    OBVIOUS
  <2>1. CASE i = tail
    BY <1>1, <1>2, <2>1 DEF DiskInv, DiskTypeOK
  <2>2. CASE i # tail
    <3>1. i < tail /\ i \in LogSlot
      BY <1>2, <2>2, LogSizes DEF LogSlot
    <3>. QED  BY <1>1, <3>1, <2>2 DEF DiskInv, DiskTypeOK, Copied
  <2>. QED  BY <2>1, <2>2
<1>8. Copied' /\ Installed'
  BY <1>1, <1>2, <1>6, <1>7 DEF Copied, Installed
<1>9. References' /\ Clean'
  BY <1>1, <1>6, Zenon DEF DiskInv, References, Clean
<1>. QED  BY <1>3, <1>4, <1>5, <1>8, <1>9 DEF DiskInv

LEMMA WriteHeadDisk == ASSUME BookInv, DiskInv, write_head PROVE DiskInv'
<1>1. /\ UNCHANGED <<disk, logarea, cache, bref, lh, recovering, tail, lpc, lbuf>>
      /\ phase = "write_head" /\ phase' = "install" /\ dhead' = lh
  BY DEF write_head
<1>2. tail = 1 /\ Len(lh) > 0 /\ Len(lh) \in Nat
  BY <1>1 DEF DiskInv, Headers, BookInv, BookTypeOK
<1>3. DiskTypeOK' /\ OneHolder'
  BY <1>1 DEF DiskInv, DiskTypeOK, OneHolder
<1>4. Headers'
  BY <1>1, <1>2 DEF DiskInv, Headers, Distinct
<1>5. \A b : (Locked(b)' <=> Locked(b)) /\ (Pinned(b)' <=> Pinned(b)) /\ (Dirty(b)' <=> Dirty(b))
            /\ Now(b)' = Now(b)
  BY <1>1, <1>2 DEF Locked, Pinned, Dirty, Now
<1>6. Copied' /\ Installed'
  BY <1>1, <1>2, <1>5 DEF DiskInv, Copied, Installed
<1>7. References' /\ Clean'
  BY <1>1, <1>5 DEF DiskInv, References, Clean
<1>. QED  BY <1>3, <1>4, <1>6, <1>7 DEF DiskInv

LEMMA InstallDisk ==
  ASSUME BookInv, DiskInv, install_trans
  PROVE  DiskInv' /\ (~recovering => \A c \in HomeBlock : Now(c)' = Now(c))
<1>0. PICK b, k : b = lh[tail] /\ k = tail
  OBVIOUS
<1>1. /\ UNCHANGED <<logarea, dhead, lh, recovering, lpc, lbuf>> /\ phase = "install"
      /\ disk' = [disk EXCEPT ![b] = logarea[k]] /\ cache' = [cache EXCEPT ![b] = logarea[k]]
      /\ bref' = [bref EXCEPT ![b] = IF recovering THEN @ ELSE @ - 1]
      /\ \/ k < Len(lh) /\ tail' = k + 1 /\ phase' = phase
         \/ ~(k < Len(lh)) /\ tail' = 1 /\ phase' = "clear"
  BY <1>0 DEF install_trans, Advance
<1>2. /\ lh \in Seq(HomeBlock) /\ Len(lh) \in Nat /\ k \in 1 .. Len(lh) /\ k \in LogSlot
      /\ b \in HomeBlock /\ lh[k] = b /\ Distinct(lh)
      /\ \A i \in 1 .. Len(lh) : lh[i] \in HomeBlock /\ i \in LogSlot /\ (lh[i] = b => i = k)
  BY <1>0, <1>1, LogSizes DEF BookInv, BookTypeOK, DiskInv, Headers, LogSlot, Distinct
<1>3. logarea[k] \in Content /\ logarea[k] # NoBuf
  BY <1>2, NoBufAssumption DEF DiskInv, DiskTypeOK
<1>4. \A c \in HomeBlock : ~Locked(c) /\ ~Dirty(c) /\ ~Locked(c)' /\ ~Dirty(c)'
  <2>1. \A c \in HomeBlock : ~Locked(c) /\ ~Dirty(c)
    BY <1>1, NoHolder
  <2>. QED  BY <1>1, <2>1 DEF Locked, Dirty
<1>5. \A c \in HomeBlock : Pinned(c)' <=> Pinned(c) /\ c # b
  <2>1. CASE tail' = k + 1 /\ phase' = phase
    BY <1>0, <1>1, <1>2, <2>1 DEF Pinned
  <2>2. CASE ~(k < Len(lh)) /\ phase' = "clear"
    BY <1>0, <1>1, <1>2, <2>2 DEF Pinned
  <2>. QED  BY <1>1, <2>1, <2>2
<1>6. ~recovering => Pinned(b)
  BY <1>0, <1>1, <1>2 DEF Pinned
<1>7. recovering => ~Pinned(b)
  BY DEF Pinned
<1>8. ~recovering => bref[b] = 1
  BY <1>2, <1>4, <1>6 DEF DiskInv, References
<1>9. DiskTypeOK'
  <2>1. bref' \in [HomeBlock -> Nat]
    BY <1>1, <1>2, <1>8 DEF DiskInv, DiskTypeOK
  <2>2. tail' \in Nat
    BY <1>1, <1>2
  <2>. QED  BY <1>1, <1>2, <1>3, <2>1, <2>2 DEF DiskInv, DiskTypeOK
<1>10. OneHolder'
  BY <1>1 DEF DiskInv, OneHolder
<1>11. Headers'
  BY <1>1, <1>2 DEF DiskInv, Headers, Distinct
<1>12. ASSUME ~recovering, NEW c \in HomeBlock PROVE Now(c)' = Now(c)
  <2>1. logarea[k] = Now(b)
    BY <1>1, <1>2, <1>12 DEF DiskInv, Copied
  <2>2. Now(b)' = logarea[k]
    BY <1>1, <1>2, <1>3 DEF Now, DiskInv, DiskTypeOK
  <2>3. c # b => Now(c)' = Now(c)
    BY <1>1, <1>2 DEF Now, DiskInv, DiskTypeOK
  <2>. QED  BY <2>1, <2>2, <2>3
<1>13. Copied'
  BY <1>1, <1>2, <1>12 DEF DiskInv, Copied
<1>14. \A i \in 1 .. Len(lh) : i <= k => disk'[lh[i]] = logarea[i]
  <2>. SUFFICES ASSUME NEW i \in 1 .. Len(lh), i <= k PROVE disk'[lh[i]] = logarea[i]
    OBVIOUS
  <2>1. CASE i = k
    BY <1>1, <1>2, <2>1 DEF DiskInv, DiskTypeOK
  <2>2. CASE i # k
    <3>1. i < k /\ lh[i] # b
      BY <1>2, <2>2
    <3>. QED  BY <1>0, <1>1, <1>2, <3>1 DEF DiskInv, DiskTypeOK, Installed
  <2>. QED  BY <2>1, <2>2
<1>15. Installed'
  BY <1>1, <1>2, <1>14 DEF Installed
<1>16. References'
  <2>. SUFFICES ASSUME NEW c \in HomeBlock PROVE bref'[c] = IF Pinned(c)' THEN 1 ELSE 0
    BY <1>4 DEF References
  <2>1. bref[c] = IF Pinned(c) THEN 1 ELSE 0
    BY <1>4 DEF DiskInv, References
  <2>2. CASE c # b
    BY <1>1, <1>5, <2>1, <2>2 DEF DiskInv, DiskTypeOK
  <2>3. CASE c = b
    BY <1>1, <1>2, <1>5, <1>7, <1>8, <2>1, <2>3 DEF DiskInv, DiskTypeOK
  <2>. QED  BY <2>2, <2>3
<1>17. Clean'
  BY <1>1, <1>2, <1>4, <1>5 DEF DiskInv, DiskTypeOK, Clean
<1>. QED  BY <1>9, <1>10, <1>11, <1>12, <1>13, <1>15, <1>16, <1>17 DEF DiskInv

LEMMA ClearDisk == ASSUME BookInv, DiskInv, ClearHead PROVE DiskInv'
<1>1. /\ UNCHANGED <<disk, logarea, cache, bref, tail, lpc, lbuf>>
      /\ phase = "clear" /\ lh' = <<>> /\ dhead' = <<>> /\ phase' \in {"idle", "done"}
  BY DEF ClearHead
<1>2. Len(lh') = 0 /\ Len(dhead') = 0
  BY <1>1
<1>3. DiskTypeOK' /\ OneHolder'
  BY <1>1 DEF DiskInv, DiskTypeOK, OneHolder
<1>4. Headers' /\ Copied' /\ Installed'
  BY <1>1, <1>2, LogSizes DEF Headers, Distinct, Copied, Installed
<1>5. \A b : (Locked(b)' <=> Locked(b)) /\ ~Pinned(b)' /\ ~Pinned(b) /\ (Dirty(b)' <=> Dirty(b))
  BY <1>1, <1>2 DEF Locked, Pinned, Dirty
<1>6. References' /\ Clean'
  BY <1>1, <1>5, Zenon DEF DiskInv, References, Clean
<1>. QED  BY <1>3, <1>4, <1>6 DEF DiskInv

LEMMA ReadHeadDisk == ASSUME BookInv, DiskInv, read_head PROVE DiskInv'
<1>1. /\ UNCHANGED <<disk, logarea, dhead, cache, bref, recovering, tail, lpc, lbuf>>
      /\ phase = "read_head" /\ lh' = dhead
      /\ phase' = IF Len(dhead) > 0 THEN "install" ELSE "clear"
  BY DEF read_head
<1>2. recovering /\ tail = 1 /\ Len(dhead) \in Nat
  BY <1>1 DEF BookInv, BookTypeOK, Turns, DiskInv, Headers
<1>3. DiskTypeOK' /\ OneHolder'
  BY <1>1 DEF DiskInv, DiskTypeOK, OneHolder
<1>4. Headers' /\ Copied' /\ Installed'
  BY <1>1, <1>2 DEF DiskInv, Headers, Distinct, Copied, Installed
<1>5. \A b : (Locked(b)' <=> Locked(b)) /\ ~Pinned(b)' /\ ~Pinned(b) /\ (Dirty(b)' <=> Dirty(b))
  BY <1>1, <1>2 DEF Locked, Pinned, Dirty
<1>6. References' /\ Clean'
  BY <1>1, <1>5 DEF DiskInv, References, Clean
<1>. QED  BY <1>3, <1>4, <1>6 DEF DiskInv

(* Every step keeps the invariant.                                         *)
LEMMA DiskStep == BookInv /\ DiskInv /\ [LogNext]_logVars => DiskInv'
<1>. SUFFICES ASSUME BookInv, DiskInv, [LogNext]_logVars PROVE DiskInv'
  OBVIOUS
<1>1. CASE UNCHANGED logVars
  <2>1. UNCHANGED <<disk, logarea, dhead, cache, bref, lh, recovering, phase, tail, lpc, lbuf>>
    BY <1>1 DEF logVars
  <2>2. DiskTypeOK' /\ OneHolder' /\ Headers'
    BY <2>1 DEF DiskInv, DiskTypeOK, OneHolder, Headers, Distinct
  <2>3. Copied' /\ Installed'
    BY <2>1 DEF DiskInv, Copied, Installed, Now
  <2>4. \A b : (Locked(b)' <=> Locked(b)) /\ (Pinned(b)' <=> Pinned(b)) /\ (Dirty(b)' <=> Dirty(b))
    BY <2>1 DEF Locked, Pinned, Dirty
  <2>5. References' /\ Clean'
    BY <2>1, <2>4, Zenon DEF DiskInv, References, Clean
  <2>. QED  BY <2>2, <2>3, <2>5 DEF DiskInv
<1>2. ASSUME NEW p \in FsProc, LogStep(p) PROVE DiskInv'
  BY <1>2, BeginDisk, BreadDisk, ModifyDisk, LogWriteDisk, BrelseDisk, EndDisk, CommittedDisk
  DEF LogStep
<1>. QED
  BY <1>1, <1>2, EvictDisk, WriteLogDisk, WriteHeadDisk, InstallDisk, ClearDisk, ReadHeadDisk,
     CrashDisk DEF LogNext

-----------------------------------------------------------------------------
(* What recovery would make of each block.                                 *)
LEMMA RecoveredLogged ==
  ASSUME BookInv, DiskInv, NEW i \in 1 .. Len(dhead)
  PROVE  Recovered(dhead[i]) = logarea[i]
<1>. DEFINE j == CHOOSE j \in 1 .. Len(dhead) : dhead[j] = dhead[i]
<1>1. j \in 1 .. Len(dhead) /\ dhead[j] = dhead[i]
  OBVIOUS
<1>2. j = i
  BY <1>1 DEF DiskInv, Headers, Distinct
<1>3. Recovered(dhead[i]) = logarea[j]
  BY Zenon DEF Recovered
<1>. QED  BY <1>2, <1>3, Zenon

LEMMA RecoveredHome ==
  ASSUME NEW b, \A i \in 1 .. Len(dhead) : dhead[i] # b
  PROVE  Recovered(b) = disk[b]
  BY Zenon DEF Recovered

(* The header is empty: the home blocks are what a crash leaves.           *)
LEMMA RecoveredEmpty ==
  ASSUME dhead = <<>>
  PROVE  LogDurable = [b \in HomeBlock |-> disk[b]]
<1>1. Len(dhead) = 0
  OBVIOUS
<1>. QED  BY <1>1, RecoveredHome DEF LogDurable

(* No operation, nothing to install: memory and disk agree.                *)
LEMMA SettledIsDurable ==
  ASSUME BookInv, DiskInv, ~recovering, phase = "idle", outstanding = 0
  PROVE  LogMem = LogDurable
<1>1. lh = <<>> /\ dhead = <<>> /\ Ops = {}
  BY FS_EmptySet, Zenon DEF BookInv, Turns, Counted, DiskInv, Headers
<1>2. Len(lh) = 0
  BY <1>1
<1>3. \A b \in HomeBlock : ~Pinned(b) /\ ~Dirty(b)
  BY <1>1, <1>2 DEF Pinned, Dirty, Ops, Holding
<1>4. \A b \in HomeBlock : Now(b) = disk[b]
  BY <1>3 DEF Now, DiskInv, Clean
<1>. QED  BY <1>1, <1>4, RecoveredEmpty DEF LogMem

AtomicUnchanged == UNCHANGED <<LogMem, LogDurable, outstanding>>

(* A step that moves data without changing what is read or would be found. *)
LEMMA SameView ==
  ASSUME recovering' = recovering, outstanding' = outstanding,
         \A b \in HomeBlock : Recovered(b)' = Recovered(b),
         ~recovering => \A b \in HomeBlock : Now(b)' = Now(b)
  PROVE  AtomicUnchanged
  BY DEF AtomicUnchanged, LogMem, LogDurable

LEMMA SameNow ==
  ASSUME UNCHANGED <<cache, disk>>
  PROVE  \A b \in HomeBlock : Now(b)' = Now(b)
  BY DEF Now

LEMMA SameRecovered ==
  ASSUME UNCHANGED <<disk, logarea, dhead>>
  PROVE  LogDurable' = LogDurable /\ \A b \in HomeBlock : Recovered(b)' = Recovered(b)
  BY DEF Recovered, LogDurable

AtomicMove == Atomic!AtomicNext \/ AtomicUnchanged

LEMMA ProcessMoves ==
  ASSUME BookInv, DiskInv, NEW p \in FsProc, LogStep(p)
  PROVE  AtomicMove
<1>1. UNCHANGED <<disk, logarea, dhead, recovering>>
  BY Zenon DEF LogStep, begin_op, Bread, Modify, log_write, Brelse, end_op, Committed
<1>2. LogDurable' = LogDurable /\ \A b \in HomeBlock : Recovered(b)' = Recovered(b)
  BY <1>1, SameRecovered
<1>3. CASE begin_op(p)
  <2>1. LogMem' = LogMem
    <3>1. UNCHANGED <<cache, disk>>
      BY <1>1, <1>3 DEF begin_op
    <3>2. [b \in HomeBlock |-> Now(b)]' = [b \in HomeBlock |-> Now(b)]
      BY <3>1, SameNow
    <3>. QED  BY <1>1, <1>2, <3>2 DEF LogMem
  <2>2. CASE MayBegin
    <3>1. outstanding' = outstanding + 1
      BY <1>3, <2>2 DEF begin_op
    <3>2. ~recovering /\ phase = "idle"
      BY <1>3, <2>2 DEF begin_op, MayBegin, BookInv, Turns
    <3>3. outstanding = 0 => LogDurable = LogMem
      BY <3>2, SettledIsDurable
    <3>. QED  BY <1>2, <2>1, <3>1, <3>3 DEF AtomicMove, Atomic!AtomicNext, Atomic!AtomicBegin
  <2>3. CASE ~MayBegin
    BY <1>2, <1>3, <2>1, <2>3 DEF begin_op, AtomicMove, AtomicUnchanged
  <2>. QED  BY <2>2, <2>3
<1>4. ASSUME NEW b \in HomeBlock, Bread(p, b) PROVE AtomicMove
  BY <1>1, <1>2, <1>4, BreadDisk, SameView, Zenon DEF Bread, AtomicMove
<1>5. ASSUME NEW v \in Content, Modify(p, v) PROVE AtomicMove
  <2>1. PICK b \in HomeBlock : b = lbuf[p]
    BY <1>5, ModifyDisk
  <2>2. \A c \in HomeBlock : Now(c)' = IF c = b THEN v ELSE Now(c)
    BY <1>5, <2>1, ModifyDisk
  <2>3. p \in Ops
    BY <1>5, Zenon DEF Modify, Ops, Holding
  <2>4. ~recovering /\ outstanding > 0 /\ outstanding' = outstanding
    BY <1>5, <2>3, OpsAlone, FS_EmptySet DEF Modify, BookInv, BookTypeOK, Counted
  <2>5. LogMem' = [LogMem EXCEPT ![b] = v]
    BY <1>1, <2>2, <2>4, Zenon DEF LogMem
  <2>. QED  BY <1>2, <2>4, <2>5, Zenon DEF AtomicMove, Atomic!AtomicNext, Atomic!AtomicWrite
<1>6. CASE log_write(p)
  <2>1. UNCHANGED <<cache, disk>> /\ outstanding' = outstanding
    BY <1>1, <1>6 DEF log_write
  <2>. QED  BY <1>1, <1>2, <2>1, SameNow, SameView, Zenon DEF AtomicMove
<1>7. CASE Brelse(p)
  <2>1. UNCHANGED <<cache, disk>> /\ outstanding' = outstanding
    BY <1>1, <1>7 DEF Brelse
  <2>. QED  BY <1>1, <1>2, <2>1, SameNow, SameView, Zenon DEF AtomicMove
<1>8. CASE end_op(p)
  <2>1. LogMem' = LogMem
    <3>1. UNCHANGED <<cache, disk>>
      BY <1>1, <1>8 DEF end_op
    <3>2. [b \in HomeBlock |-> Now(b)]' = [b \in HomeBlock |-> Now(b)]
      BY <3>1, SameNow
    <3>. QED  BY <1>1, <1>2, <3>2 DEF LogMem
  <2>2. outstanding > 0 /\ outstanding' = outstanding - 1
    BY <1>8 DEF end_op, BookInv, BookTypeOK
  <2>. QED  BY <1>2, <2>1, <2>2 DEF AtomicMove, Atomic!AtomicNext, Atomic!AtomicEnd
<1>9. CASE Committed(p)
  <2>1. UNCHANGED <<cache, disk>> /\ outstanding' = outstanding
    BY <1>1, <1>9 DEF Committed
  <2>. QED  BY <1>1, <1>2, <2>1, SameNow, SameView, Zenon DEF AtomicMove
<1>. QED  BY <1>3, <1>4, <1>5, <1>6, <1>7, <1>8, <1>9 DEF LogStep

(* write_head() is the commit: the blocks in the log become durable with   *)
(* the values they have, and all others already are.                       *)
LEMMA CommitMoves == ASSUME BookInv, DiskInv, write_head PROVE AtomicMove
<1>1. /\ UNCHANGED <<disk, logarea, cache, lh, recovering, outstanding>>
      /\ phase = "write_head" /\ dhead' = lh
  BY DEF write_head
<1>2. ~recovering /\ outstanding = 0
  BY <1>1, FS_EmptySet DEF BookInv, Turns, Counted
<1>3. \A b \in HomeBlock : Recovered(b)' = Now(b)
  <2>. SUFFICES ASSUME NEW b \in HomeBlock PROVE Recovered(b)' = Now(b)
    OBVIOUS
  <2>1. ASSUME NEW i \in 1 .. Len(lh), lh[i] = b PROVE Recovered(b)' = Now(b)
    <3>. DEFINE j == CHOOSE j \in 1 .. Len(lh) : lh[j] = b
    <3>1. j \in 1 .. Len(lh) /\ lh[j] = b
      BY <2>1
    <3>2. Recovered(b)' = logarea[j]
      BY <1>1, <2>1 DEF Recovered
    <3>3. j = i
      BY <2>1, <3>1 DEF DiskInv, Headers, Distinct
    <3>. QED  BY <1>1, <2>1, <3>2, <3>3 DEF DiskInv, Copied
  <2>2. ASSUME \A i \in 1 .. Len(lh) : lh[i] # b PROVE Recovered(b)' = Now(b)
    <3>1. Recovered(b)' = disk[b]
      BY <1>1, <2>2 DEF Recovered
    <3>2. ~Pinned(b) /\ ~Dirty(b)
      BY <1>1, <2>2, NoHolder DEF Pinned
    <3>. QED  BY <3>1, <3>2 DEF DiskInv, Clean, Now
  <2>. QED  BY <2>1, <2>2
<1>4. LogMem' = LogMem
  BY <1>1, <1>2 DEF LogMem, Now
<1>5. LogDurable' = LogMem
  BY <1>2, <1>3 DEF LogDurable, LogMem
<1>. QED  BY <1>1, <1>2, <1>4, <1>5 DEF AtomicMove, Atomic!AtomicNext, Atomic!AtomicCommit

(* write_log() fills blocks that no header names yet; install_trans() puts *)
(* at home what the header already gives; ClearHead drops a header whose   *)
(* blocks are all at home.                                                 *)
LEMMA CopyMoves ==
  ASSUME BookInv, DiskInv, write_log \/ install_trans \/ ClearHead \/ read_head
  PROVE  AtomicMove
<1>1. CASE write_log
  <2>1. /\ UNCHANGED <<disk, cache, dhead, recovering, outstanding>> /\ dhead = <<>>
    BY <1>1 DEF write_log, DiskInv, Headers
  <2>2. Len(dhead) = 0
    BY <2>1
  <2>3. \A b \in HomeBlock : Recovered(b)' = Recovered(b)
    BY <2>1, <2>2 DEF Recovered
  <2>. QED  BY <2>1, <2>3, SameView DEF Now, AtomicMove
<1>2. CASE install_trans
  <2>1. /\ UNCHANGED <<logarea, dhead, lh, recovering, outstanding>> /\ dhead = lh
        /\ disk' = [disk EXCEPT ![lh[tail]] = logarea[tail]] /\ tail \in 1 .. Len(lh)
    BY <1>2 DEF install_trans, DiskInv, Headers
  <2>2. ASSUME NEW b \in HomeBlock PROVE Recovered(b)' = Recovered(b)
    <3>1. CASE \E i \in 1 .. Len(dhead) : dhead[i] = b
      BY <2>1, <3>1 DEF Recovered
    <3>2. CASE ~ \E i \in 1 .. Len(dhead) : dhead[i] = b
      <4>1. b # lh[tail]
        BY <2>1, <3>2
      <4>2. disk'[b] = disk[b]
        BY <2>1, <4>1 DEF DiskInv, DiskTypeOK
      <4>. QED  BY <2>1, <3>2, <4>2 DEF Recovered
    <3>. QED  BY <3>1, <3>2
  <2>. QED  BY <1>2, <2>1, <2>2, InstallDisk, SameView DEF AtomicMove
<1>3. CASE ClearHead
  <2>1. /\ UNCHANGED <<disk, logarea, cache, outstanding>> /\ phase = "clear"
        /\ dhead = lh /\ dhead' = <<>> /\ ~recovering'
    BY <1>3 DEF ClearHead, DiskInv, Headers
  <2>2. Len(dhead') = 0
    BY <2>1
  <2>3. \A b \in HomeBlock : Recovered(b)' = disk[b]
    BY <2>1, <2>2 DEF Recovered
  <2>4. \A b \in HomeBlock : Recovered(b) = disk[b]
    <3>. SUFFICES ASSUME NEW b \in HomeBlock PROVE Recovered(b) = disk[b]
      OBVIOUS
    <3>1. ASSUME NEW i \in 1 .. Len(dhead), dhead[i] = b PROVE Recovered(b) = disk[b]
      <4>1. Recovered(b) = logarea[i]
        BY <3>1, RecoveredLogged
      <4>. QED  BY <2>1, <3>1, <4>1, Zenon DEF DiskInv, Installed
    <3>. QED  BY <3>1, RecoveredHome
  <2>5. LogDurable' = LogDurable
    BY <2>3, <2>4 DEF LogDurable
  <2>6. LogMem' = LogMem
    <3>1. CASE ~recovering
      BY <2>1, <3>1 DEF LogMem, Now
    <3>2. CASE recovering
      <4>1. \A b \in HomeBlock : ~Pinned(b) /\ ~Dirty(b)
        BY <2>1, <3>2, NoHolder DEF Pinned
      <4>2. \A b \in HomeBlock : Now(b)' = disk[b]
        BY <2>1, <4>1 DEF Now, DiskInv, Clean
      <4>. QED  BY <2>1, <2>4, <3>2, <4>2 DEF LogMem, LogDurable
    <3>. QED  BY <3>1, <3>2
  <2>. QED  BY <2>1, <2>5, <2>6 DEF AtomicMove, AtomicUnchanged
<1>4. CASE read_head
  BY <1>4, SameRecovered, SameView DEF read_head, Now, AtomicMove
<1>. QED  BY <1>1, <1>2, <1>3, <1>4

LEMMA OtherMoves ==
  ASSUME BookInv, DiskInv, Crash \/ \E b \in HomeBlock : Evict(b)
  PROVE  AtomicMove
<1>1. CASE Crash
  <2>1. LogDurable' = LogDurable
    BY <1>1, SameRecovered DEF Crash
  <2>2. recovering' = TRUE /\ outstanding' = 0
    BY <1>1 DEF Crash, Boot
  <2>3. LogMem' = LogDurable'
    BY <2>2 DEF LogMem
  <2>. QED  BY <2>1, <2>2, <2>3 DEF AtomicMove, Atomic!AtomicNext, Atomic!AtomicCrash
<1>2. ASSUME NEW b \in HomeBlock, Evict(b) PROVE AtomicMove
  BY <1>2, EvictDisk, SameRecovered, SameView, Zenon DEF Evict, AtomicMove
<1>. QED  BY <1>1, <1>2

(***************************************************************************)
(* log.c implements a disk whose contents change only as a whole: at       *)
(* whatever moment of an operation, a commit or a recovery the power       *)
(* fails, and however often, the file system finds all the writes of every *)
(* operation that committed and none of any other.                         *)
(***************************************************************************)
THEOREM LogIsAtomic == LogSpec => LogAtomic
<1>1. LogInit => Atomic!AtomicInit
  <2>. SUFFICES ASSUME LogInit PROVE Atomic!AtomicInit
    OBVIOUS
  <2>1. dhead = <<>> /\ recovering = TRUE /\ outstanding = 0 /\ disk \in [HomeBlock -> Content]
    BY DEF LogInit
  <2>2. LogMem = LogDurable /\ LogDurable \in [HomeBlock -> Content]
    BY <2>1, RecoveredEmpty DEF LogMem
  <2>. QED  BY <2>1, <2>2 DEF Atomic!AtomicInit
<1>2. BookInv /\ DiskInv /\ [LogNext]_logVars => [Atomic!AtomicNext]_<<LogMem, LogDurable, outstanding>>
  <2>. SUFFICES ASSUME BookInv, DiskInv, [LogNext]_logVars PROVE AtomicMove
    BY DEF AtomicMove, AtomicUnchanged
  <2>1. CASE UNCHANGED logVars
    BY <2>1, SameRecovered, SameView, Zenon DEF logVars, Now, AtomicMove
  <2>2. CASE LogNext
    BY <2>2, ProcessMoves, CommitMoves, CopyMoves, OtherMoves DEF LogNext
  <2>. QED  BY <2>1, <2>2
<1>. QED
  BY <1>1, <1>2, BookInit, BookStep, DiskInit, DiskStep, PTL
  DEF LogSpec, LogAtomic, Atomic!AtomicSpec
=============================================================================
