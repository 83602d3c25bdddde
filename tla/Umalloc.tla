------------------------------ MODULE Umalloc -------------------------------
(***************************************************************************)
(* The user-level allocator, user/umalloc.c: a circular list of free       *)
(* blocks in address order, the roving freep, first fit, splitting off the *)
(* tail, merging with both neighbours, and growth by sbrk().               *)
(*                                                                         *)
(* An address counts Headers; `base' is at 0, below the heap.  The heap    *)
(* starts at 2, as base and its bss are not adjacent to it.                *)
(*                                                                         *)
(* An operator defined just before another of like name is a faulty form   *)
(* of it that no action uses (see Mlfq).                                   *)
(***************************************************************************)
EXTENDS Integers, FiniteSets

CONSTANTS
  HEADER,     \* sizeof(Header)
  MORE,       \* the least number of units morecore() asks for
  HeapEnd,    \* bound: sbrk() fails beyond it
  MallocSize     \* the sizes that malloc() is called with, in bytes

VARIABLES
  list,       \* freep and, of every Header, s.ptr and s.size
  brk,        \* the end of the heap
  blocks,     \* the blocks that malloc() has returned and nobody has freed
  others      \* units that the program took from sbrk() by itself

heapVars == <<list, brk, blocks, others>>

base  == 0
HeapStart == 2
Addr  == {base} \cup HeapStart .. HeapEnd

HeapInit ==
  /\ list = [freep |-> base, ptr |-> [a \in Addr |-> base], size |-> [a \in Addr |-> 0]]
  /\ brk = HeapStart /\ blocks = {} /\ others = {}

(* The block after which bp belongs.                                       *)
Before(l, bp) ==
  LET find[p \in Addr] ==
        LET n == l.ptr[p] IN
        IF (bp > p /\ bp < n) \/ (p >= n /\ (bp > p \/ bp < n)) THEN p ELSE find[n]
  IN find[l.freep]

JoinsOver(l, a, b) == a + l.size[a] >= b
Joins(l, a, b) == a + l.size[a] = b

(* A Header inside a block is read by nobody; it counts as zero.           *)
Forget(l, a) == [l EXCEPT !.ptr[a] = base, !.size[a] = 0]

(* free() of the block with header bp.                                     *)
freeBlock(l, bp) ==
  LET p  == Before(l, bp)
      n  == l.ptr[p]
      l1 == IF Joins(l, bp, n)
            THEN [Forget(l, n) EXCEPT !.size[bp] = @ + l.size[n], !.ptr[bp] = l.ptr[n]]
            ELSE [l EXCEPT !.ptr[bp] = n]
      l2 == IF Joins(l1, p, bp)
            THEN [Forget(l1, bp) EXCEPT !.size[p] = @ + l1.size[bp], !.ptr[p] = l1.ptr[bp]]
            ELSE [l1 EXCEPT !.ptr[p] = bp]
  IN [l2 EXCEPT !.freep = p]

nunits(nbytes) == (nbytes + HEADER - 1) \div HEADER + 1

(* The predecessor of the first block that fits, or -1: malloc()'s loop    *)
(* from freep once round the list.                                         *)
FirstFit(l, n) ==
  LET find[prev \in Addr] ==
        LET p == l.ptr[prev] IN
        IF l.size[p] >= n THEN prev ELSE IF p = l.freep THEN -1 ELSE find[p]
  IN find[l.freep]

(* Taking n units from the block after prev.                               *)
Take(l, prev, n) ==
  LET p == l.ptr[prev]
      q == p + l.size[p] - n
  IN IF l.size[p] = n
     THEN [at |-> p, list |-> [l EXCEPT !.ptr[prev] = l.ptr[p], !.ptr[p] = base, !.freep = prev]]
     ELSE [at |-> q, list |-> [l EXCEPT !.size[p] = @ - n, !.size[q] = n, !.freep = prev]]

Grow(n) == IF n < MORE THEN MORE ELSE n

(* morecore(): the new units are a block that is freed.                    *)
morecore(n) == freeBlock([list EXCEPT !.size[brk] = Grow(n)], brk)

Allocated(l, n) ==
  LET t == Take(l, FirstFit(l, n), n)
  IN list' = t.list /\ blocks' = blocks \cup {t.at} /\ UNCHANGED others

malloc(nbytes) ==
  LET n == nunits(nbytes) IN
  /\ FirstFit(list, n) # -1
  /\ Allocated(list, n) /\ UNCHANGED brk

mallocGrows(nbytes) ==
  LET n == nunits(nbytes) IN
  /\ FirstFit(list, n) = -1
  /\ brk + Grow(n) <= HeapEnd
  /\ Allocated(morecore(n), n) /\ brk' = brk + Grow(n)

(* Without more memory malloc() returns 0 and leaves the list as it was.   *)
free(a) ==
  /\ list' = freeBlock(list, a) /\ blocks' = blocks \ {a}
  /\ UNCHANGED <<brk, others>>

(* The program calls sbrk() itself: morecore()'s next block is not         *)
(* adjacent to the last.                                                   *)
sbrk ==
  /\ brk < HeapEnd
  /\ others' = others \cup {brk} /\ brk' = brk + 1
  /\ UNCHANGED <<list, blocks>>

HeapNext ==
  \/ \E nbytes \in MallocSize : malloc(nbytes) \/ mallocGrows(nbytes)
  \/ \E a \in blocks : free(a)
  \/ sbrk

HeapSpec == HeapInit /\ [][HeapNext]_heapVars

-----------------------------------------------------------------------------
(* The list from block a on, back to base.                                 *)
RECURSIVE ListFrom(_, _)
ListFrom(a, n) == IF a = base \/ n = 0 THEN {} ELSE {a} \cup ListFrom(list.ptr[a], n - 1)

Units(a) == a .. a + list.size[a] - 1

(***************************************************************************)
(* umalloc.c's blocks tile the heap: the free blocks on the list and the   *)
(* blocks in use are disjoint and make up all that sbrk() gave the         *)
(* allocator, whatever the order of the calls; and two free blocks are     *)
(* never adjacent, since free() merges with both neighbours.               *)
(***************************************************************************)
HeapTiled ==
  LET freed == ListFrom(list.ptr[base], HeapEnd)
      all   == freed \cup blocks
  IN
  /\ freed \cap blocks = {}
  /\ \A a, b \in all : a # b => Units(a) \cap Units(b) = {}
  /\ UNION {Units(a) : a \in all} = (HeapStart .. brk - 1) \ others
  /\ \A a, b \in freed : a + list.size[a] # b
=============================================================================
