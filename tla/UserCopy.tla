------------------------------ MODULE UserCopy ------------------------------
(***************************************************************************)
(* Copies between the kernel and user memory, kernel/vm.c: copyin(),       *)
(* copyout() and copyinstr(), which go page by page through the page       *)
(* table, with walkaddr() and walk().  A physical page holds PAGE bytes.   *)
(*                                                                         *)
(* An operator defined just before another of like name is a faulty form   *)
(* of it that no action uses (see Mlfq).                                   *)
(***************************************************************************)
EXTENDS Integers, Sequences, FiniteSets

CONSTANTS
  PAGE,       \* PGSIZE
  VPAGES,     \* MAXVA, in pages
  PteFlags,   \* the permissions that leaf PTEs have; {}: not valid
  UserMem,    \* the contents of physical memory before the call
  MaxLen      \* the longest copy

VARIABLES pt, mem, copied   \* the PTEs' flags, memory, and the call's result
copyVars == <<pt, mem, copied>>

PGROUNDDOWN(va) == (va \div PAGE) * PAGE

(* The page table maps virtual page v to physical page VPAGES - 1 - v.     *)
PTE2PA(v) == (VPAGES - 1 - v) * PAGE

(* walk() and the checks on what it finds.                                 *)
Mapped(va0, flags) == va0 < VPAGES * PAGE /\ flags \subseteq pt[va0 \div PAGE]

walkaddrAny(va0) == IF Mapped(va0, {"V"}) THEN PTE2PA(va0 \div PAGE) ELSE -1
walkaddr(va0) == IF Mapped(va0, {"V", "U"}) THEN PTE2PA(va0 \div PAGE) ELSE -1

(* The bytes of this page: n = PGSIZE - (va - va0), at most len.           *)
InPage(va, len) ==
  LET n == PAGE - (va - PGROUNDDOWN(va)) IN IF n > len THEN len ELSE n

Failed(dst) == [ret |-> -1, dst |-> dst]

RECURSIVE copyin(_, _, _), copyout(_, _, _, _), copyinstr(_, _, _)

(* dst is what has been copied so far.                                     *)
copyin(dst, srcva, len) ==
  LET va0 == PGROUNDDOWN(srcva)
      pa  == walkaddr(va0) + (srcva - va0)
      n   == InPage(srcva, len)
  IN IF len = 0 THEN [ret |-> 0, dst |-> dst]
     ELSE IF walkaddr(va0) = -1 THEN Failed(dst)
     ELSE copyin(dst \o [k \in 1 .. n |-> mem[pa + k - 1]], va0 + PAGE, len - n)

(* m is memory as changed so far.                                          *)
copyout(m, dstva, src, len) ==
  LET va0 == PGROUNDDOWN(dstva)
      pa  == PTE2PA(va0 \div PAGE) + (dstva - va0)
      n   == InPage(dstva, len)
  IN IF len = 0 THEN [ret |-> 0, dst |-> m]
     ELSE IF ~Mapped(va0, {"V", "U", "W"}) THEN Failed(m)
     ELSE copyout([a \in DOMAIN m |-> IF a \in pa .. pa + n - 1 THEN src[a - pa + 1] ELSE m[a]],
                  va0 + PAGE, SubSeq(src, n + 1, Len(src)), len - n)

copyinstr(dst, srcva, max) ==
  LET va0  == PGROUNDDOWN(srcva)
      pa   == walkaddr(va0) + (srcva - va0)
      n    == InPage(srcva, max)
      nuls == {k \in 0 .. n - 1 : mem[pa + k] = 0}
      k    == CHOOSE i \in nuls : \A h \in nuls : i <= h
  IN IF max = 0 THEN Failed(dst)
     ELSE IF walkaddr(va0) = -1 THEN Failed(dst)
     ELSE IF nuls # {} THEN [ret |-> 0, dst |-> dst \o [i \in 1 .. k + 1 |-> mem[pa + i - 1]]]
     ELSE copyinstr(dst \o [i \in 1 .. n |-> mem[pa + i - 1]], va0 + PAGE, max - n)

-----------------------------------------------------------------------------
NotYet == [call |-> "none"]

NoPages == [v \in 0 .. VPAGES - 1 |-> {}]

CopyInit ==
  /\ pt = NoPages
  /\ mem = [a \in 0 .. VPAGES * PAGE - 1 |-> 0]
  /\ copied = NotYet

(* The process's memory as exec(), sbrk() and its program have made it.    *)
UserMemory ==
  /\ pt = NoPages /\ copied = NotYet
  /\ pt' \in [0 .. VPAGES - 1 -> PteFlags] /\ mem' \in UserMem
  /\ UNCHANGED copied

Source(len) == [k \in 1 .. len |-> 1 + k]

Call(call, va, len, result) ==
  /\ copied' = [call |-> call, va |-> va, len |-> len, res |-> result]
  /\ UNCHANGED <<pt, mem>>

CopyNext ==
  \/ UserMemory
  \/ /\ copied = NotYet
     /\ \E va \in 0 .. VPAGES * PAGE, len \in 0 .. MaxLen :
          \/ Call("copyin", va, len, copyin(<<>>, va, len))
          \/ Call("copyinstr", va, len, copyinstr(<<>>, va, len))
          \/ Call("copyout", va, len, copyout(mem, va, Source(len), len))

CopySpec == CopyInit /\ [][CopyNext]_copyVars

-----------------------------------------------------------------------------
(* User memory by single addresses: who may touch va, and where it is.     *)
Allowed(va, flags) ==
  va \div PAGE \in 0 .. VPAGES - 1 /\ flags \subseteq pt[va \div PAGE]
Place(va) == PTE2PA(va \div PAGE) + (va % PAGE)

(* How many of the addresses va, va + 1, ... of the call are allowed.      *)
Reach(va, len, flags) ==
  LET bad == {k \in 0 .. len - 1 : ~Allowed(va + k, flags)}
  IN IF bad = {} THEN len ELSE CHOOSE k \in bad : \A h \in bad : k <= h

(***************************************************************************)
(* "Return 0 on success, -1 on error" (vm.c:357, 387, 412): a call         *)
(* succeeds exactly if the process may read or write every byte of the     *)
(* range (for copyinstr(), up to a NUL that is within max bytes);          *)
(* it moves the bytes of the range, to or from the page each of them is    *)
(* in; a call that fails has moved those up to the first page it may not   *)
(* use; and no other byte of memory changes, at every alignment and        *)
(* length.                                                                 *)
(***************************************************************************)
CopyAgrees ==
  copied # NotYet =>
  LET va    == copied.va
      len   == copied.len
      ret   == copied.res.ret
      dst   == copied.res.dst
      flags == IF copied.call = "copyout" THEN {"V", "U", "W"} ELSE {"V", "U"}
      reach == Reach(va, len, flags)
      bytes(n) == [k \in 1 .. n |-> mem[Place(va + k - 1)]]
      nuls  == {k \in 1 .. reach : mem[Place(va + k - 1)] = 0}
  IN CASE copied.call = "copyin" ->
            /\ ret = (IF reach = len THEN 0 ELSE -1) /\ dst = bytes(reach)
       [] copied.call = "copyout" ->
            /\ ret = (IF reach = len THEN 0 ELSE -1)
            /\ dst = [a \in DOMAIN mem |->
                 IF \E k \in 1 .. reach : Place(va + k - 1) = a
                 THEN Source(len)[CHOOSE k \in 1 .. reach : Place(va + k - 1) = a] ELSE mem[a]]
       [] copied.call = "copyinstr" ->
            IF nuls = {} THEN ret = -1 /\ dst = bytes(reach)
            ELSE ret = 0 /\ dst = bytes(CHOOSE k \in nuls : \A h \in nuls : k <= h)
=============================================================================
