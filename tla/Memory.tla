------------------------------- MODULE Memory -------------------------------
(***************************************************************************)
(* Physical pages and address spaces: kernel/kalloc.c, the user half of    *)
(* kernel/vm.c, and the calls that build and free address spaces:          *)
(* growproc(), allocproc(), fork(), freeproc() of kernel/proc.c, exec()    *)
(* and sys_exec().                                                         *)
(*                                                                         *)
(* Processes share nothing here but the list of free pages, and which page *)
(* kalloc() returns does not matter: each call is one step.  A page table  *)
(* has two levels: a root, a page "hi" for TRAMPOLINE and TRAPFRAME and a  *)
(* page "lo" for user memory.  Sizes are in bytes, as in the code.         *)
(*                                                                         *)
(* An operator defined just before another of like name is a faulty form   *)
(* of it that no action uses (see Mlfq).                                   *)
(***************************************************************************)
EXTENDS Integers, Sequences, FiniteSets

CONSTANTS
  MemProc, initproc,    \* slots of the process table; the first process
  NPAGES,               \* physical pages of the machine
  PGSIZE,
  MaxSz,                \* bound on the size of a process, in bytes
  Program,              \* programs: the ends (vaddr + memsz) of their segments
  MAXARGS               \* bound on the number of argument strings

Page  == 1 .. NPAGES
VPage == 0 .. MaxSz \div PGSIZE

PGROUNDUP(sz) == ((sz + PGSIZE - 1) \div PGSIZE) * PGSIZE
Pages(sz)     == PGROUNDUP(sz) \div PGSIZE

(* userinit() needs five pages; the bound on the size leaves room for the  *)
(* stack of every program.                                                 *)
ASSUME MemAssumption ==
  /\ {NPAGES, PGSIZE, MaxSz, MAXARGS} \subseteq Nat
  /\ NPAGES >= 5 /\ PGSIZE > 0 /\ MaxSz >= 2 * PGSIZE
  /\ initproc \in MemProc
  /\ Program \subseteq Seq({n \in 0 .. MaxSz : PGROUNDUP(n) + 2 * PGSIZE <= MaxSz})

VARIABLES
  freelist,     \* kmem.freelist
  as        \* [tf, pt, sz] of each process; pt = [root, hi, lo, high, page]

memVars == <<freelist, as>>

NoTable == [root |-> 0, hi |-> 0, lo |-> 0, high |-> FALSE, page |-> [v \in VPage |-> 0]]
NoSpace == [tf |-> 0, pt |-> NoTable, sz |-> 0]

-----------------------------------------------------------------------------
(* Each operator takes and returns the free pages f with what it changes.  *)

kalloc(f) == IF f = {} THEN 0 ELSE CHOOSE a \in f : \A b \in f : a <= b
kfree(f, pages) == f \cup (pages \ {0})

(* uvmunmap() with do_free, of the pages from .. to - 1.                   *)
uvmunmap(r, from, to) ==
  LET page == [v \in VPage |-> IF v \in from .. to - 1 THEN 0 ELSE r.pt.page[v]] IN
  [r EXCEPT !.f = kfree(@, {r.pt.page[v] : v \in from .. to - 1}), !.pt.page = page]

(* mappages() of page a at v; walk() adds the page table page if need be.  *)
mappages(r, v, a) ==
  LET t    == kalloc(r.f)
      page == [r.pt.page EXCEPT ![v] = a] IN
  IF r.pt.lo # 0 THEN [r EXCEPT !.pt.page = page]
  ELSE IF t = 0 THEN [r EXCEPT !.ok = FALSE]
  ELSE [r EXCEPT !.f = @ \ {t}, !.pt = [r.pt EXCEPT !.lo = t, !.page = page]]

AddPageLeak(r, v, first) ==
  LET a == kalloc(r.f)
      m == mappages([r EXCEPT !.f = @ \ {a}], v, a) IN
  IF ~r.ok THEN r
  ELSE IF a = 0 THEN [r EXCEPT !.ok = FALSE]
  ELSE IF m.ok THEN m
  ELSE uvmunmap([m EXCEPT !.f = kfree(@, {a})], first, v)

(* One turn of the loop of uvmalloc() and of uvmcopy().  When a page or a  *)
(* page table page is missing, the pages from first on are given back.     *)
AddPage(r, v, first) ==
  LET a == kalloc(r.f)
      m == mappages([r EXCEPT !.f = @ \ {a}], v, a) IN
  IF ~r.ok THEN r
  ELSE IF a = 0 THEN uvmunmap([r EXCEPT !.ok = FALSE], first, v)
  ELSE IF m.ok THEN m
  ELSE uvmunmap([m EXCEPT !.f = kfree(@, {a})], first, v)

AddPages(f, pt, from, to) ==
  LET n == IF to > from THEN to - from ELSE 0
      loop[k \in 0 .. n] == IF k = 0 THEN [f |-> f, pt |-> pt, ok |-> TRUE]
                            ELSE AddPage(loop[k - 1], from + k - 1, from)
  IN  loop[n]

(* Returns the new size in sz, 0 on failure.                               *)
Grown(r, newsz) == [f |-> r.f, pt |-> r.pt, sz |-> IF r.ok THEN newsz ELSE 0]
uvmalloc(f, pt, oldsz, newsz) ==
  IF newsz < oldsz THEN [f |-> f, pt |-> pt, sz |-> oldsz]
  ELSE Grown(AddPages(f, pt, Pages(oldsz), Pages(newsz)), newsz)

uvmdeallocDown(f, pt, oldsz, newsz) ==
  LET r == uvmunmap([f |-> f, pt |-> pt], newsz \div PGSIZE, Pages(oldsz)) IN
  IF newsz >= oldsz THEN [f |-> f, pt |-> pt, sz |-> oldsz]
  ELSE [f |-> r.f, pt |-> r.pt, sz |-> newsz]

uvmdealloc(f, pt, oldsz, newsz) ==
  LET r == uvmunmap([f |-> f, pt |-> pt], Pages(newsz), Pages(oldsz)) IN
  IF newsz >= oldsz THEN [f |-> f, pt |-> pt, sz |-> oldsz]
  ELSE [f |-> r.f, pt |-> r.pt, sz |-> newsz]

(* uvmcreate(), and TRAMPOLINE and TRAPFRAME mapped; root 0 on failure.    *)
proc_pagetable(f) ==
  LET root == kalloc(f)
      hi   == kalloc(f \ {root}) IN
  IF root = 0 \/ hi = 0 THEN [f |-> f, pt |-> NoTable]
  ELSE [f |-> f \ {root, hi},
        pt |-> [NoTable EXCEPT !.root = root, !.hi = hi, !.high = TRUE]]

(* uvmunmap() of what sz covers, and freewalk() of the page table pages.   *)
proc_freepagetable(f, pt, sz) ==
  LET r == uvmunmap([f |-> f, pt |-> pt], 0, Pages(sz)) IN
  kfree(r.f, {pt.root, pt.hi, pt.lo})

freeproc(f, s) ==
  LET g == kfree(f, {s.tf}) IN
  IF s.pt.root # 0 THEN proc_freepagetable(g, s.pt, s.sz) ELSE g

-----------------------------------------------------------------------------
(* userinit(): the first process has one page.                             *)
MemInit ==
  LET t == proc_pagetable(Page \ {1})
      r == uvmalloc(t.f, t.pt, 0, PGSIZE)
  IN  /\ freelist = r.f
      /\ as = [p \in MemProc |->
                 IF p = initproc THEN [tf |-> 1, pt |-> r.pt, sz |-> PGSIZE] ELSE NoSpace]

Live(p) == as[p].tf # 0

(* sys_sbrk(): grow or shrink by n bytes.  A size below zero is a very     *)
(* large unsigned one: uvmdealloc() leaves everything as it is.            *)
Resized(s, n) ==
  IF n > 0 THEN uvmalloc(freelist, s.pt, s.sz, s.sz + n)
  ELSE IF s.sz + n < 0 THEN [f |-> freelist, pt |-> s.pt, sz |-> s.sz]
  ELSE uvmdealloc(freelist, s.pt, s.sz, s.sz + n)

growproc(p, n) ==
  /\ Live(p)
  /\ as[p].sz + n <= MaxSz
  /\ \E r \in {Resized(as[p], n)} :
       /\ freelist' = r.f
       /\ as' = [as EXCEPT ![p] = [tf |-> as[p].tf, pt |-> r.pt,
                                  sz |-> IF n > 0 /\ r.sz = 0 THEN as[p].sz ELSE r.sz]]

(* allocproc() and uvmcopy() of fork(); whatever is missing, freeproc().   *)
fork(p, np) ==
  /\ Live(p) /\ ~Live(np)
  /\ \E tf \in {kalloc(freelist)} :
     \E t \in {proc_pagetable(freelist \ {tf})} :
     \E c \in {AddPages(t.f, t.pt, 0, Pages(as[p].sz))} :
       IF tf # 0 /\ t.pt.root # 0 /\ c.ok
       THEN /\ freelist' = c.f
            /\ as' = [as EXCEPT ![np] = [tf |-> tf, pt |-> c.pt, sz |-> as[p].sz]]
       ELSE /\ freelist' = IF tf = 0 THEN freelist
                           ELSE IF t.pt.root = 0 THEN freeproc(t.f, [NoSpace EXCEPT !.tf = tf])
                           ELSE freeproc(c.f, [tf |-> tf, pt |-> c.pt, sz |-> 0])
            /\ UNCHANGED as

(* freeproc() by wait() after exit().                                      *)
Reap(p) ==
  /\ Live(p) /\ p # initproc
  /\ freelist' = freeproc(freelist, as[p])
  /\ as' = [as EXCEPT ![p] = NoSpace]

(* A segment of the program: sz is set only once uvmalloc() succeeded.     *)
Seg(r, seg) ==
  LET a == uvmalloc(r.f, r.pt, r.sz, seg) IN
  [f |-> a.f, pt |-> a.pt, sz |-> IF a.sz # 0 THEN a.sz ELSE r.sz, ok |-> a.sz # 0]

(* The new address space as far as exec() gets: the first n segments are   *)
(* read, then the guard page and the stack.                                *)
Segs(t, segs, n) ==
  LET load[k \in 0 .. n] ==
        IF k = 0 THEN [f |-> t.f, pt |-> t.pt, sz |-> 0, ok |-> (t.pt.root # 0)]
        ELSE IF load[k - 1].ok THEN Seg(load[k - 1], segs[k]) ELSE load[k - 1]
  IN  load[n]
Image(f, segs, n) ==
  LET WithStack(r) == IF r.ok /\ n = Len(segs)
                      THEN Seg([r EXCEPT !.sz = PGROUNDUP(@)], PGROUNDUP(r.sz) + 2 * PGSIZE)
                      ELSE [r EXCEPT !.ok = FALSE]
  IN  WithStack(Segs(proc_pagetable(f), segs, n))

(* The argument strings of sys_exec(): as many pages as there are.         *)
ArgPages(f, argc) ==
  LET args[k \in 0 .. argc] == IF k = 0 THEN {}
                               ELSE args[k - 1] \cup ({kalloc(f \ args[k - 1])} \ {0})
  IN  args[argc]

(* sys_exec().  The file does not exist or a segment after the n-th cannot *)
(* be read (n < Len(segs)), or the arguments do not fit (~fits).           *)
exec(p, segs, n, argc, fits) ==
  /\ Live(p)
  /\ \E args \in {ArgPages(freelist, argc)} :
     \E i \in {Image(freelist \ args, segs, n)} :
       IF Cardinality(args) = argc /\ i.ok /\ fits
       THEN /\ freelist' = kfree(proc_freepagetable(i.f, as[p].pt, as[p].sz), args)
            /\ as' = [as EXCEPT ![p] = [tf |-> as[p].tf, pt |-> i.pt, sz |-> i.sz]]
       ELSE /\ freelist' = kfree(IF Cardinality(args) < argc \/ i.pt.root = 0 THEN freelist \ args
                                 ELSE proc_freepagetable(i.f, i.pt, i.sz), args)
            /\ UNCHANGED as

MemNext ==
  \E p \in MemProc :
    \/ \E n \in {PGSIZE + 1, -(PGSIZE + 1)} : growproc(p, n)
    \/ \E np \in MemProc : fork(p, np)
    \/ Reap(p)
    \/ \E segs \in Program, argc \in 1 .. MAXARGS, fits \in BOOLEAN :
         \E n \in 0 .. Len(segs) : (fits \/ n = Len(segs)) /\ exec(p, segs, n, argc, fits)

MemSpec == MemInit /\ [][MemNext]_memVars

-----------------------------------------------------------------------------
(* Properties.                                                             *)

(* The places where a process holds a page, with the page.                 *)
Uses(p) ==
  LET kernel == <<as[p].tf, as[p].pt.root, as[p].pt.hi, as[p].pt.lo>> IN
  {<<p, "kernel", k, kernel[k]>> : k \in 1 .. 4} \cup
  {<<p, "user", v, as[p].pt.page[v]>> : v \in VPage}

(* kalloc(), kfree(): every page is free or has one use, of one process,   *)
(* after calls that run out of memory half way (uvmalloc, uvmcopy, fork,   *)
(* exec, sys_exec) as well: nothing leaks, is shared or is freed twice.    *)
PagesConserved ==
  LET uses == UNION {Uses(p) : p \in MemProc} IN
  \A a \in Page : Cardinality({u \in uses : u[4] = a}) = IF a \in freelist THEN 0 ELSE 1

(* p->sz says which pages are mapped, so that uvmunmap(), uvmcopy() and    *)
(* freewalk() (vm.c:188, 190, 322, 290) never panic.                       *)
SizeMapped ==
  \A p \in MemProc :
    /\ Live(p) => as[p].pt.high
    /\ \A v \in VPage : as[p].pt.page[v] # 0 <=> v < Pages(as[p].sz)
=============================================================================
