--------------------------- MODULE MemoryProofs -----------------------------
(***************************************************************************)
(* PagesConserved and SizeMapped of Memory, for any number of processes    *)
(* and of pages, any size of a page and any programs.  The loops of        *)
(* uvmalloc(), uvmcopy(), exec() and sys_exec() are recursive functions:   *)
(* what each turn keeps, the loop keeps (LoopExists, LoopKeeps).           *)
(***************************************************************************)
EXTENDS Memory, WellFoundedInduction, TLAPS

(* How long, in seconds, each prover may take over a step.                 *)
USE SMTT(30), ZenonT(30)

(* The smallest of a set of numbers.                                       *)
LEMMA LeastNat ==
  ASSUME NEW S \in SUBSET Nat, S # {}
  PROVE  \E x \in S : \A y \in S : x <= y
<1>. DEFINE R == OpToRel(<, Nat)
<1>1. IsWellFoundedOn(R, Nat)
  BY NatLessThanWellFounded, Zenon
<1>2. \A x, y \in Nat : x < y => <<x, y>> \in R
  BY DEF OpToRel
<1>. HIDE DEF R
<1>3. PICK x \in S : \A y \in S : ~ (<<y, x>> \in R)
  BY <1>1, WFMin, Zenon
<1>4. \A y \in S : y \in Nat /\ x \in Nat /\ ~ (y < x)
  BY <1>2, <1>3, Zenon
<1>5. \A y \in S : x <= y
  BY <1>4
<1>. QED BY <1>5

-----------------------------------------------------------------------------
(* Loops.  Good holds the pairs of the number of turns so far and a value  *)
(* that may have been reached by then, Turn is the body of the loop.       *)

Closed(Good, Turn, n) ==
  \A e \in Good : e[1] \in 0 .. n - 1 => <<e[1] + 1, Turn[e]>> \in Good

(* h holds the values after 0, 1, ... n turns, from b on.                  *)
Turns(h, b, Good, Turn, n) ==
  /\ h = [k \in 0 .. n |-> h[k]]
  /\ h[0] = b
  /\ \A k \in 0 .. n : <<k, h[k]>> \in Good
  /\ \A k \in 1 .. n : h[k] = Turn[<<k - 1, h[k - 1]>>]

LEMMA LoopExists ==
  ASSUME NEW Good, NEW Turn, NEW b, NEW n \in Nat,
         <<0, b>> \in Good, Closed(Good, Turn, n)
  PROVE  \E h : Turns(h, b, Good, Turn, n)
<1> USE DEF Turns
<1> DEFINE Fine(m, h) == Turns(h, b, Good, Turn, m)
<1> DEFINE Bad == {m \in Nat : m <= n /\ ~ \E h : Fine(m, h)}
<1>1. CASE Bad = {}
  <2> HIDE DEF Fine
  <2>1. \E h : Fine(n, h)
    BY <1>1
  <2> QED BY <2>1, Zenon DEF Fine
<1>2. CASE Bad # {}
  <2>1. PICK m \in Bad : \A j \in Bad : m <= j
    BY <1>2, LeastNat, Zenon
  <2>2. m # 0
    <3>1. Fine(0, [k \in 0 .. 0 |-> b])
      OBVIOUS
    <3> HIDE DEF Fine
    <3> QED BY <3>1, <2>1
  <2>3. m - 1 \in Nat /\ m - 1 <= n /\ m - 1 \notin Bad
    BY <2>1, <2>2
  <2>4. PICK h : Fine(m - 1, h)
    BY <2>3
  <2> DEFINE g == [k \in 0 .. m |-> IF k = m THEN Turn[<<m - 1, h[m - 1]>>] ELSE h[k]]
  <2>5. <<m - 1, h[m - 1]>> \in Good /\ m - 1 \in 0 .. n - 1
    BY <2>1, <2>3, <2>4
  <2>6. <<m, Turn[<<m - 1, h[m - 1]>>]>> \in Good
    <3>1. <<(m - 1) + 1, Turn[<<m - 1, h[m - 1]>>]>> \in Good
      BY <2>5 DEF Closed
    <3> QED BY <3>1, <2>1
  <2>7. Fine(m, g)
    <3>1. g = [k \in 0 .. m |-> g[k]] /\ g[0] = b
      BY <2>1, <2>2, <2>4
    <3>2. \A k \in 0 .. m : <<k, g[k]>> \in Good
      BY <2>1, <2>4, <2>6
    <3>3. \A k \in 1 .. m : g[k] = Turn[<<k - 1, g[k - 1]>>]
      <4> SUFFICES ASSUME NEW k \in 1 .. m PROVE g[k] = Turn[<<k - 1, g[k - 1]>>]
        BY Zenon
      <4>1. g[k - 1] = h[k - 1]
        BY <2>1
      <4>2. CASE k = m
        BY <4>1, <4>2, <2>1
      <4>3. CASE k # m
        <5>1. k \in 1 .. m - 1 /\ k \in 0 .. m /\ g[k] = h[k]
          BY <4>3, <2>1
        <5>2. h[k] = Turn[<<k - 1, h[k - 1]>>]
          BY <5>1, <2>4, Zenon
        <5> HIDE DEF g, Fine
        <5> QED BY <4>1, <5>1, <5>2
      <4> QED BY <4>2, <4>3
    <3> HIDE DEF g
    <3> QED BY <3>1, <3>2, <3>3, Zenon
  <2> HIDE DEF g, Fine
  <2> QED BY <2>1, <2>7
<1> QED BY <1>1, <1>2

LEMMA LoopKeeps ==
  ASSUME NEW Good, NEW Turn, NEW h, NEW n \in Nat,
         <<0, h[0]>> \in Good, Closed(Good, Turn, n),
         \A k \in 1 .. n : <<k - 1, h[k - 1]>> \in Good => h[k] = Turn[<<k - 1, h[k - 1]>>]
  PROVE  <<n, h[n]>> \in Good
<1> DEFINE Bad == {m \in Nat : m <= n /\ <<m, h[m]>> \notin Good}
<1>1. CASE Bad = {}
  BY <1>1
<1>2. CASE Bad # {}
  <2>1. PICK m \in Bad : \A j \in Bad : m <= j
    BY <1>2, LeastNat, Zenon
  <2>2. m # 0
    BY <2>1
  <2>3. <<m - 1, h[m - 1]>> \in Good /\ m - 1 \in 0 .. n - 1 /\ m \in 1 .. n
    BY <2>1, <2>2
  <2>4. <<(m - 1) + 1, Turn[<<m - 1, h[m - 1]>>]>> \in Good
    BY <2>3 DEF Closed
  <2>5. <<m, h[m]>> \in Good
    BY <2>1, <2>3, <2>4
  <2> QED BY <2>1, <2>5
<1> QED BY <1>1, <1>2

LEMMA AddPagesLoop ==
  ASSUME NEW f, NEW pt, NEW from \in Nat, NEW to \in Nat, NEW n \in Nat, NEW Good, NEW Turn,
         n = IF to > from THEN to - from ELSE 0,
         <<0, [f |-> f, pt |-> pt, ok |-> TRUE]>> \in Good,
         Closed(Good, Turn, n),
         \A e \in Good : e[1] \in 0 .. n - 1 => Turn[e] = AddPage(e[2], from + e[1], from)
  PROVE  <<n, AddPages(f, pt, from, to)>> \in Good
<1> DEFINE base == [f |-> f, pt |-> pt, ok |-> TRUE]
           L(g) == [k \in 0 .. n |-> IF k = 0 THEN base ELSE AddPage(g[k - 1], from + k - 1, from)]
<1>1. AddPages(f, pt, from, to) = (CHOOSE g : g = L(g))[n]
  BY DEF AddPages
<1>b. <<0, base>> \in Good
  OBVIOUS
<1> HIDE DEF base
<1>2. \E g : g = L(g)
  <2>0. PICK h : Turns(h, base, Good, Turn, n)
    BY <1>b, LoopExists
  <2>1. /\ h = [k \in 0 .. n |-> h[k]]
        /\ h[0] = base
        /\ \A k \in 0 .. n : <<k, h[k]>> \in Good
        /\ \A k \in 1 .. n : h[k] = Turn[<<k - 1, h[k - 1]>>]
    BY <2>0, Zenon DEF Turns
  <2>2. \A k \in 0 .. n : k # 0 => h[k] = AddPage(h[k - 1], from + k - 1, from)
    <3> SUFFICES ASSUME NEW k \in 0 .. n, k # 0 PROVE h[k] = AddPage(h[k - 1], from + k - 1, from)
      OBVIOUS
    <3>1. k \in 1 .. n /\ k - 1 \in 0 .. n - 1 /\ k - 1 \in 0 .. n /\ from + (k - 1) = from + k - 1
      OBVIOUS
    <3>2. <<k - 1, h[k - 1]>> \in Good /\ h[k] = Turn[<<k - 1, h[k - 1]>>]
      BY <2>1, <3>1, Zenon
    <3>3. Turn[<<k - 1, h[k - 1]>>] = AddPage(h[k - 1], from + (k - 1), from)
      BY <3>1, <3>2
    <3> QED BY <3>1, <3>2, <3>3
  <2>3. h = L(h)
    <3>1. \A k \in 0 .. n : h[k] = IF k = 0 THEN base ELSE AddPage(h[k - 1], from + k - 1, from)
      BY <2>1, <2>2, Zenon
    <3> QED BY <3>1, <2>1, Zenon
  <2> QED BY <2>3
<1>3. PICK g : g = L(g) /\ AddPages(f, pt, from, to) = g[n]
  BY <1>1, <1>2, Zenon
<1>4. g[0] = base /\ \A k \in 1 .. n : g[k] = AddPage(g[k - 1], from + k - 1, from)
  <2>1. \A k \in 0 .. n : g[k] = IF k = 0 THEN base ELSE AddPage(g[k - 1], from + k - 1, from)
    <3>1. \A k \in 0 .. n : g[k] = L(g)[k]
      BY <1>3, Zenon
    <3>2. \A k \in 0 .. n : L(g)[k] = IF k = 0 THEN base
                                        ELSE AddPage(g[k - 1], from + k - 1, from)
      BY Zenon
    <3> HIDE DEF L
    <3> QED BY <3>1, <3>2
  <2> HIDE DEF L
  <2>2. 0 \in 0 .. n /\ \A k \in 1 .. n : k \in 0 .. n /\ k # 0
    OBVIOUS
  <2> QED BY <2>1, <2>2, Zenon
<1>5. \A k \in 1 .. n : <<k - 1, g[k - 1]>> \in Good => g[k] = Turn[<<k - 1, g[k - 1]>>]
  <2> SUFFICES ASSUME NEW k \in 1 .. n, <<k - 1, g[k - 1]>> \in Good
               PROVE  g[k] = Turn[<<k - 1, g[k - 1]>>]
    OBVIOUS
  <2>1. k - 1 \in 0 .. n - 1 /\ from + (k - 1) = from + k - 1
    OBVIOUS
  <2>2. Turn[<<k - 1, g[k - 1]>>] = AddPage(g[k - 1], from + (k - 1), from)
    BY <2>1
  <2> QED BY <2>1, <2>2, <1>4
<1>6. <<n, g[n]>> \in Good
  <2>1. <<0, g[0]>> \in Good
    BY <1>4, <1>b
  <2> QED BY <2>1, <1>5, LoopKeeps, Zenon
<1> QED BY <1>3, <1>6

-----------------------------------------------------------------------------
(* Tables.  Held is the set of the pages of a page table; a table and the  *)
(* free pages share all, each page once.                                   *)

Page0 == Page \cup {0}
Table == [root: Page0, hi: Page0, lo: Page0, high: BOOLEAN, page: [VPage -> Page0]]

Held(pt) == ({pt.root, pt.hi, pt.lo} \cup {pt.page[v] : v \in VPage}) \ {0}

Once(pt) ==
  /\ \A v, u \in VPage : pt.page[v] = pt.page[u] /\ pt.page[v] # 0 => v = u
  /\ \A v \in VPage : pt.page[v] # 0 => pt.page[v] \notin {pt.root, pt.hi, pt.lo}
  /\ pt.root # 0 => pt.root # pt.hi /\ pt.root # pt.lo
  /\ pt.hi # 0 => pt.hi # pt.lo

Share(f, pt, all) ==
  /\ f \in SUBSET Page /\ pt \in Table /\ Once(pt)
  /\ f \cap Held(pt) = {} /\ f \cup Held(pt) = all

LEMMA PageNat == /\ Page \in SUBSET Nat /\ 0 \notin Page /\ NPAGES \in Nat
                 /\ VPage \in SUBSET Nat /\ {1, 2, 3, 4, 5} \subseteq Page
  BY MemAssumption DEF Page, VPage

LEMMA VPageDown == \A v \in VPage : \A u \in 0 .. v : u \in VPage
<1>1. MaxSz \div PGSIZE \in Int
  BY MemAssumption
<1> QED BY <1>1 DEF VPage

LEMMA KallocIs ==
  ASSUME NEW f \in SUBSET Page
  PROVE  /\ f = {} => kalloc(f) = 0
         /\ f # {} => kalloc(f) \in f /\ kalloc(f) # 0
<1>1. f # {} => \E a \in f : \A b \in f : a <= b
  BY PageNat, LeastNat
<1> QED BY <1>1, PageNat, Zenon DEF kalloc

(* The table of uvmunmap(), and the pages taken out of it.                 *)
ZeroIn(page, from, to) == [v \in VPage |-> IF v \in from .. to - 1 THEN 0 ELSE page[v]]
Unmapped(pt, from, to) == [pt EXCEPT !.page = ZeroIn(pt.page, from, to)]
Dropped(pt, from, to) == {pt.page[v] : v \in from .. to - 1}

LEMMA WithPage ==
  ASSUME NEW f, NEW pt, NEW ok, NEW g, NEW x
  PROVE  /\ [[f |-> f, pt |-> pt, ok |-> ok] EXCEPT !.f = g, !.pt.page = x]
            = [f |-> g, pt |-> [pt EXCEPT !.page = x], ok |-> ok]
         /\ [[f |-> f, pt |-> pt] EXCEPT !.f = g, !.pt.page = x]
            = [f |-> g, pt |-> [pt EXCEPT !.page = x]]
<1> DEFINE y == [pt EXCEPT !.page = x]
<1>1. /\ [[f |-> f, pt |-> pt, ok |-> ok] EXCEPT !.f = g] = [f |-> g, pt |-> pt, ok |-> ok]
      /\ [[f |-> f, pt |-> pt] EXCEPT !.f = g] = [f |-> g, pt |-> pt]
  OBVIOUS
<1>2. [f |-> g, pt |-> pt, ok |-> ok].pt = pt /\ [f |-> g, pt |-> pt].pt = pt
  OBVIOUS
<1>3. /\ [[f |-> f, pt |-> pt, ok |-> ok] EXCEPT !.f = g, !.pt.page = x]
         = [[f |-> g, pt |-> pt, ok |-> ok] EXCEPT !.pt = y]
      /\ [[f |-> f, pt |-> pt] EXCEPT !.f = g, !.pt.page = x]
         = [[f |-> g, pt |-> pt] EXCEPT !.pt = y]
  BY <1>1, <1>2, Zenon
<1> HIDE DEF y
<1>4. /\ [[f |-> g, pt |-> pt, ok |-> ok] EXCEPT !.pt = y] = [f |-> g, pt |-> y, ok |-> ok]
      /\ [[f |-> g, pt |-> pt] EXCEPT !.pt = y] = [f |-> g, pt |-> y]
  OBVIOUS
<1> QED BY <1>3, <1>4, Zenon DEF y

LEMMA UnmapOf ==
  ASSUME NEW r, NEW from, NEW to
  PROVE  uvmunmap(r, from, to) = [r EXCEPT !.f = kfree(r.f, Dropped(r.pt, from, to)),
                                           !.pt.page = ZeroIn(r.pt.page, from, to)]
  BY Zenon DEF uvmunmap, Dropped, ZeroIn

LEMMA UnmapIs ==
  ASSUME NEW f, NEW pt, NEW ok, NEW from, NEW to, NEW r, r = [f |-> f, pt |-> pt, ok |-> ok]
  PROVE  uvmunmap(r, from, to)
         = [f |-> kfree(f, Dropped(pt, from, to)), pt |-> Unmapped(pt, from, to), ok |-> ok]
<1> DEFINE g == kfree(f, Dropped(pt, from, to))
           x == ZeroIn(pt.page, from, to)
<1> HIDE DEF g, x
<1>1. r.f = f /\ r.pt = pt
  OBVIOUS
<1>2. uvmunmap(r, from, to) = [r EXCEPT !.f = g, !.pt.page = x]
  <2>1. uvmunmap(r, from, to) = [r EXCEPT !.f = kfree(r.f, Dropped(r.pt, from, to)),
                                          !.pt.page = ZeroIn(r.pt.page, from, to)]
    BY UnmapOf, Zenon
  <2>2. kfree(r.f, Dropped(r.pt, from, to)) = g /\ ZeroIn(r.pt.page, from, to) = x
    BY <1>1, Zenon DEF g, x
  <2> QED BY <2>1, <2>2, Zenon
<1>3. uvmunmap(r, from, to) = [f |-> g, pt |-> [pt EXCEPT !.page = x], ok |-> ok]
  BY <1>2, WithPage, Zenon
<1> QED BY <1>3, Zenon DEF g, x, Unmapped

LEMMA UnmapTwo ==
  ASSUME NEW f, NEW pt, NEW from, NEW to, NEW r, r = [f |-> f, pt |-> pt]
  PROVE  uvmunmap(r, from, to)
         = [f |-> kfree(f, Dropped(pt, from, to)), pt |-> Unmapped(pt, from, to)]
<1> DEFINE g == kfree(f, Dropped(pt, from, to))
           x == ZeroIn(pt.page, from, to)
<1> HIDE DEF g, x
<1>1. r.f = f /\ r.pt = pt
  OBVIOUS
<1>2. uvmunmap(r, from, to) = [r EXCEPT !.f = g, !.pt.page = x]
  <2>1. uvmunmap(r, from, to) = [r EXCEPT !.f = kfree(r.f, Dropped(r.pt, from, to)),
                                          !.pt.page = ZeroIn(r.pt.page, from, to)]
    BY UnmapOf, Zenon
  <2>2. kfree(r.f, Dropped(r.pt, from, to)) = g /\ ZeroIn(r.pt.page, from, to) = x
    BY <1>1, Zenon DEF g, x
  <2> QED BY <2>1, <2>2, Zenon
<1>3. uvmunmap(r, from, to) = [f |-> g, pt |-> [pt EXCEPT !.page = x]]
  BY <1>2, WithPage, Zenon
<1> QED BY <1>3, Zenon DEF g, x, Unmapped

LEMMA UnmapTable ==
  ASSUME NEW pt \in Table, NEW from \in Nat, NEW to \in Nat, from .. to - 1 \subseteq VPage
  PROVE  LET u == Unmapped(pt, from, to) IN
         /\ u \in Table
         /\ u.root = pt.root /\ u.hi = pt.hi /\ u.lo = pt.lo /\ u.high = pt.high
         /\ \A v \in VPage : u.page[v] = IF v \in from .. to - 1 THEN 0 ELSE pt.page[v]
  BY DEF Table, Unmapped, ZeroIn, Page0

LEMMA UnmapShares ==
  ASSUME NEW f, NEW pt, NEW all, Share(f, pt, all),
         NEW from \in Nat, NEW to \in Nat, from .. to - 1 \subseteq VPage
  PROVE  Share(kfree(f, Dropped(pt, from, to)), Unmapped(pt, from, to), all)
<1> DEFINE u == Unmapped(pt, from, to)
           D == Dropped(pt, from, to)
<1>0. pt \in Table /\ Once(pt) /\ f \in SUBSET Page /\ f \cap Held(pt) = {} /\ f \cup Held(pt) = all
  BY DEF Share
<1>1. /\ u \in Table
      /\ u.root = pt.root /\ u.hi = pt.hi /\ u.lo = pt.lo
      /\ \A v \in VPage : u.page[v] = IF v \in from .. to - 1 THEN 0 ELSE pt.page[v]
  BY <1>0, UnmapTable
<1> HIDE DEF u
<1>2. D \ {0} \in SUBSET Page
  BY <1>0 DEF Dropped, Table, Page0
<1>3. Once(u)
  BY <1>0, <1>1 DEF Once
<1>4. Held(pt) = Held(u) \cup (D \ {0})
  BY <1>0, <1>1 DEF Held, Dropped
<1>5. Held(u) \cap (D \ {0}) = {}
  BY <1>0, <1>1 DEF Held, Dropped, Once
<1> HIDE DEF D
<1>6. Share(kfree(f, D), u, all)
  BY <1>0, <1>1, <1>2, <1>3, <1>4, <1>5 DEF Share, kfree
<1> QED BY <1>6 DEF u, D

(* The table after mappages() of page a at v, with the table page t if t   *)
(* is one.                                                                 *)
Mapped(pt, v, a)      == [pt EXCEPT !.page = [pt.page EXCEPT ![v] = a]]
MappedLo(pt, v, a, t) == [pt EXCEPT !.lo = t, !.page = [pt.page EXCEPT ![v] = a]]

LEMMA MapIs ==
  ASSUME NEW f, NEW pt, NEW v, NEW a
  PROVE  mappages([f |-> f, pt |-> pt, ok |-> TRUE], v, a) =
         IF pt.lo # 0 THEN [f |-> f, pt |-> Mapped(pt, v, a), ok |-> TRUE]
         ELSE IF kalloc(f) = 0 THEN [f |-> f, pt |-> pt, ok |-> FALSE]
         ELSE [f |-> f \ {kalloc(f)}, pt |-> MappedLo(pt, v, a, kalloc(f)), ok |-> TRUE]
<1> DEFINE yes == TRUE
           no == FALSE
           r == [f |-> f, pt |-> pt, ok |-> yes]
           t == kalloc(f)
           x == Mapped(pt, v, a)
           y == MappedLo(pt, v, a, t)
           g == f \ {t}
<1> HIDE DEF yes, no, g
<1>0. r.f = f /\ r.pt = pt
  OBVIOUS
<1> HIDE DEF r, t
<1>1. mappages(r, v, a) = IF pt.lo # 0 THEN [r EXCEPT !.pt = x]
                          ELSE IF t = 0 THEN [r EXCEPT !.ok = no]
                          ELSE [r EXCEPT !.f = g, !.pt = y]
  BY <1>0, Zenon DEF mappages, Mapped, MappedLo, t, no, g
<1> HIDE DEF x, y
<1>2. [r EXCEPT !.pt = x] = [f |-> f, pt |-> x, ok |-> yes]
  BY DEF r
<1>3. [r EXCEPT !.ok = no] = [f |-> f, pt |-> pt, ok |-> no]
  BY DEF r
<1>4. [r EXCEPT !.f = g, !.pt = y] = [f |-> g, pt |-> y, ok |-> yes]
  <2>1. [r EXCEPT !.f = g] = [f |-> g, pt |-> pt, ok |-> yes]
    BY DEF r
  <2>2. [[f |-> g, pt |-> pt, ok |-> yes] EXCEPT !.pt = y] = [f |-> g, pt |-> y, ok |-> yes]
    OBVIOUS
  <2> QED BY <2>1, <2>2, Zenon
<1> QED BY <1>1, <1>2, <1>3, <1>4, Zenon DEF r, x, y, t, g, yes, no

LEMMA MapTable ==
  ASSUME NEW pt \in Table, NEW v \in VPage, NEW a \in Page
  PROVE  LET m == Mapped(pt, v, a) IN
         /\ m \in Table /\ m.root = pt.root /\ m.hi = pt.hi /\ m.high = pt.high /\ m.lo = pt.lo
         /\ \A u \in VPage : m.page[u] = IF u = v THEN a ELSE pt.page[u]
  BY DEF Table, Mapped, Page0

LEMMA MapLoTable ==
  ASSUME NEW pt \in Table, NEW v \in VPage, NEW a \in Page, NEW t \in Page
  PROVE  LET m == MappedLo(pt, v, a, t) IN
         /\ m \in Table /\ m.root = pt.root /\ m.hi = pt.hi /\ m.high = pt.high /\ m.lo = t
         /\ \A u \in VPage : m.page[u] = IF u = v THEN a ELSE pt.page[u]
  BY Zenon DEF Table, MappedLo, Page0

LEMMA MapShares ==
  ASSUME NEW f, NEW pt, NEW all, Share(f, pt, all), NEW v \in VPage, NEW a \in f, pt.page[v] = 0
  PROVE  Share(f \ {a}, Mapped(pt, v, a), all)
<1> DEFINE m == Mapped(pt, v, a)
<1>0. /\ pt \in Table /\ Once(pt) /\ f \in SUBSET Page /\ a \in Page /\ a # 0
      /\ f \cap Held(pt) = {} /\ f \cup Held(pt) = all /\ pt.page \in [VPage -> Page0]
  BY PageNat DEF Share, Table
<1>1. /\ m \in Table /\ m.root = pt.root /\ m.hi = pt.hi /\ m.lo = pt.lo
      /\ \A u \in VPage : m.page[u] = IF u = v THEN a ELSE pt.page[u]
  BY <1>0, MapTable
<1> HIDE DEF m
<1>2. a \notin Held(pt)
  BY <1>0
<1>3. Once(m)
  BY <1>0, <1>1, <1>2 DEF Once, Held
<1>4. Held(m) = Held(pt) \cup {a}
  BY <1>0, <1>1 DEF Held
<1>5. Share(f \ {a}, m, all)
  BY <1>0, <1>1, <1>2, <1>3, <1>4 DEF Share
<1> QED BY <1>5 DEF m

LEMMA MapLoShares ==
  ASSUME NEW f, NEW pt, NEW all, Share(f, pt, all), NEW v \in VPage, NEW a \in f,
         NEW t \in f, t # a, pt.page[v] = 0, pt.lo = 0
  PROVE  Share((f \ {a}) \ {t}, MappedLo(pt, v, a, t), all)
<1> DEFINE m == MappedLo(pt, v, a, t)
<1>0. /\ pt \in Table /\ Once(pt) /\ f \in SUBSET Page /\ a \in Page /\ a # 0 /\ t \in Page /\ t # 0
      /\ f \cap Held(pt) = {} /\ f \cup Held(pt) = all /\ pt.page \in [VPage -> Page0]
  BY PageNat DEF Share, Table
<1>1. /\ m \in Table /\ m.root = pt.root /\ m.hi = pt.hi /\ m.lo = t
      /\ \A u \in VPage : m.page[u] = IF u = v THEN a ELSE pt.page[u]
  BY <1>0, MapLoTable
<1> HIDE DEF m
<1>2. a \notin Held(pt) /\ t \notin Held(pt)
  BY <1>0
<1>3. Once(m)
  BY <1>0, <1>1, <1>2 DEF Once, Held
<1>4. Held(m) = Held(pt) \cup {a, t}
  BY <1>0, <1>1 DEF Held
<1>5. Share((f \ {a}) \ {t}, m, all)
  BY <1>0, <1>1, <1>2, <1>3, <1>4 DEF Share
<1> QED BY <1>5 DEF m

(* What AddPage() returns when memory lasts for neither page, for the page *)
(* but not for the page table page, for both, or for the page that needs   *)
(* no page table page.                                                     *)
GaveUp(r, f, pt, v, first) ==
  r = [f |-> kfree(f, Dropped(pt, first, v)), pt |-> Unmapped(pt, first, v), ok |-> FALSE]

LEMMA AddPageIs ==
  ASSUME NEW f \in SUBSET Page, NEW pt, NEW v, NEW first
  PROVE  LET a == kalloc(f)
             t == kalloc(f \ {a})
             n == AddPage([f |-> f, pt |-> pt, ok |-> TRUE], v, first) IN
         /\ a = 0 => GaveUp(n, f, pt, v, first)
         /\ a # 0 /\ pt.lo # 0 => n = [f |-> f \ {a}, pt |-> Mapped(pt, v, a), ok |-> TRUE]
         /\ a # 0 /\ pt.lo = 0 /\ t = 0 => GaveUp(n, f, pt, v, first)
         /\ a # 0 /\ pt.lo = 0 /\ t # 0 =>
              n = [f |-> (f \ {a}) \ {t}, pt |-> MappedLo(pt, v, a, t), ok |-> TRUE]
<1> DEFINE yes == TRUE
           no == FALSE
           a == kalloc(f)
           t == kalloc(f \ {a})
           g == f \ {a}
           r == [f |-> f, pt |-> pt, ok |-> yes]
           r1 == [f |-> g, pt |-> pt, ok |-> yes]
           m == mappages(r1, v, a)
           n == AddPage(r, v, first)
<1>0. (yes <=> TRUE) /\ (no <=> FALSE) /\ (yes = TRUE) /\ (no = FALSE)
  OBVIOUS
<1> HIDE DEF yes, no, g
<1>1. r.f = f /\ r.pt = pt /\ (r.ok = yes) /\ [r EXCEPT !.f = g] = r1
      /\ [r EXCEPT !.ok = no] = [f |-> f, pt |-> pt, ok |-> no]
  OBVIOUS
<1> HIDE DEF r, r1, a, t
<1>2. n = IF ~r.ok THEN r
          ELSE IF a = 0 THEN uvmunmap([r EXCEPT !.ok = FALSE], first, v)
          ELSE IF m.ok THEN m
          ELSE uvmunmap([m EXCEPT !.f = kfree(@, {a})], first, v)
  BY <1>1, Zenon DEF AddPage, a, g
<1>3. r.ok
  BY <1>0, <1>1, Zenon
<1>4. ASSUME a = 0
      PROVE  GaveUp(n, f, pt, v, first)
  <2>1. n = uvmunmap([f |-> f, pt |-> pt, ok |-> no], first, v)
    BY <1>0, <1>1, <1>2, <1>3, <1>4, Zenon
  <2>9. uvmunmap([f |-> f, pt |-> pt, ok |-> no], first, v)
        = [f |-> kfree(f, Dropped(pt, first, v)), pt |-> Unmapped(pt, first, v), ok |-> no]
    <3> DEFINE z == [f |-> f, pt |-> pt, ok |-> no]
    <3> HIDE DEF z
    <3>1. z = [f |-> f, pt |-> pt, ok |-> no]
      BY DEF z
    <3>2. uvmunmap(z, first, v)
          = [f |-> kfree(f, Dropped(pt, first, v)), pt |-> Unmapped(pt, first, v), ok |-> no]
      BY <3>1, UnmapIs
    <3> QED BY <3>1, <3>2
  <2> HIDE DEF n
  <2> QED BY <2>1, <2>9, Zenon DEF GaveUp, no
<1>5. m = IF pt.lo # 0 THEN [f |-> g, pt |-> Mapped(pt, v, a), ok |-> yes]
          ELSE IF t = 0 THEN [f |-> g, pt |-> pt, ok |-> no]
          ELSE [f |-> g \ {t}, pt |-> MappedLo(pt, v, a, t), ok |-> yes]
  BY MapIs, Zenon DEF r1, yes, no, t, g
<1>6. ASSUME a # 0, pt.lo # 0
      PROVE  n = [f |-> g, pt |-> Mapped(pt, v, a), ok |-> yes]
  <2>1. m = [f |-> g, pt |-> Mapped(pt, v, a), ok |-> yes]
    BY <1>5, <1>6, Zenon
  <2>2. m.ok = yes
    <3> HIDE DEF m
    <3> QED BY <2>1
  <2> QED BY <2>1, <2>2, <1>0, <1>2, <1>3, <1>6, Zenon
<1>7. ASSUME a # 0, pt.lo = 0, t # 0
      PROVE  n = [f |-> g \ {t}, pt |-> MappedLo(pt, v, a, t), ok |-> yes]
  <2>1. m = [f |-> g \ {t}, pt |-> MappedLo(pt, v, a, t), ok |-> yes]
    BY <1>5, <1>7, Zenon
  <2>2. m.ok = yes
    <3> HIDE DEF m
    <3> QED BY <2>1
  <2> QED BY <2>1, <2>2, <1>0, <1>2, <1>3, <1>7, Zenon
<1>8. ASSUME a # 0, pt.lo = 0, t = 0
      PROVE  GaveUp(n, f, pt, v, first)
  <2>1. m = [f |-> g, pt |-> pt, ok |-> no]
    BY <1>5, <1>8, Zenon
  <2>2. m.ok = no /\ [m EXCEPT !.f = kfree(@, {a})] = [f |-> kfree(g, {a}), pt |-> pt, ok |-> no]
    <3> HIDE DEF m
    <3> QED BY <2>1
  <2>3. kfree(g, {a}) = f
    BY <1>8, KallocIs DEF kfree, g, a
  <2>4. n = uvmunmap([f |-> f, pt |-> pt, ok |-> no], first, v)
    BY <2>2, <2>3, <1>0, <1>2, <1>3, <1>8, Zenon
  <2>9. uvmunmap([f |-> f, pt |-> pt, ok |-> no], first, v)
        = [f |-> kfree(f, Dropped(pt, first, v)), pt |-> Unmapped(pt, first, v), ok |-> no]
    <3> DEFINE z == [f |-> f, pt |-> pt, ok |-> no]
    <3> HIDE DEF z
    <3>1. z = [f |-> f, pt |-> pt, ok |-> no]
      BY DEF z
    <3>2. uvmunmap(z, first, v)
          = [f |-> kfree(f, Dropped(pt, first, v)), pt |-> Unmapped(pt, first, v), ok |-> no]
      BY <3>1, UnmapIs
    <3> QED BY <3>1, <3>2
  <2> HIDE DEF n
  <2> QED BY <2>4, <2>9, Zenon DEF GaveUp, no
<1> QED BY <1>4, <1>6, <1>7, <1>8, Zenon DEF r, a, t, g, yes

(* The loop of uvmalloc() and of uvmcopy(), begun at page first of table   *)
(* pt with first .. m - 1 behind it: those pages are mapped, or, when the  *)
(* loop gave up, the table is as it was, but for its page table page.      *)
Added(r, pt, first, m, all) ==
  /\ r = [f |-> r.f, pt |-> r.pt, ok |-> r.ok] /\ r.ok \in BOOLEAN
  /\ Share(r.f, r.pt, all)
  /\ r.pt.root = pt.root /\ r.pt.hi = pt.hi /\ r.pt.high = pt.high
  /\ \A v \in VPage : IF r.ok /\ v \in first .. m - 1 THEN r.pt.page[v] # 0
                                                      ELSE r.pt.page[v] = pt.page[v]

LEMMA GaveUpAdded ==
  ASSUME NEW f, NEW qt, NEW pt, NEW all, NEW first \in Nat, NEW m \in VPage, NEW n,
         Added([f |-> f, pt |-> qt, ok |-> TRUE], pt, first, m, all), first <= m,
         \A v \in first .. m : pt.page[v] = 0, GaveUp(n, f, qt, m, first)
  PROVE  Added(n, pt, first, m + 1, all)
<1> DEFINE u == Unmapped(qt, first, m)
           g == kfree(f, Dropped(qt, first, m))
<1>1. /\ Share(f, qt, all)
      /\ qt.root = pt.root /\ qt.hi = pt.hi /\ qt.high = pt.high
      /\ \A v \in VPage : IF v \in first .. m - 1 THEN qt.page[v] # 0 ELSE qt.page[v] = pt.page[v]
  BY DEF Added
<1>2. first .. m - 1 \subseteq VPage /\ m \in Nat
  BY PageNat, VPageDown
<1>3. Share(g, u, all)
  BY <1>1, <1>2, UnmapShares
<1>4. /\ u.root = qt.root /\ u.hi = qt.hi /\ u.high = qt.high
      /\ \A v \in VPage : u.page[v] = IF v \in first .. m - 1 THEN 0 ELSE qt.page[v]
  BY <1>1, <1>2, UnmapTable, ZenonT(30) DEF Share
<1>5. \A v \in VPage : u.page[v] = pt.page[v]
  BY <1>1, <1>2, <1>4, PageNat
<1> HIDE DEF u, g
<1>6. n = [f |-> g, pt |-> u, ok |-> FALSE]
  BY DEF GaveUp, u, g
<1>7. n.f = g /\ n.pt = u /\ ~n.ok /\ n.ok \in BOOLEAN /\ n = [f |-> n.f, pt |-> n.pt, ok |-> n.ok]
  BY <1>6
<1> QED BY <1>1, <1>3, <1>4, <1>5, <1>7 DEF Added

LEMMA MappedAdded ==
  ASSUME NEW f, NEW qt, NEW pt, NEW all, NEW first \in Nat, NEW m \in VPage, NEW a,
         NEW n, NEW g, NEW x,
         Added([f |-> f, pt |-> qt, ok |-> TRUE], pt, first, m, all), first <= m,
         n = [f |-> g, pt |-> x, ok |-> TRUE], Share(g, x, all), a # 0,
         x.root = qt.root, x.hi = qt.hi, x.high = qt.high,
         \A v \in VPage : x.page[v] = IF v = m THEN a ELSE qt.page[v]
  PROVE  Added(n, pt, first, m + 1, all)
<1>1. /\ qt.root = pt.root /\ qt.hi = pt.hi /\ qt.high = pt.high
      /\ \A v \in VPage : IF v \in first .. m - 1 THEN qt.page[v] # 0 ELSE qt.page[v] = pt.page[v]
  BY DEF Added
<1>2. n.f = g /\ n.pt = x /\ n.ok /\ n.ok \in BOOLEAN /\ n = [f |-> n.f, pt |-> n.pt, ok |-> n.ok]
  OBVIOUS
<1>3. \A v \in VPage : v \in Nat /\ m \in Nat
  BY PageNat
<1>4. \A v \in VPage : IF v \in first .. (m + 1) - 1 THEN x.page[v] # 0 ELSE x.page[v] = pt.page[v]
  BY <1>1, <1>3
<1> QED BY <1>1, <1>2, <1>4 DEF Added

LEMMA AddPageKeeps ==
  ASSUME NEW r, NEW pt, NEW all, NEW first \in Nat, NEW m \in VPage,
         Added(r, pt, first, m, all), first <= m, \A v \in first .. m : pt.page[v] = 0
  PROVE  Added(AddPage(r, m, first), pt, first, m + 1, all)
<1> DEFINE n == AddPage(r, m, first)
           f == r.f
           qt == r.pt
           a == kalloc(f)
           t == kalloc(f \ {a})
<1> SUFFICES Added(n, pt, first, m + 1, all)
  OBVIOUS
<1>0. /\ r.ok \in BOOLEAN /\ r = [f |-> f, pt |-> qt, ok |-> r.ok]
      /\ Share(f, qt, all) /\ f \in SUBSET Page /\ qt \in Table
  BY DEF Added, Share
<1>1. CASE ~r.ok
  <2>1. n = r
    BY <1>1, Zenon DEF AddPage
  <2> HIDE DEF n
  <2> QED BY <2>1, <1>1 DEF Added
<1>2. CASE r.ok
  <2>1. r = [f |-> f, pt |-> qt, ok |-> TRUE]
    BY <1>0, <1>2, Zenon
  <2> HIDE DEF f, qt
  <2>2. Added([f |-> f, pt |-> qt, ok |-> TRUE], pt, first, m, all)
    BY <2>1, Zenon
  <2>3. /\ a = 0 => GaveUp(n, f, qt, m, first)
        /\ a # 0 /\ qt.lo # 0 => n = [f |-> f \ {a}, pt |-> Mapped(qt, m, a), ok |-> TRUE]
        /\ a # 0 /\ qt.lo = 0 /\ t = 0 => GaveUp(n, f, qt, m, first)
        /\ a # 0 /\ qt.lo = 0 /\ t # 0 =>
             n = [f |-> (f \ {a}) \ {t}, pt |-> MappedLo(qt, m, a, t), ok |-> TRUE]
    <3>1. n = AddPage([f |-> f, pt |-> qt, ok |-> TRUE], m, first)
      BY <2>1, Zenon
    <3> QED BY <1>0, <3>1, AddPageIs, Zenon
  <2> HIDE DEF n
  <2>4. qt.page[m] = 0
    BY <2>2, PageNat DEF Added
  <2>5. /\ a # 0 => a \in f /\ a \in Page
        /\ a # 0 /\ t # 0 => t \in f /\ t \in Page /\ t # a
    BY <1>0, KallocIs
  <2> HIDE DEF a, t
  <2>6. CASE a = 0 \/ (qt.lo = 0 /\ t = 0)
    <3>1. GaveUp(n, f, qt, m, first)
      BY <2>3, <2>6
    <3> QED BY <3>1, <2>2, GaveUpAdded
  <2>7. CASE a # 0 /\ qt.lo # 0
    <3> DEFINE x == Mapped(qt, m, a)
               g == f \ {a}
    <3>1. Share(g, x, all)
      BY <1>0, <2>4, <2>5, <2>7, MapShares
    <3>2. /\ x.root = qt.root /\ x.hi = qt.hi /\ x.high = qt.high
          /\ \A v \in VPage : x.page[v] = IF v = m THEN a ELSE qt.page[v]
      BY <1>0, <2>5, <2>7, MapTable
    <3>3. n = [f |-> g, pt |-> x, ok |-> TRUE]
      BY <2>3, <2>7
    <3>4. a # 0
      BY <2>7
    <3> HIDE DEF x, g
    <3> QED BY <3>1, <3>2, <3>3, <3>4, <2>2, MappedAdded
  <2>8. CASE a # 0 /\ qt.lo = 0 /\ t # 0
    <3> DEFINE x == MappedLo(qt, m, a, t)
               g == (f \ {a}) \ {t}
    <3>1. Share(g, x, all)
      BY <1>0, <2>4, <2>5, <2>8, MapLoShares
    <3>2. /\ x.root = qt.root /\ x.hi = qt.hi /\ x.high = qt.high
          /\ \A v \in VPage : x.page[v] = IF v = m THEN a ELSE qt.page[v]
      BY <1>0, <2>5, <2>8, MapLoTable
    <3>3. n = [f |-> g, pt |-> x, ok |-> TRUE]
      BY <2>3, <2>8
    <3>4. a # 0
      BY <2>8
    <3> HIDE DEF x, g
    <3> QED BY <3>1, <3>2, <3>3, <3>4, <2>2, MappedAdded
  <2> QED BY <2>6, <2>7, <2>8
<1> QED BY <1>0, <1>1, <1>2

(* uvmalloc() and uvmcopy(), page by page.                                 *)
LEMMA AddPagesAdded ==
  ASSUME NEW f, NEW pt, NEW all, Share(f, pt, all), NEW from \in Nat, NEW to \in Nat,
         from .. to - 1 \subseteq VPage, \A v \in from .. to - 1 : pt.page[v] = 0
  PROVE  Added(AddPages(f, pt, from, to), pt, from, to, all)
<1> DEFINE n == IF to > from THEN to - from ELSE 0
           Pool == [f: SUBSET Page, pt: Table, ok: BOOLEAN]
           Good == {e \in (0 .. n) \X Pool : Added(e[2], pt, from, from + e[1], all)}
           Turn == [e \in Good |-> AddPage(e[2], from + e[1], from)]
           b == [f |-> f, pt |-> pt, ok |-> TRUE]
<1>0. n \in Nat /\ f \in SUBSET Page /\ pt \in Table
  BY DEF Share
<1>1. <<0, b>> \in Good
  <2>1. b \in Pool /\ 0 \in 0 .. n
    BY <1>0
  <2>2. Added(b, pt, from, from + 0, all)
    <3>1. b.f = f /\ b.pt = pt /\ b.ok /\ b.ok \in BOOLEAN /\ b = [f |-> b.f, pt |-> b.pt, ok |-> b.ok]
      OBVIOUS
    <3>2. \A v : v \notin from .. (from + 0) - 1
      OBVIOUS
    <3> HIDE DEF b
    <3> QED BY <3>1, <3>2 DEF Added
  <2> HIDE DEF b, Pool
  <2> QED BY <2>1, <2>2
<1>2. Closed(Good, Turn, n)
  <2> SUFFICES ASSUME NEW e \in Good, e[1] \in 0 .. n - 1
               PROVE  <<e[1] + 1, Turn[e]>> \in Good
    BY DEF Closed
  <2> DEFINE m == from + e[1]
             y == AddPage(e[2], m, from)
  <2>1. m \in from .. to - 1 /\ from <= m /\ m \in VPage /\ e[1] + 1 \in 0 .. n
    OBVIOUS
  <2>2. \A v \in from .. m : pt.page[v] = 0
    BY <2>1
  <2>3. Added(e[2], pt, from, m, all)
    OBVIOUS
  <2>4. Added(y, pt, from, m + 1, all)
    <3> HIDE DEF m
    <3> QED BY <2>1, <2>2, <2>3, AddPageKeeps
  <2>5. Turn[e] = y
    BY Zenon
  <2> HIDE DEF y
  <2>6. y \in Pool
    BY <2>4 DEF Added, Share
  <2>7. m + 1 = from + (e[1] + 1)
    BY <1>0
  <2> HIDE DEF Turn, n, Pool, m
  <2> QED BY <2>1, <2>4, <2>5, <2>6, <2>7
<1>3. \A e \in Good : e[1] \in 0 .. n - 1 => Turn[e] = AddPage(e[2], from + e[1], from)
  BY Zenon
<1> HIDE DEF Turn, Good
<1>4. <<n, AddPages(f, pt, from, to)>> \in Good
  BY <1>0, <1>1, <1>2, <1>3, AddPagesLoop
<1>5. Added(AddPages(f, pt, from, to), pt, from, from + n, all)
  BY <1>4 DEF Good
<1>6. CASE to > from
  BY <1>5, <1>6
<1>7. CASE ~(to > from)
  <2>1. \A v : v \notin from .. (from + n) - 1 /\ v \notin from .. to - 1
    BY <1>7
  <2> QED BY <1>5, <2>1 DEF Added
<1> QED BY <1>6, <1>7

-----------------------------------------------------------------------------
(* Sizes.  A size covers page v if it reaches beyond its first byte.       *)

LEMMA MulMono ==
  ASSUME NEW M \in Int, M > 0, NEW x \in Int, NEW y \in Int
  PROVE  /\ x <= y => x * M <= y * M
         /\ x < y => x * M + M <= y * M
OBVIOUS

LEMMA DivIs ==
  ASSUME NEW M \in Int, M > 0, NEW x \in Int
  PROVE  /\ x \div M \in Int
         /\ (x \div M) * M <= x /\ x < (x \div M) * M + M
OBVIOUS

LEMMA DivMul ==
  ASSUME NEW M \in Int, M > 0, NEW q \in Int
  PROVE  (q * M) \div M = q
OBVIOUS

LEMMA PagesIs ==
  ASSUME NEW s \in Nat
  PROVE  /\ Pages(s) \in Nat /\ PGROUNDUP(s) \in Nat /\ PGROUNDUP(s) = Pages(s) * PGSIZE
         /\ \A v \in Nat : v < Pages(s) <=> v * PGSIZE < s
<1> DEFINE q == (s + PGSIZE - 1) \div PGSIZE
<1>0. PGSIZE \in Int /\ PGSIZE > 0 /\ s + PGSIZE - 1 \in Int /\ s + PGSIZE - 1 >= 0
  BY MemAssumption
<1>1. q \in Int /\ q * PGSIZE <= s + PGSIZE - 1 /\ s + PGSIZE - 1 < q * PGSIZE + PGSIZE
  BY <1>0, DivIs
<1> HIDE DEF q
<1>2. q * PGSIZE \in Int
  BY <1>0, <1>1
<1>3. q >= 0
  <2> SUFFICES ASSUME q < 0 PROVE FALSE
    BY <1>1
  <2>1. q * PGSIZE + PGSIZE <= 0 * PGSIZE
    BY <1>0, <1>1, MulMono
  <2> QED BY <1>0, <1>1, <1>2, <2>1
<1>4. Pages(s) = q /\ PGROUNDUP(s) = q * PGSIZE
  BY <1>0, <1>1, DivMul DEF Pages, PGROUNDUP, q
<1>5. PGROUNDUP(s) >= 0
  <2>1. 0 * PGSIZE <= q * PGSIZE
    BY <1>0, <1>1, <1>3, MulMono
  <2> QED BY <1>0, <1>2, <1>4, <2>1
<1>6. ASSUME NEW v \in Nat PROVE v < q <=> v * PGSIZE < s
  <2>0. v * PGSIZE \in Int
    BY <1>0
  <2>1. CASE v < q
    <3>1. v * PGSIZE + PGSIZE <= q * PGSIZE
      BY <1>0, <1>1, <2>1, MulMono
    <3> QED BY <1>0, <1>1, <1>2, <2>0, <2>1, <3>1
  <2>2. CASE q <= v
    <3>1. q * PGSIZE <= v * PGSIZE
      BY <1>0, <1>1, <2>2, MulMono
    <3> QED BY <1>0, <1>1, <1>2, <2>0, <2>2, <3>1
  <2> QED BY <1>1, <2>1, <2>2
<1> QED BY <1>1, <1>2, <1>3, <1>4, <1>5, <1>6

LEMMA PagesMono ==
  ASSUME NEW s \in Nat, NEW z \in Nat, s <= z
  PROVE  Pages(s) <= Pages(z)
<1> SUFFICES ASSUME Pages(z) < Pages(s) PROVE FALSE
  BY PagesIs
<1>1. Pages(z) \in Nat /\ Pages(z) * PGSIZE < s
  BY PagesIs
<1>2. ~(Pages(z) * PGSIZE < z) /\ Pages(z) * PGSIZE \in Int
  <2>1. Pages(z) < Pages(z) <=> Pages(z) * PGSIZE < z
    BY <1>1, PagesIs
  <2> QED BY <1>1, <2>1, MemAssumption
<1> QED BY <1>1, <1>2

LEMMA PagesAt == Pages(0) = 0 /\ Pages(PGSIZE) = 1
<1>0. PGSIZE \in Nat /\ PGSIZE > 0 /\ 0 * PGSIZE = 0 /\ 1 * PGSIZE = PGSIZE
  BY MemAssumption
<1>1. Pages(0) \in Nat /\ ~(0 < Pages(0))
  <2>1. 0 < Pages(0) <=> 0 * PGSIZE < 0
    BY PagesIs
  <2> QED BY <1>0, <2>1, PagesIs
<1>2. Pages(PGSIZE) \in Nat /\ 0 < Pages(PGSIZE) /\ ~(1 < Pages(PGSIZE))
  <2>1. 0 < Pages(PGSIZE) <=> 0 * PGSIZE < PGSIZE
    BY <1>0, PagesIs
  <2>2. 1 < Pages(PGSIZE) <=> 1 * PGSIZE < PGSIZE
    BY <1>0, PagesIs
  <2> QED BY <1>0, <2>1, <2>2, PagesIs
<1> QED BY <1>1, <1>2

(* A size within the bound covers only pages of a table.                   *)
LEMMA PagesFit ==
  ASSUME NEW s \in 0 .. MaxSz
  PROVE  /\ Pages(s) \in Nat
         /\ \A v \in Nat : v < Pages(s) => v \in VPage
<1>0. PGSIZE \in Int /\ PGSIZE > 0 /\ MaxSz \in Nat /\ s \in Nat /\ s <= MaxSz
  BY MemAssumption
<1> DEFINE d == MaxSz \div PGSIZE
<1>1. d \in Int /\ MaxSz < d * PGSIZE + PGSIZE
  BY <1>0, DivIs
<1>2. ASSUME NEW v \in Nat, v < Pages(s) PROVE v <= d
  <2>1. v * PGSIZE < s /\ v * PGSIZE \in Int
    BY <1>0, <1>2, PagesIs
  <2> SUFFICES ASSUME d < v PROVE FALSE
    BY <1>1
  <2> HIDE DEF d
  <2>2. d * PGSIZE + PGSIZE <= v * PGSIZE /\ d * PGSIZE \in Int
    BY <1>0, <1>1, MulMono
  <2> QED BY <1>0, <1>1, <2>1, <2>2
<1> QED BY <1>0, <1>1, <1>2, PagesIs DEF VPage

(* PGROUNDUP() covers the same pages, and no less than the size.           *)
LEMMA RoundUp ==
  ASSUME NEW s \in Nat
  PROVE  Pages(PGROUNDUP(s)) = Pages(s) /\ s <= PGROUNDUP(s) /\ PGROUNDUP(s) \in Nat
<1>0. PGSIZE \in Int /\ PGSIZE > 0
  BY MemAssumption
<1> DEFINE z == PGROUNDUP(s)
<1>1. z \in Nat /\ z = Pages(s) * PGSIZE /\ Pages(s) \in Nat
  BY PagesIs
<1> HIDE DEF z
<1>2. s <= z
  <2>1. Pages(s) < Pages(s) <=> Pages(s) * PGSIZE < s
    BY <1>1, PagesIs
  <2> QED BY <1>1, <2>1
<1>3. Pages(s) <= Pages(z) /\ Pages(z) \in Nat
  BY <1>1, <1>2, PagesMono, PagesIs
<1>4. ~(Pages(s) < Pages(z))
  <2>1. Pages(s) < Pages(z) <=> Pages(s) * PGSIZE < z
    BY <1>1, PagesIs
  <2> QED BY <1>1, <2>1
<1> QED BY <1>1, <1>2, <1>3, <1>4 DEF z

-----------------------------------------------------------------------------
(* Address spaces: the pages of a table are those its size covers.         *)

Sized(pt, s) == \A v \in VPage : pt.page[v] # 0 <=> v < Pages(s)

Same(qt, pt) == qt.root = pt.root /\ qt.hi = pt.hi /\ qt.high = pt.high

(* What uvmalloc() returns: the new size, or 0 and the old pages.          *)
Grew(r, pt, oldsz, newsz, all) ==
  /\ r = [f |-> r.f, pt |-> r.pt, sz |-> r.sz] /\ r.sz \in 0 .. MaxSz
  /\ Share(r.f, r.pt, all) /\ Same(r.pt, pt)
  /\ r.sz # 0 => Sized(r.pt, r.sz) /\ r.sz \in {oldsz, newsz}
  /\ r.sz = 0 => Sized(r.pt, oldsz)

LEMMA UvmallocGrows ==
  ASSUME NEW f, NEW pt, NEW all, NEW oldsz \in 0 .. MaxSz, NEW newsz \in 0 .. MaxSz,
         Share(f, pt, all), Sized(pt, oldsz)
  PROVE  Grew(uvmalloc(f, pt, oldsz, newsz), pt, oldsz, newsz, all)
<1> DEFINE r == uvmalloc(f, pt, oldsz, newsz)
<1> SUFFICES Grew(r, pt, oldsz, newsz, all)
  OBVIOUS
<1>0. MaxSz \in Nat /\ oldsz \in Nat /\ newsz \in Nat /\ oldsz <= MaxSz /\ newsz <= MaxSz
  BY MemAssumption
<1>1. CASE newsz < oldsz
  <2>1. r = [f |-> f, pt |-> pt, sz |-> oldsz]
    BY <1>1 DEF uvmalloc
  <2> HIDE DEF r
  <2>2. r.f = f /\ r.pt = pt /\ r.sz = oldsz /\ r = [f |-> r.f, pt |-> r.pt, sz |-> r.sz]
    BY <2>1
  <2> QED BY <1>0, <2>2 DEF Grew, Same
<1>2. CASE oldsz <= newsz
  <2> DEFINE a == Pages(oldsz)
             b == Pages(newsz)
             c == AddPages(f, pt, a, b)
             z == IF c.ok THEN newsz ELSE 0
  <2>1. a \in Nat /\ b \in Nat /\ a <= b /\ \A v \in Nat : v < b => v \in VPage
    BY <1>0, <1>2, PagesMono, PagesFit
  <2>2. a .. b - 1 \subseteq VPage /\ \A v \in a .. b - 1 : pt.page[v] = 0
    BY <2>1 DEF Sized
  <2>3. Added(c, pt, a, b, all)
    BY <2>1, <2>2, AddPagesAdded
  <2>4. r = [f |-> c.f, pt |-> c.pt, sz |-> z]
    BY <1>0, <1>2 DEF uvmalloc, Grown
  <2> HIDE DEF r, c
  <2>5. r.f = c.f /\ r.pt = c.pt /\ r.sz = z /\ r = [f |-> r.f, pt |-> r.pt, sz |-> r.sz]
    BY <2>4
  <2>6. /\ Share(c.f, c.pt, all) /\ Same(c.pt, pt) /\ c.ok \in BOOLEAN
        /\ \A v \in VPage : IF c.ok /\ v \in a .. b - 1 THEN c.pt.page[v] # 0
                                                        ELSE c.pt.page[v] = pt.page[v]
    BY <2>3 DEF Added, Same
  <2>7. c.ok => Sized(c.pt, newsz)
    BY <2>1, <2>6, PageNat DEF Sized
  <2>8. ~c.ok => Sized(c.pt, oldsz)
    BY <2>6 DEF Sized
  <2>9. c.ok /\ newsz = 0 => Sized(c.pt, oldsz)
    BY <1>0, <1>2, <2>7
  <2> QED BY <1>0, <2>5, <2>6, <2>7, <2>8, <2>9 DEF Grew
<1> QED BY <1>0, <1>1, <1>2

(* What uvmdealloc() returns.                                              *)
Shrank(r, pt, all) ==
  /\ r = [f |-> r.f, pt |-> r.pt, sz |-> r.sz] /\ r.sz \in 0 .. MaxSz
  /\ Share(r.f, r.pt, all) /\ Same(r.pt, pt) /\ Sized(r.pt, r.sz)

LEMMA UvmdeallocShrinks ==
  ASSUME NEW f, NEW pt, NEW all, NEW oldsz \in 0 .. MaxSz, NEW newsz \in 0 .. MaxSz,
         Share(f, pt, all), Sized(pt, oldsz)
  PROVE  Shrank(uvmdealloc(f, pt, oldsz, newsz), pt, all)
<1> DEFINE r == uvmdealloc(f, pt, oldsz, newsz)
<1> SUFFICES Shrank(r, pt, all)
  OBVIOUS
<1>0. MaxSz \in Nat /\ oldsz \in Nat /\ newsz \in Nat /\ pt \in Table
  BY MemAssumption DEF Share
<1>1. CASE newsz >= oldsz
  <2>1. r = [f |-> f, pt |-> pt, sz |-> oldsz]
    BY <1>1 DEF uvmdealloc
  <2> HIDE DEF r
  <2>2. r.f = f /\ r.pt = pt /\ r.sz = oldsz /\ r = [f |-> r.f, pt |-> r.pt, sz |-> r.sz]
    BY <2>1
  <2> QED BY <1>0, <2>2 DEF Shrank, Same
<1>2. CASE newsz < oldsz
  <2> DEFINE a == Pages(newsz)
             b == Pages(oldsz)
             s == [f |-> f, pt |-> pt]
             g == kfree(f, Dropped(pt, a, b))
             u == Unmapped(pt, a, b)
  <2>1. a \in Nat /\ b \in Nat /\ a <= b /\ \A v \in Nat : v < b => v \in VPage
    BY <1>0, <1>2, PagesMono, PagesFit
  <2>2. a .. b - 1 \subseteq VPage
    BY <2>1
  <2>3. uvmunmap(s, a, b) = [f |-> g, pt |-> u]
    <3> HIDE DEF s, a, b
    <3>1. s = [f |-> f, pt |-> pt]
      BY DEF s
    <3> QED BY <3>1, UnmapTwo
  <2>4. r = [f |-> uvmunmap(s, a, b).f, pt |-> uvmunmap(s, a, b).pt, sz |-> newsz]
    BY <1>0, <1>2 DEF uvmdealloc
  <2>5. Share(g, u, all)
    BY <2>1, <2>2, UnmapShares
  <2>6. Same(u, pt) /\ \A v \in VPage : u.page[v] = IF v \in a .. b - 1 THEN 0 ELSE pt.page[v]
    BY <1>0, <2>1, <2>2, UnmapTable DEF Same
  <2> HIDE DEF r, g, u, s
  <2>7. r = [f |-> g, pt |-> u, sz |-> newsz]
    BY <2>3, <2>4
  <2>8. r.f = g /\ r.pt = u /\ r.sz = newsz /\ r = [f |-> r.f, pt |-> r.pt, sz |-> r.sz]
    BY <2>7
  <2>9. Sized(u, newsz)
    BY <2>1, <2>6, PageNat DEF Sized
  <2> QED BY <1>0, <2>5, <2>6, <2>8, <2>9 DEF Shrank
<1> QED BY <1>0, <1>1, <1>2

(* A table that is not there holds no page.                                *)
LEMMA NoTableIs ==
  /\ NoTable \in Table /\ Held(NoTable) = {} /\ Once(NoTable) /\ Sized(NoTable, 0)
  /\ NoTable.root = 0 /\ NoTable.hi = 0 /\ NoTable.lo = 0
  /\ \A v \in VPage : NoTable.page[v] = 0
<1>1. /\ NoTable \in Table
      /\ NoTable.root = 0 /\ NoTable.hi = 0 /\ NoTable.lo = 0
      /\ \A v \in VPage : NoTable.page[v] = 0
  BY DEF NoTable, Table, Page0
<1>2. Held(NoTable) = {} /\ Once(NoTable)
  BY <1>1 DEF Held, Once
<1>3. Sized(NoTable, 0)
  BY <1>1, PageNat, PagesAt DEF Sized
<1> QED BY <1>1, <1>2, <1>3

(* What proc_pagetable() returns.                                          *)
Made(r, f) ==
  /\ Share(r.f, r.pt, f) /\ Sized(r.pt, 0)
  /\ r.pt.root # 0 => r.pt.high /\ r.pt.lo = 0
  /\ r.pt.root = 0 => r.f = f

LEMMA ProcPagetableMakes ==
  ASSUME NEW f \in SUBSET Page
  PROVE  /\ Made(proc_pagetable(f), f)
         /\ (\E a, b \in f : a # b) =>
              \E a, b \in f : /\ a # b /\ proc_pagetable(f).f = f \ {a, b}
                              /\ proc_pagetable(f).pt.root # 0
<1> DEFINE r == proc_pagetable(f)
           root == kalloc(f)
           hi == kalloc(f \ {root})
           x == [NoTable EXCEPT !.root = root, !.hi = hi, !.high = TRUE]
<1>0. f \ {root} \in SUBSET Page
  OBVIOUS
<1>1. CASE root = 0 \/ hi = 0
  <2>1. r = [f |-> f, pt |-> NoTable]
    BY <1>1 DEF proc_pagetable
  <2>2. r.f = f /\ r.pt = NoTable
    BY <2>1
  <2>3. ~ \E a, b \in f : a # b
    BY <1>0, <1>1, KallocIs
  <2> HIDE DEF r
  <2>4. Made(r, f)
    BY <2>2, NoTableIs DEF Made, Share
  <2> QED BY <2>3, <2>4 DEF r
<1>2. CASE root # 0 /\ hi # 0
  <2>1. r = [f |-> f \ {root, hi}, pt |-> x]
    BY <1>2 DEF proc_pagetable
  <2>2. root \in f /\ hi \in f /\ root # hi /\ root \in Page /\ hi \in Page
    BY <1>0, <1>2, KallocIs
  <2> HIDE DEF root, hi
  <2>3. /\ x \in Table /\ x.root = root /\ x.hi = hi /\ x.lo = 0 /\ x.high
        /\ \A v \in VPage : x.page[v] = 0
    BY <2>2, Zenon DEF NoTable, Table, Page0
  <2> HIDE DEF r, x
  <2>4. r.f = f \ {root, hi} /\ r.pt = x
    BY <2>1
  <2>5. Held(x) = {root, hi} /\ Once(x)
    BY <1>2, <2>2, <2>3 DEF Held, Once
  <2>6. Share(r.f, x, f)
    BY <2>2, <2>3, <2>4, <2>5 DEF Share
  <2>7. Sized(x, 0)
    BY <2>3, PageNat, PagesAt DEF Sized
  <2>8. Made(r, f)
    BY <1>2, <2>3, <2>4, <2>6, <2>7 DEF Made
  <2>9. \E a, b \in f : a # b /\ r.f = f \ {a, b} /\ r.pt.root # 0
    BY <1>2, <2>2, <2>3, <2>4
  <2> QED BY <2>8, <2>9 DEF r
<1> QED BY <1>1, <1>2

(* proc_freepagetable() gives everything back.                             *)
LEMMA FreePagetable ==
  ASSUME NEW f, NEW pt, NEW all, NEW s \in 0 .. MaxSz, Share(f, pt, all), Sized(pt, s)
  PROVE  proc_freepagetable(f, pt, s) = all
<1> DEFINE b == Pages(s)
           r == [f |-> f, pt |-> pt]
           D == Dropped(pt, 0, b)
<1>0. pt \in Table /\ f \cup Held(pt) = all /\ b \in Nat /\ \A v \in Nat : v < b => v \in VPage
  BY PagesFit DEF Share
<1>1. uvmunmap(r, 0, b) = [f |-> kfree(f, D), pt |-> Unmapped(pt, 0, b)]
  <2> HIDE DEF r, b
  <2>1. r = [f |-> f, pt |-> pt]
    BY DEF r
  <2> QED BY <2>1, UnmapTwo
<1>2. uvmunmap(r, 0, b).f = kfree(f, D)
  <2> HIDE DEF r, D, b
  <2> QED BY <1>1
<1>3. proc_freepagetable(f, pt, s) = kfree(kfree(f, D), {pt.root, pt.hi, pt.lo})
  BY <1>2, Zenon DEF proc_freepagetable
<1>4. \A v \in VPage : pt.page[v] # 0 => v \in 0 .. b - 1
  BY <1>0, PageNat DEF Sized
<1>5. \A v \in 0 .. b - 1 : v \in VPage
  BY <1>0
<1>6. Held(pt) = (D \cup {pt.root, pt.hi, pt.lo}) \ {0}
  BY <1>4, <1>5 DEF Held, Dropped
<1> HIDE DEF D
<1> QED BY <1>0, <1>3, <1>6 DEF kfree

-----------------------------------------------------------------------------
(* exec(): the image as far as it got, built from the free pages f, and    *)
(* one whose size leaves room for the stack.                               *)

Fits == {n \in 0 .. MaxSz : PGROUNDUP(n) + 2 * PGSIZE <= MaxSz}

Built(r, f) ==
  /\ r = [f |-> r.f, pt |-> r.pt, sz |-> r.sz, ok |-> r.ok]
  /\ r.sz \in 0 .. MaxSz /\ r.ok \in BOOLEAN
  /\ Share(r.f, r.pt, f) /\ Sized(r.pt, r.sz)
  /\ r.pt.root # 0 => r.pt.high
  /\ r.ok => r.pt.root # 0

LEMMA ZeroFits == 0 \in Fits /\ Fits \in SUBSET (0 .. MaxSz)
<1>1. PGROUNDUP(0) = 0 * PGSIZE
  BY PagesIs, PagesAt
<1> QED BY <1>1, MemAssumption DEF Fits

LEMMA SegBuilds ==
  ASSUME NEW r, NEW f, NEW seg \in 0 .. MaxSz, Built(r, f), r.ok
  PROVE  Built(Seg(r, seg), f) /\ Seg(r, seg).sz \in {r.sz, seg}
<1> DEFINE a == uvmalloc(r.f, r.pt, r.sz, seg)
           s == Seg(r, seg)
           z == IF a.sz # 0 THEN a.sz ELSE r.sz
           k == (a.sz # 0)
<1>0. Share(r.f, r.pt, f) /\ Sized(r.pt, r.sz) /\ r.sz \in 0 .. MaxSz /\ r.pt.root # 0 /\ r.pt.high
  BY DEF Built
<1>1. Grew(a, r.pt, r.sz, seg, f)
  BY <1>0, UvmallocGrows
<1>2. s = [f |-> a.f, pt |-> a.pt, sz |-> z, ok |-> k]
  BY Zenon DEF Seg
<1> HIDE DEF a, s
<1>3. /\ Share(a.f, a.pt, f) /\ Same(a.pt, r.pt) /\ a.sz \in 0 .. MaxSz
      /\ k => Sized(a.pt, a.sz) /\ a.sz \in {r.sz, seg}
      /\ ~k => Sized(a.pt, r.sz)
  BY <1>1 DEF Grew
<1>4. z \in 0 .. MaxSz /\ z \in {r.sz, seg} /\ Sized(a.pt, z) /\ k \in BOOLEAN
  BY <1>0, <1>3
<1> HIDE DEF z, k
<1>5. s.f = a.f /\ s.pt = a.pt /\ s.sz = z /\ (s.ok = k) /\ s = [f |-> s.f, pt |-> s.pt, sz |-> s.sz, ok |-> s.ok]
  BY <1>2
<1>6. a.pt.root # 0 /\ a.pt.high
  BY <1>0, <1>3 DEF Same
<1>7. Built(s, f)
  BY <1>3, <1>4, <1>5, <1>6 DEF Built
<1> QED BY <1>4, <1>5, <1>7 DEF s

LEMMA SegsLoop ==
  ASSUME NEW t, NEW segs, NEW n \in Nat, NEW Good, NEW Turn,
         <<0, [f |-> t.f, pt |-> t.pt, sz |-> 0, ok |-> (t.pt.root # 0)]>> \in Good,
         Closed(Good, Turn, n),
         \A e \in Good : e[1] \in 0 .. n - 1 =>
           Turn[e] = IF e[2].ok THEN Seg(e[2], segs[e[1] + 1]) ELSE e[2]
  PROVE  <<n, Segs(t, segs, n)>> \in Good
<1> DEFINE base == [f |-> t.f, pt |-> t.pt, sz |-> 0, ok |-> (t.pt.root # 0)]
           B(x, k) == IF x.ok THEN Seg(x, segs[k]) ELSE x
           L(g) == [k \in 0 .. n |-> IF k = 0 THEN base ELSE B(g[k - 1], k)]
<1>1. Segs(t, segs, n) = (CHOOSE g : g = L(g))[n]
  BY DEF Segs
<1>b. <<0, base>> \in Good
  OBVIOUS
<1>c. \A e \in Good : e[1] \in 0 .. n - 1 => Turn[e] = B(e[2], e[1] + 1)
  BY Zenon
<1> HIDE DEF base, B
<1>2. \E g : g = L(g)
  <2>0. PICK h : Turns(h, base, Good, Turn, n)
    BY <1>b, LoopExists
  <2>1. /\ h = [k \in 0 .. n |-> h[k]]
        /\ h[0] = base
        /\ \A k \in 0 .. n : <<k, h[k]>> \in Good
        /\ \A k \in 1 .. n : h[k] = Turn[<<k - 1, h[k - 1]>>]
    BY <2>0, Zenon DEF Turns
  <2>2. \A k \in 0 .. n : k # 0 => h[k] = B(h[k - 1], k)
    <3> SUFFICES ASSUME NEW k \in 0 .. n, k # 0 PROVE h[k] = B(h[k - 1], k)
      OBVIOUS
    <3>1. k \in 1 .. n /\ k - 1 \in 0 .. n - 1 /\ k - 1 \in 0 .. n /\ (k - 1) + 1 = k
      OBVIOUS
    <3>2. <<k - 1, h[k - 1]>> \in Good /\ h[k] = Turn[<<k - 1, h[k - 1]>>]
      BY <2>1, <3>1, Zenon
    <3>3. Turn[<<k - 1, h[k - 1]>>] = B(h[k - 1], (k - 1) + 1)
      BY <1>c, <3>1, <3>2
    <3> QED BY <3>1, <3>2, <3>3
  <2>3. h = L(h)
    <3>1. \A k \in 0 .. n : h[k] = IF k = 0 THEN base ELSE B(h[k - 1], k)
      BY <2>1, <2>2, Zenon
    <3> QED BY <3>1, <2>1, Zenon
  <2> QED BY <2>3
<1>3. PICK g : g = L(g) /\ Segs(t, segs, n) = g[n]
  BY <1>1, <1>2, Zenon
<1>4. g[0] = base /\ \A k \in 1 .. n : g[k] = B(g[k - 1], k)
  <2>1. \A k \in 0 .. n : g[k] = IF k = 0 THEN base ELSE B(g[k - 1], k)
    <3>1. \A k \in 0 .. n : g[k] = L(g)[k]
      BY <1>3, Zenon
    <3>2. \A k \in 0 .. n : L(g)[k] = IF k = 0 THEN base ELSE B(g[k - 1], k)
      BY Zenon
    <3> HIDE DEF L
    <3> QED BY <3>1, <3>2
  <2> HIDE DEF L
  <2>2. 0 \in 0 .. n /\ \A k \in 1 .. n : k \in 0 .. n /\ k # 0
    OBVIOUS
  <2> QED BY <2>1, <2>2, Zenon
<1>5. \A k \in 1 .. n : <<k - 1, g[k - 1]>> \in Good => g[k] = Turn[<<k - 1, g[k - 1]>>]
  <2> SUFFICES ASSUME NEW k \in 1 .. n, <<k - 1, g[k - 1]>> \in Good
               PROVE  g[k] = Turn[<<k - 1, g[k - 1]>>]
    BY Zenon
  <2>1. k - 1 \in 0 .. n - 1 /\ (k - 1) + 1 = k
    OBVIOUS
  <2>2. Turn[<<k - 1, g[k - 1]>>] = B(g[k - 1], (k - 1) + 1)
    BY <1>c, <2>1
  <2> QED BY <2>1, <2>2, <1>4
<1>6. <<n, g[n]>> \in Good
  <2>1. <<0, g[0]>> \in Good
    BY <1>4, <1>b
  <2> QED BY <2>1, <1>5, LoopKeeps, Zenon
<1> QED BY <1>3, <1>6

LEMMA SegsBuild ==
  ASSUME NEW t, NEW f, NEW segs \in Seq(Fits), NEW n \in 0 .. Len(segs), Made(t, f)
  PROVE  Built(Segs(t, segs, n), f) /\ Segs(t, segs, n).sz \in Fits
<1> DEFINE Image4 == [f: SUBSET Page, pt: Table, sz: 0 .. MaxSz, ok: BOOLEAN]
           Good == {e \in (0 .. n) \X Image4 : Built(e[2], f) /\ e[2].sz \in Fits}
           Turn == [e \in Good |-> IF e[2].ok THEN Seg(e[2], segs[e[1] + 1]) ELSE e[2]]
           k == (t.pt.root # 0)
           b == [f |-> t.f, pt |-> t.pt, sz |-> 0, ok |-> k]
<1>0. n \in Nat /\ Len(segs) \in Nat /\ n <= Len(segs) /\ \A j \in 1 .. n : segs[j] \in Fits
  OBVIOUS
<1>a. ASSUME NEW r, Built(r, f) PROVE r \in Image4
  BY <1>a DEF Built, Share
<1>1. <<0, b>> \in Good
  <2>1. Share(t.f, t.pt, f) /\ Sized(t.pt, 0) /\ (k => t.pt.high)
    BY DEF Made
  <2>2. k \in BOOLEAN /\ (k <=> t.pt.root # 0)
    OBVIOUS
  <2> HIDE DEF k
  <2>3. b.f = t.f /\ b.pt = t.pt /\ b.sz = 0 /\ (b.ok = k)
        /\ b = [f |-> b.f, pt |-> b.pt, sz |-> b.sz, ok |-> b.ok]
    OBVIOUS
  <2> HIDE DEF b
  <2>4. Built(b, f) /\ b.sz \in Fits
    BY <2>1, <2>2, <2>3, ZeroFits DEF Built
  <2>5. 0 \in 0 .. n /\ b \in Image4
    BY <1>0, <1>a, <2>4
  <2> HIDE DEF Image4
  <2> QED BY <2>4, <2>5
<1>2. Closed(Good, Turn, n)
  <2> SUFFICES ASSUME NEW e \in Good, e[1] \in 0 .. n - 1
               PROVE  <<e[1] + 1, Turn[e]>> \in Good
    BY Zenon DEF Closed
  <2> DEFINE r == e[2]
             j == e[1] + 1
             y == IF r.ok THEN Seg(r, segs[j]) ELSE r
  <2>1. Built(r, f) /\ r.sz \in Fits
    OBVIOUS
  <2>2. j \in 0 .. n /\ j \in 1 .. n /\ segs[j] \in Fits
    BY <1>0
  <2>3. Turn[e] = y
    BY Zenon
  <2> HIDE DEF r, j
  <2>4. Built(y, f) /\ y.sz \in Fits
    <3>1. CASE r.ok
      BY <2>1, <2>2, <3>1, ZeroFits, SegBuilds, ZenonT(30)
    <3>2. CASE ~r.ok
      BY <2>1, <3>2
    <3> QED BY <3>1, <3>2
  <2> HIDE DEF y
  <2>5. y \in Image4
    BY <1>a, <2>4
  <2> HIDE DEF Turn, Image4
  <2> QED BY <2>2, <2>3, <2>4, <2>5 DEF j
<1>3. \A e \in Good : e[1] \in 0 .. n - 1 =>
        Turn[e] = IF e[2].ok THEN Seg(e[2], segs[e[1] + 1]) ELSE e[2]
  BY Zenon
<1> HIDE DEF Turn, Good
<1>4. <<n, Segs(t, segs, n)>> \in Good
  BY <1>0, <1>1, <1>2, <1>3, SegsLoop
<1> QED BY <1>4 DEF Good

LEMMA ImageBuilt ==
  ASSUME NEW f \in SUBSET Page, NEW segs \in Seq(Fits), NEW n \in 0 .. Len(segs)
  PROVE  Built(Image(f, segs, n), f)
<1> DEFINE r == Segs(proc_pagetable(f), segs, n)
           q == [r EXCEPT !.sz = PGROUNDUP(@)]
           top == PGROUNDUP(r.sz) + 2 * PGSIZE
           i == Image(f, segs, n)
<1>1. Built(r, f) /\ r.sz \in Fits
  BY ProcPagetableMakes, SegsBuild
<1>2. i = IF r.ok /\ n = Len(segs) THEN Seg(q, top) ELSE [r EXCEPT !.ok = FALSE]
  BY Zenon DEF Image
<1> HIDE DEF r, i
<1>3. /\ r = [f |-> r.f, pt |-> r.pt, sz |-> r.sz, ok |-> r.ok] /\ r.ok \in BOOLEAN
      /\ Share(r.f, r.pt, f) /\ Sized(r.pt, r.sz) /\ (r.pt.root # 0 => r.pt.high)
      /\ (r.ok => r.pt.root # 0) /\ r.sz \in 0 .. MaxSz /\ r.sz \in Nat /\ MaxSz \in Nat
  BY <1>1, MemAssumption DEF Built
<1>4. /\ PGROUNDUP(r.sz) \in Nat /\ PGROUNDUP(r.sz) <= MaxSz /\ top \in 0 .. MaxSz
      /\ Pages(PGROUNDUP(r.sz)) = Pages(r.sz)
  BY <1>1, <1>3, RoundUp, MemAssumption DEF Fits
<1>5. CASE r.ok /\ n = Len(segs)
  <2> DEFINE z == PGROUNDUP(r.sz)
  <2> HIDE DEF z
  <2>1. q = [f |-> r.f, pt |-> r.pt, sz |-> z, ok |-> r.ok]
    BY <1>3 DEF z
  <2> HIDE DEF q
  <2>2. q.f = r.f /\ q.pt = r.pt /\ q.sz = z /\ (q.ok = r.ok)
        /\ q = [f |-> q.f, pt |-> q.pt, sz |-> q.sz, ok |-> q.ok]
    BY <2>1
  <2>3. Sized(q.pt, z) /\ z \in 0 .. MaxSz
    BY <1>3, <1>4, <2>2 DEF Sized, z
  <2>4. Built(q, f) /\ q.ok
    BY <1>3, <1>5, <2>2, <2>3 DEF Built
  <2>5. Built(Seg(q, top), f)
    <3> HIDE DEF top
    <3> QED BY <1>4, <2>4, SegBuilds
  <2> QED BY <1>2, <1>5, <2>5 DEF i
<1>6. CASE ~(r.ok /\ n = Len(segs))
  <2> DEFINE no == FALSE
  <2>1. no \in BOOLEAN /\ ~no
    OBVIOUS
  <2>2. i = [r EXCEPT !.ok = no]
    BY <1>2, <1>6
  <2> HIDE DEF no
  <2>3. i = [f |-> r.f, pt |-> r.pt, sz |-> r.sz, ok |-> no]
    BY <1>3, <2>2
  <2>4. i.f = r.f /\ i.pt = r.pt /\ i.sz = r.sz /\ (i.ok = no)
        /\ i = [f |-> i.f, pt |-> i.pt, sz |-> i.sz, ok |-> i.ok]
    BY <2>3
  <2>5. Built(i, f)
    BY <1>3, <2>1, <2>4 DEF Built
  <2> QED BY <2>5 DEF i
<1> QED BY <1>5, <1>6

LEMMA ArgPagesFree ==
  ASSUME NEW f \in SUBSET Page, NEW argc \in Nat
  PROVE  ArgPages(f, argc) \in SUBSET f
<1> DEFINE B(x) == x \cup ({kalloc(f \ x)} \ {0})
           L(g) == [k \in 0 .. argc |-> IF k = 0 THEN {} ELSE B(g[k - 1])]
           Good == (0 .. argc) \X SUBSET f
           Turn == [e \in Good |-> B(e[2])]
<1>1. ArgPages(f, argc) = (CHOOSE g : g = L(g))[argc]
  BY DEF ArgPages
<1>a. \A x \in SUBSET f : B(x) \in SUBSET f
  <2> SUFFICES ASSUME NEW x \in SUBSET f PROVE B(x) \in SUBSET f
    OBVIOUS
  <2>1. f \ x \in SUBSET Page
    OBVIOUS
  <2> QED BY <2>1, KallocIs
<1> HIDE DEF B
<1>b. <<0, {}>> \in Good
  OBVIOUS
<1>c. \A e \in Good : Turn[e] = B(e[2])
  OBVIOUS
<1>d. Closed(Good, Turn, argc)
  <2> SUFFICES ASSUME NEW e \in Good, e[1] \in 0 .. argc - 1
               PROVE  <<e[1] + 1, Turn[e]>> \in Good
    BY Zenon DEF Closed
  <2>1. e[1] + 1 \in 0 .. argc /\ B(e[2]) \in SUBSET f
    BY <1>a
  <2> QED BY <1>c, <2>1
<1>e. \A k : \A x : <<k, x>> \in Good => Turn[<<k, x>>] = B(x)
  BY <1>c
<1>f. \A x : <<argc, x>> \in Good => x \in SUBSET f
  OBVIOUS
<1> HIDE DEF Good, Turn
<1>2. \E g : g = L(g)
  <2>0. PICK h : Turns(h, {}, Good, Turn, argc)
    BY <1>b, <1>d, LoopExists
  <2>1. /\ h = [k \in 0 .. argc |-> h[k]]
        /\ h[0] = {}
        /\ \A k \in 0 .. argc : <<k, h[k]>> \in Good
        /\ \A k \in 1 .. argc : h[k] = Turn[<<k - 1, h[k - 1]>>]
    BY <2>0, ZenonT(30) DEF Turns
  <2>2. \A k \in 0 .. argc : k # 0 => h[k] = B(h[k - 1])
    <3> SUFFICES ASSUME NEW k \in 0 .. argc, k # 0 PROVE h[k] = B(h[k - 1])
      OBVIOUS
    <3>1. k \in 1 .. argc /\ k - 1 \in 0 .. argc
      OBVIOUS
    <3>2. <<k - 1, h[k - 1]>> \in Good /\ h[k] = Turn[<<k - 1, h[k - 1]>>]
      BY <2>1, <3>1, Zenon
    <3> QED BY <1>e, <3>2
  <2>3. h = L(h)
    <3>1. \A k \in 0 .. argc : h[k] = IF k = 0 THEN {} ELSE B(h[k - 1])
      BY <2>1, <2>2
    <3> QED BY <3>1, <2>1, Zenon
  <2> QED BY <2>3
<1>3. PICK g : g = L(g) /\ ArgPages(f, argc) = g[argc]
  BY <1>1, <1>2, Zenon
<1>4. g[0] = {} /\ \A k \in 1 .. argc : g[k] = B(g[k - 1])
  <2>1. \A k \in 0 .. argc : g[k] = IF k = 0 THEN {} ELSE B(g[k - 1])
    <3>1. \A k \in 0 .. argc : g[k] = L(g)[k]
      BY <1>3, Zenon
    <3>2. \A k \in 0 .. argc : L(g)[k] = IF k = 0 THEN {} ELSE B(g[k - 1])
      BY Zenon
    <3> HIDE DEF L
    <3> QED BY <3>1, <3>2
  <2> HIDE DEF L
  <2>2. 0 \in 0 .. argc /\ \A k \in 1 .. argc : k \in 0 .. argc /\ k # 0
    OBVIOUS
  <2> QED BY <2>1, <2>2, Zenon
<1>5. \A k \in 1 .. argc : <<k - 1, g[k - 1]>> \in Good => g[k] = Turn[<<k - 1, g[k - 1]>>]
  BY <1>4, <1>e
<1>6. <<argc, g[argc]>> \in Good
  <2>1. <<0, g[0]>> \in Good
    BY <1>4, <1>b
  <2> QED BY <2>1, <1>5, <1>d, LoopKeeps, Zenon
<1> QED BY <1>3, <1>6, <1>f

-----------------------------------------------------------------------------
(* The invariant: the free pages and those of the processes make up the    *)
(* machine's, and no two of them share a page.                             *)

Space == [tf: Page0, pt: Table, sz: 0 .. MaxSz]

HeldBy(s) == Held(s.pt) \cup ({s.tf} \ {0})

SpaceOK(s) ==
  /\ s \in Space /\ Once(s.pt) /\ s.tf \notin Held(s.pt) /\ Sized(s.pt, s.sz)
  /\ s.tf # 0 => s.pt.root # 0 /\ s.pt.high
  /\ s.tf = 0 => s = NoSpace

MemInv ==
  /\ freelist \in SUBSET Page
  /\ as = [p \in MemProc |-> as[p]]
  /\ \A p \in MemProc : SpaceOK(as[p]) /\ freelist \cap HeldBy(as[p]) = {}
  /\ \A p, q \in MemProc : p # q => HeldBy(as[p]) \cap HeldBy(as[q]) = {}
  /\ \A a \in Page : a \in freelist \/ \E p \in MemProc : a \in HeldBy(as[p])

(* A call of process p trades pages with the free list only.               *)
Trade(p, g, s) ==
  /\ g \in SUBSET Page /\ SpaceOK(s)
  /\ g \cap HeldBy(s) = {} /\ g \cup HeldBy(s) = freelist \cup HeldBy(as[p])

LEMMA TradeKeeps ==
  ASSUME MemInv, NEW p \in MemProc, NEW g, NEW s, Trade(p, g, s),
         freelist' = g, as' = [as EXCEPT ![p] = s]
  PROVE  MemInv'
<1>1. as' = [q \in MemProc |-> as'[q]] /\ as'[p] = s /\ \A q \in MemProc : q # p => as'[q] = as[q]
  BY Zenon DEF MemInv
<1>2. /\ freelist' \in SUBSET Page /\ SpaceOK(s)
      /\ freelist' \cap HeldBy(s) = {} /\ freelist' \cup HeldBy(s) = freelist \cup HeldBy(as[p])
  BY Zenon DEF Trade
<1>3. /\ freelist \in SUBSET Page
      /\ \A q \in MemProc : SpaceOK(as[q]) /\ freelist \cap HeldBy(as[q]) = {}
      /\ \A q, r \in MemProc : q # r => HeldBy(as[q]) \cap HeldBy(as[r]) = {}
      /\ \A a \in Page : a \in freelist \/ \E q \in MemProc : a \in HeldBy(as[q])
  BY Zenon DEF MemInv
<1>4. \A q \in MemProc : SpaceOK(as'[q])
  BY <1>1, <1>2, <1>3, Zenon
<1>5. ASSUME NEW q \in MemProc, q # p
      PROVE  freelist' \cap HeldBy(as[q]) = {} /\ HeldBy(s) \cap HeldBy(as[q]) = {}
  BY <1>2, <1>3, <1>5, Zenon
<1>6. \A q \in MemProc : freelist' \cap HeldBy(as'[q]) = {}
  BY <1>1, <1>2, <1>5, Zenon
<1>7. \A q, r \in MemProc : q # r => HeldBy(as'[q]) \cap HeldBy(as'[r]) = {}
  <2>1. \A r \in MemProc : r # p => HeldBy(as'[p]) \cap HeldBy(as'[r]) = {}
    BY <1>1, <1>5, Zenon
  <2>2. \A q \in MemProc : q # p => HeldBy(as'[q]) \cap HeldBy(as'[p]) = {}
    BY <2>1, Zenon
  <2>3. \A q, r \in MemProc : q # p /\ r # p /\ q # r => HeldBy(as'[q]) \cap HeldBy(as'[r]) = {}
    BY <1>1, <1>3, Zenon
  <2> QED BY <2>1, <2>2, <2>3, Zenon
<1>8. ASSUME NEW a \in Page
      PROVE  a \in freelist' \/ \E q \in MemProc : a \in HeldBy(as'[q])
  <2>1. CASE a \in freelist \cup HeldBy(as[p])
    BY <1>1, <1>2, <2>1, Zenon
  <2>2. CASE a \notin freelist \cup HeldBy(as[p])
    BY <1>1, <1>3, <2>2, Zenon
  <2> QED BY <2>1, <2>2, Zenon
<1> QED BY <1>1, <1>2, <1>4, <1>6, <1>7, <1>8, Zenon DEF MemInv

LEMMA StillKeeps == MemInv /\ freelist' = freelist /\ as' = as => MemInv'
  BY Zenon DEF MemInv

LEMMA NoSpaceOK == SpaceOK(NoSpace) /\ HeldBy(NoSpace) = {}
<1>1. NoSpace.tf = 0 /\ NoSpace.pt = NoTable /\ NoSpace.sz = 0
  BY DEF NoSpace
<1>2. NoSpace \in Space
  BY NoTableIs, MemAssumption DEF NoSpace, Space, Page0
<1> QED BY <1>1, <1>2, NoTableIs DEF SpaceOK, HeldBy

LEMMA LiveSpace ==
  ASSUME MemInv, NEW p \in MemProc, Live(p)
  PROVE  LET s == as[p] IN
         /\ s \in Space /\ s.tf \in Page /\ s.tf # 0 /\ s.pt \in Table /\ s.sz \in 0 .. MaxSz
         /\ s.pt.root # 0 /\ s.pt.high /\ Sized(s.pt, s.sz)
         /\ s.tf \notin freelist /\ s.tf \notin Held(s.pt)
         /\ Share(freelist, s.pt, freelist \cup Held(s.pt))
         /\ HeldBy(s) = Held(s.pt) \cup {s.tf}
<1> DEFINE s == as[p]
<1>1. /\ freelist \in SUBSET Page /\ SpaceOK(s) /\ freelist \cap HeldBy(s) = {} /\ s.tf # 0
  BY Zenon DEF MemInv, Live
<1> HIDE DEF s
<1>2. /\ s \in Space /\ s.tf \in Page /\ s.pt \in Table /\ s.sz \in 0 .. MaxSz
      /\ s.pt.root # 0 /\ s.pt.high /\ Sized(s.pt, s.sz) /\ Once(s.pt) /\ s.tf \notin Held(s.pt)
  BY <1>1 DEF SpaceOK, Space, Page0
<1>3. HeldBy(s) = Held(s.pt) \cup {s.tf}
  BY <1>1 DEF HeldBy
<1>4. Share(freelist, s.pt, freelist \cup Held(s.pt)) /\ s.tf \notin freelist
  BY <1>1, <1>2, <1>3 DEF Share
<1> QED BY <1>1, <1>2, <1>3, <1>4, Zenon DEF s

(* A space made of a trap frame and of a table that shares all.            *)
LEMMA NewSpace ==
  ASSUME NEW p \in MemProc, NEW g, NEW qt, NEW all, NEW tf \in Page, NEW z \in 0 .. MaxSz,
         Share(g, qt, all), Sized(qt, z), qt.root # 0, qt.high, tf \notin all,
         all \cup {tf} = freelist \cup HeldBy(as[p])
  PROVE  Trade(p, g, [tf |-> tf, pt |-> qt, sz |-> z])
<1> DEFINE s == [tf |-> tf, pt |-> qt, sz |-> z]
<1>1. tf # 0 /\ g \in SUBSET Page /\ qt \in Table /\ Once(qt) /\ g \cap Held(qt) = {}
      /\ g \cup Held(qt) = all
  BY PageNat DEF Share
<1>2. s.tf = tf /\ s.pt = qt /\ s.sz = z /\ s \in Space
  BY <1>1, Zenon DEF Space, Page0
<1> HIDE DEF s
<1>3. HeldBy(s) = Held(qt) \cup {tf}
  BY <1>1, <1>2 DEF HeldBy
<1>4. SpaceOK(s)
  BY <1>1, <1>2 DEF SpaceOK
<1>5. Trade(p, g, s)
  BY <1>1, <1>3, <1>4, Zenon DEF Trade
<1> QED BY <1>5 DEF s

LEMMA ReapKeeps ==
  ASSUME MemInv, NEW p \in MemProc, Reap(p)
  PROVE  MemInv'
<1> DEFINE s == as[p]
           f == kfree(freelist, {s.tf})
           g == freeproc(freelist, s)
<1>0. Live(p) /\ freelist' = g /\ as' = [as EXCEPT ![p] = NoSpace]
  BY DEF Reap
<1>1. /\ s.tf \in Page /\ s.tf # 0 /\ s.sz \in 0 .. MaxSz
      /\ s.pt.root # 0 /\ Sized(s.pt, s.sz)
      /\ s.tf \notin freelist /\ s.tf \notin Held(s.pt)
      /\ Share(freelist, s.pt, freelist \cup Held(s.pt))
      /\ HeldBy(s) = Held(s.pt) \cup {s.tf}
  BY <1>0, LiveSpace, Zenon
<1>2. f = freelist \cup {s.tf}
  BY <1>1, Zenon DEF kfree
<1>3. g = proc_freepagetable(f, s.pt, s.sz)
  BY <1>1, Zenon DEF freeproc
<1> HIDE DEF s, f, g
<1>4. Share(f, s.pt, freelist \cup HeldBy(s))
  BY <1>1, <1>2 DEF Share
<1>5. g = freelist \cup HeldBy(s)
  BY <1>1, <1>3, <1>4, FreePagetable
<1>6. g \in SUBSET Page
  <2>1. s.pt \in Table /\ freelist \in SUBSET Page
    BY <1>1 DEF Share
  <2>2. Held(s.pt) \in SUBSET Page
    BY <2>1 DEF Held, Table, Page0
  <2> QED BY <1>1, <1>5, <2>1, <2>2
<1>7. Trade(p, g, NoSpace)
  BY <1>5, <1>6, NoSpaceOK, Zenon DEF Trade, s
<1> QED BY <1>0, <1>7, TradeKeeps, Zenon

LEMMA ResizedIs ==
  ASSUME NEW s, NEW all, NEW n \in Int, s.sz \in 0 .. MaxSz, s.sz + n <= MaxSz,
         Share(freelist, s.pt, all), Sized(s.pt, s.sz)
  PROVE  LET r == Resized(s, n)
             z == IF n > 0 /\ r.sz = 0 THEN s.sz ELSE r.sz IN
         Share(r.f, r.pt, all) /\ Same(r.pt, s.pt) /\ Sized(r.pt, z) /\ z \in 0 .. MaxSz
<1> DEFINE r == Resized(s, n)
           z == IF n > 0 /\ r.sz = 0 THEN s.sz ELSE r.sz
           m == s.sz + n
<1> SUFFICES Share(r.f, r.pt, all) /\ Same(r.pt, s.pt) /\ Sized(r.pt, z) /\ z \in 0 .. MaxSz
  OBVIOUS
<1>0. MaxSz \in Nat /\ s.sz \in Nat /\ m \in Int
  BY MemAssumption
<1>1. CASE n > 0
  <2>1. m \in 0 .. MaxSz
    BY <1>0, <1>1
  <2>2. r = uvmalloc(freelist, s.pt, s.sz, m)
    BY <1>1 DEF Resized
  <2>3. Grew(r, s.pt, s.sz, m, all)
    <3> HIDE DEF r, m
    <3> QED BY <2>1, <2>2, UvmallocGrows
  <2> HIDE DEF r, m
  <2> QED BY <1>1, <2>3 DEF Grew
<1>2. CASE ~(n > 0) /\ m < 0
  <2>1. r = [f |-> freelist, pt |-> s.pt, sz |-> s.sz]
    BY <1>2 DEF Resized
  <2> HIDE DEF r
  <2>2. r.f = freelist /\ r.pt = s.pt /\ r.sz = s.sz
    BY <2>1
  <2> QED BY <1>2, <2>2 DEF Same
<1>3. CASE ~(n > 0) /\ ~(m < 0)
  <2>1. m \in 0 .. MaxSz
    BY <1>0, <1>3
  <2>2. r = uvmdealloc(freelist, s.pt, s.sz, m)
    BY <1>3 DEF Resized
  <2>3. Shrank(r, s.pt, all)
    <3> HIDE DEF r, m
    <3> QED BY <2>1, <2>2, UvmdeallocShrinks
  <2> HIDE DEF r, m
  <2> QED BY <1>3, <2>3 DEF Shrank
<1> QED BY <1>1, <1>2, <1>3, Zenon

LEMMA GrowprocKeeps ==
  ASSUME MemInv, NEW p \in MemProc, NEW n \in Int, growproc(p, n)
  PROVE  MemInv'
<1> DEFINE s == as[p]
           r == Resized(s, n)
           z == IF n > 0 /\ r.sz = 0 THEN s.sz ELSE r.sz
           all == freelist \cup Held(s.pt)
<1>0. /\ Live(p) /\ s.sz + n <= MaxSz
      /\ freelist' = r.f /\ as' = [as EXCEPT ![p] = [tf |-> s.tf, pt |-> r.pt, sz |-> z]]
  BY Zenon DEF growproc
<1>1. /\ s \in Space /\ s.tf \in Page /\ s.tf # 0 /\ s.sz \in 0 .. MaxSz
      /\ s.pt.root # 0 /\ s.pt.high /\ Sized(s.pt, s.sz)
      /\ s.tf \notin freelist /\ s.tf \notin Held(s.pt)
      /\ Share(freelist, s.pt, all)
      /\ HeldBy(s) = Held(s.pt) \cup {s.tf}
  BY <1>0, LiveSpace, Zenon
<1>2. Share(r.f, r.pt, all) /\ Same(r.pt, s.pt) /\ Sized(r.pt, z) /\ z \in 0 .. MaxSz
  <2> HIDE DEF s, all
  <2> QED BY <1>0, <1>1, ResizedIs, Zenon
<1> HIDE DEF r, z
<1>5. Trade(p, r.f, [tf |-> s.tf, pt |-> r.pt, sz |-> z])
  <2>1. s.tf \notin all /\ all \cup {s.tf} = freelist \cup HeldBy(as[p])
    BY <1>1, Zenon
  <2>2. r.pt.root # 0 /\ r.pt.high
    BY <1>1, <1>2, Zenon DEF Same
  <2> HIDE DEF s, all
  <2> QED BY <1>1, <1>2, <2>1, <2>2, NewSpace, Zenon
<1> QED BY <1>0, <1>5, TradeKeeps, Zenon

LEMMA ForkKeeps ==
  ASSUME MemInv, NEW p \in MemProc, NEW np \in MemProc, fork(p, np)
  PROVE  MemInv'
<1> DEFINE tf == kalloc(freelist)
           all == freelist \ {tf}
           t == proc_pagetable(all)
           s == as[p]
           b == Pages(s.sz)
           c == AddPages(t.f, t.pt, 0, b)
<1>0. /\ Live(p) /\ ~Live(np)
      /\ IF tf # 0 /\ t.pt.root # 0 /\ c.ok
         THEN /\ freelist' = c.f
              /\ as' = [as EXCEPT ![np] = [tf |-> tf, pt |-> c.pt, sz |-> s.sz]]
         ELSE /\ freelist' = IF tf = 0 THEN freelist
                             ELSE IF t.pt.root = 0 THEN freeproc(t.f, [NoSpace EXCEPT !.tf = tf])
                             ELSE freeproc(c.f, [tf |-> tf, pt |-> c.pt, sz |-> 0])
              /\ as' = as
  BY Zenon DEF fork
<1>1. /\ freelist \in SUBSET Page /\ all \in SUBSET Page
      /\ tf # 0 => tf \in freelist /\ tf \in Page /\ all \cup {tf} = freelist
  BY KallocIs DEF MemInv
<1>2. s.sz \in 0 .. MaxSz
  BY <1>0, LiveSpace, Zenon
<1>3. HeldBy(as[np]) = {}
  BY <1>0, NoSpaceOK, Zenon DEF MemInv, SpaceOK, Live
<1>4. Made(t, all)
  BY <1>1, ProcPagetableMakes
<1> HIDE DEF t
<1>5. b \in Nat /\ \A v \in Nat : v < b => v \in VPage
  BY <1>2, PagesFit, Zenon
<1>6. Share(t.f, t.pt, all) /\ Sized(t.pt, 0) /\ (t.pt.root # 0 => t.pt.high) /\ (t.pt.root = 0 => t.f = all)
  BY <1>4 DEF Made
<1>z. \A v \in VPage : t.pt.page[v] = 0
  BY <1>6, PageNat, PagesAt DEF Sized
<1>7. Added(c, t.pt, 0, b, all)
  <2> HIDE DEF b, s
  <2>1. 0 .. b - 1 \subseteq VPage
    <3>1. \A v \in 0 .. b - 1 : v \in Nat /\ v < b
      BY <1>5
    <3> QED BY <1>5, <3>1
  <2>2. \A v \in 0 .. b - 1 : t.pt.page[v] = 0
    BY <1>z, <2>1
  <2> QED BY <1>5, <1>6, <2>1, <2>2, AddPagesAdded
<1> HIDE DEF c
<1>8. /\ Share(c.f, c.pt, all) /\ c.pt.root = t.pt.root /\ c.pt.high = t.pt.high /\ c.ok \in BOOLEAN
      /\ \A v \in VPage : IF c.ok /\ v \in 0 .. b - 1 THEN c.pt.page[v] # 0
                                                      ELSE c.pt.page[v] = t.pt.page[v]
  BY <1>7, Zenon DEF Added
<1>9. CASE tf # 0 /\ t.pt.root # 0 /\ c.ok
  <2>1. Sized(c.pt, s.sz)
    <3>1. \A v \in VPage : c.pt.page[v] # 0 <=> v < b
      <4> HIDE DEF b, s, tf, all
      <4>1. \A v \in VPage : v \in 0 .. b - 1 <=> v < b
        BY <1>5, PageNat
      <4> QED BY <1>z, <1>8, <1>9, <4>1
    <3> QED BY <3>1, Zenon DEF Sized
  <2>2. c.pt.root # 0 /\ c.pt.high /\ tf \in Page /\ tf \notin all
        /\ all \cup {tf} = freelist \cup HeldBy(as[np])
    BY <1>1, <1>3, <1>6, <1>8, <1>9
  <2> HIDE DEF tf, s, all
  <2>3. Trade(np, c.f, [tf |-> tf, pt |-> c.pt, sz |-> s.sz])
    BY <1>2, <1>8, <2>1, <2>2, NewSpace, Zenon
  <2>4. freelist' = c.f /\ as' = [as EXCEPT ![np] = [tf |-> tf, pt |-> c.pt, sz |-> s.sz]]
    BY <1>0, <1>9, Zenon
  <2> QED BY <2>3, <2>4, TradeKeeps, Zenon
<1>10. CASE ~(tf # 0 /\ t.pt.root # 0 /\ c.ok)
  <2>0. as' = as
    BY <1>0, <1>10, Zenon
  <2>1. CASE tf = 0
    BY <1>0, <2>0, <2>1, StillKeeps
  <2>2. CASE tf # 0 /\ t.pt.root = 0
    <3> DEFINE n == [NoSpace EXCEPT !.tf = tf]
    <3>1. n.tf = tf /\ n.pt.root = 0
      BY NoTableIs DEF NoSpace
    <3>2. freelist' = freeproc(t.f, n)
      BY <1>0, <1>10, <2>2
    <3> HIDE DEF n
    <3>3. freelist' = kfree(all, {tf})
      BY <1>6, <2>2, <3>1, <3>2 DEF freeproc
    <3>4. freelist' = freelist
      BY <1>1, <2>2, <3>3 DEF kfree
    <3> QED BY <2>0, <3>4, StillKeeps
  <2>3. CASE tf # 0 /\ t.pt.root # 0
    <3> DEFINE n == [tf |-> tf, pt |-> c.pt, sz |-> 0]
               g == kfree(c.f, {tf})
    <3>1. n.tf = tf /\ n.pt = c.pt /\ n.sz = 0
      OBVIOUS
    <3>2. freelist' = freeproc(c.f, n)
      BY <1>0, <1>10, <2>3, Zenon
    <3> HIDE DEF n
    <3>3. freelist' = proc_freepagetable(g, c.pt, 0)
      BY <1>8, <2>3, <3>1, <3>2 DEF freeproc
    <3>4. Share(g, c.pt, freelist)
      <4>1. g = c.f \cup {tf}
        BY <2>3 DEF kfree
      <4>2. tf \notin Held(c.pt) /\ c.f \in SUBSET Page
        BY <1>8 DEF Share
      <4> QED BY <1>1, <1>8, <2>3, <4>1, <4>2, Zenon DEF Share
    <3>5. Sized(c.pt, 0) /\ 0 \in 0 .. MaxSz
      <4>1. \A v \in VPage : c.pt.page[v] = 0
        BY <1>z, <1>8, <1>10, <2>3, Zenon
      <4>2. \A v \in VPage : ~(v < 0)
        BY PageNat
      <4> QED BY <4>1, <4>2, PagesAt, MemAssumption DEF Sized
    <3> HIDE DEF g
    <3>6. freelist' = freelist
      BY <3>3, <3>4, <3>5, FreePagetable
    <3> QED BY <2>0, <3>6, StillKeeps
  <2> QED BY <2>1, <2>2, <2>3
<1> QED BY <1>9, <1>10

LEMMA ExecKeeps ==
  ASSUME MemInv, NEW p \in MemProc, NEW segs \in Program, NEW n \in 0 .. Len(segs),
         NEW argc \in 1 .. MAXARGS, NEW fits, exec(p, segs, n, argc, fits)
  PROVE  MemInv'
<1> DEFINE args == ArgPages(freelist, argc)
           f == freelist \ args
           i == Image(f, segs, n)
           s == as[p]
           all == freelist \cup Held(s.pt)
           ok == Cardinality(args) = argc /\ i.ok /\ fits
<1>0. /\ Live(p)
      /\ IF ok
         THEN /\ freelist' = kfree(proc_freepagetable(i.f, s.pt, s.sz), args)
              /\ as' = [as EXCEPT ![p] = [tf |-> s.tf, pt |-> i.pt, sz |-> i.sz]]
         ELSE /\ freelist' = kfree(IF Cardinality(args) < argc \/ i.pt.root = 0 THEN f
                                   ELSE proc_freepagetable(i.f, i.pt, i.sz), args)
              /\ as' = as
  BY Zenon DEF exec
<1>1. /\ s.tf \in Page /\ s.tf # 0 /\ s.sz \in 0 .. MaxSz /\ Sized(s.pt, s.sz)
      /\ s.tf \notin freelist /\ s.tf \notin Held(s.pt)
      /\ Share(freelist, s.pt, all)
      /\ HeldBy(s) = Held(s.pt) \cup {s.tf}
  BY <1>0, LiveSpace, Zenon
<1>2. argc \in Nat /\ segs \in Seq(Fits)
  BY MemAssumption DEF Fits
<1>3. freelist \in SUBSET Page /\ args \in SUBSET freelist /\ f \in SUBSET Page /\ 0 \notin args
  BY <1>2, ArgPagesFree, PageNat DEF MemInv
<1>4. Built(i, f)
  BY <1>2, <1>3, ImageBuilt
<1> HIDE DEF args, i, s
<1>5. /\ i.sz \in 0 .. MaxSz /\ Share(i.f, i.pt, f) /\ Sized(i.pt, i.sz)
      /\ i.pt.root # 0 => i.pt.high
      /\ i.ok => i.pt.root # 0
  BY <1>4 DEF Built
<1>6. CASE ok
  <2> DEFINE h == proc_freepagetable(i.f, s.pt, s.sz)
             g == kfree(h, args)
  <2>1. Share(i.f, s.pt, i.f \cup Held(s.pt))
    BY <1>1, <1>3, <1>5 DEF Share
  <2>2. h = i.f \cup Held(s.pt)
    BY <1>1, <2>1, FreePagetable
  <2> HIDE DEF h
  <2>3. g = (i.f \cup Held(s.pt)) \cup args
    BY <1>3, <2>2 DEF kfree
  <2> HIDE DEF g
  <2>4. Share(g, i.pt, all)
    <3>1. /\ i.f \cap Held(i.pt) = {} /\ i.f \cup Held(i.pt) = freelist \ args
          /\ i.pt \in Table /\ Once(i.pt)
      BY <1>5 DEF Share
    <3>2. freelist \cap Held(s.pt) = {} /\ Held(s.pt) \in SUBSET Page
      BY <1>1 DEF Share, Held, Table, Page0
    <3>3. g \in SUBSET Page
      BY <1>3, <2>3, <3>1, <3>2
    <3>4. g \cap Held(i.pt) = {} /\ g \cup Held(i.pt) = all
      BY <1>3, <2>3, <3>1, <3>2
    <3> QED BY <3>1, <3>3, <3>4 DEF Share
  <2>5. /\ s.tf \notin all /\ all \cup {s.tf} = freelist \cup HeldBy(as[p])
        /\ i.pt.root # 0 /\ i.pt.high
    BY <1>1, <1>5, <1>6, Zenon DEF s
  <2> HIDE DEF all
  <2>6. Trade(p, g, [tf |-> s.tf, pt |-> i.pt, sz |-> i.sz])
    BY <1>1, <1>5, <2>4, <2>5, NewSpace, Zenon
  <2>7. freelist' = g /\ as' = [as EXCEPT ![p] = [tf |-> s.tf, pt |-> i.pt, sz |-> i.sz]]
    BY <1>0, <1>6, Zenon DEF g, h
  <2> QED BY <2>6, <2>7, TradeKeeps, Zenon
<1>7. CASE ~ok
  <2> DEFINE h == proc_freepagetable(i.f, i.pt, i.sz)
  <2>1. h = f
    BY <1>5, FreePagetable
  <2> HIDE DEF h
  <2>2. as' = as /\ freelist' = kfree(f, args)
    <3> HIDE DEF f, ok
    <3> QED BY <1>0, <1>7, <2>1 DEF h
  <2>3. kfree(f, args) = freelist
    BY <1>3 DEF kfree
  <2> QED BY <2>2, <2>3, StillKeeps
<1> QED BY <1>6, <1>7

(* userinit() finds the two pages it needs beside the trap frame's and the *)
(* page table's.                                                           *)
LEMMA FirstPage ==
  ASSUME NEW f \in SUBSET Page, NEW pt, pt.lo = 0, \E a, b \in f : a # b
  PROVE  AddPages(f, pt, 0, 1).ok
<1> DEFINE b == [f |-> f, pt |-> pt, ok |-> TRUE]
           y == AddPage(b, 0, 0)
           Good == {<<0, b>>, <<1, y>>}
           Turn == [e \in Good |-> AddPage(e[2], 0 + e[1], 0)]
<1>0. 0 + 0 = 0 /\ 0 + 1 = 1
  OBVIOUS
<1>1. \A e \in Good : e[1] \in 0 .. 1 - 1 => e = <<0, b>>
  <2> HIDE DEF b, y
  <2> QED OBVIOUS
<1>2. Turn[<<0, b>>] = y
  <2>1. Turn[<<0, b>>] = AddPage(b, 0 + 0, 0)
    BY Zenon
  <2> QED BY <1>0, <2>1
<1>3. <<0, b>> \in Good /\ <<1, y>> \in Good
  OBVIOUS
<1>4. \A e \in Good : Turn[e] = AddPage(e[2], 0 + e[1], 0)
  BY Zenon
<1>5. \A x : <<1, x>> \in Good => x = y
  <2> HIDE DEF b, y
  <2> QED OBVIOUS
<1> HIDE DEF Turn, Good, y
<1>6. Closed(Good, Turn, 1)
  <2> HIDE DEF b
  <2> SUFFICES ASSUME NEW e \in Good, e[1] \in 0 .. 1 - 1
               PROVE  <<e[1] + 1, Turn[e]>> \in Good
    BY DEF Closed
  <2>1. e = <<0, b>> /\ e[1] = 0
    BY <1>1
  <2> QED BY <1>2, <1>3, <2>1
<1>7. AddPages(f, pt, 0, 1) = y
  <2>1. 1 = IF 1 > 0 THEN 1 - 0 ELSE 0
    OBVIOUS
  <2>2. <<1, AddPages(f, pt, 0, 1)>> \in Good
    BY <1>3, <1>4, <1>6, <2>1, AddPagesLoop
  <2> QED BY <1>5, <2>2
<1> DEFINE a == kalloc(f)
           t == kalloc(f \ {a})
<1>8. a # 0 /\ t # 0
  <2>1. f \ {a} \in SUBSET Page /\ f # {} /\ f \ {a} # {}
    OBVIOUS
  <2> QED BY <2>1, KallocIs
<1>9. y = [f |-> (f \ {a}) \ {t}, pt |-> MappedLo(pt, 0, a, t), ok |-> TRUE]
  BY <1>8, AddPageIs, Zenon DEF y
<1> HIDE DEF a, t
<1>10. y.ok = TRUE
  BY <1>9
<1> QED BY <1>7, <1>10

LEMMA MemInitInv == MemInit => MemInv
<1> DEFINE t == proc_pagetable(Page \ {1})
           r == uvmalloc(t.f, t.pt, 0, PGSIZE)
           c == AddPages(t.f, t.pt, 0, 1)
           s == [tf |-> 1, pt |-> r.pt, sz |-> PGSIZE]
           all == Page \ {1}
<1> SUFFICES ASSUME MemInit PROVE MemInv
  OBVIOUS
<1>0. /\ freelist = r.f
      /\ as = [p \in MemProc |-> IF p = initproc THEN s ELSE NoSpace]
  BY Zenon DEF MemInit
<1>1. /\ PGSIZE \in 0 .. MaxSz /\ 0 \in 0 .. MaxSz /\ PGSIZE # 0 /\ ~(PGSIZE < 0)
      /\ initproc \in MemProc /\ 1 \in Page /\ 1 # 0
  BY MemAssumption, PageNat
<1>2. all \in SUBSET Page /\ {2, 3, 4, 5} \subseteq all
  BY PageNat
<1>3. Made(t, all) /\ \E a, b \in all : a # b /\ t.f = all \ {a, b} /\ t.pt.root # 0
  <2>1. \E a, b \in all : a # b
    BY <1>2
  <2> QED BY <1>2, <2>1, ProcPagetableMakes
<1> HIDE DEF t
<1>4. /\ Share(t.f, t.pt, all) /\ Sized(t.pt, 0) /\ t.pt.root # 0 /\ t.pt.high /\ t.pt.lo = 0
      /\ t.f \in SUBSET Page
  BY <1>3 DEF Made, Share
<1>5. \E a, b \in t.f : a # b
  BY <1>2, <1>3
<1>6. c.ok
  BY <1>4, <1>5, FirstPage
<1>7. Grew(r, t.pt, 0, PGSIZE, all)
  BY <1>1, <1>4, UvmallocGrows
<1>8. r.sz = PGSIZE
  <2>1. r = Grown(AddPages(t.f, t.pt, Pages(0), Pages(PGSIZE)), PGSIZE)
    BY <1>1 DEF uvmalloc
  <2>2. r = Grown(c, PGSIZE)
    BY <2>1, PagesAt
  <2> HIDE DEF c, r
  <2> QED BY <1>6, <2>2 DEF Grown
<1> HIDE DEF r, c
<1>9. Share(r.f, r.pt, all) /\ Sized(r.pt, PGSIZE) /\ r.pt.root # 0 /\ r.pt.high
  BY <1>1, <1>4, <1>7, <1>8 DEF Grew, Same
<1>10. /\ r.f \in SUBSET Page /\ r.pt \in Table /\ Once(r.pt)
       /\ r.f \cap Held(r.pt) = {} /\ r.f \cup Held(r.pt) = all
  BY <1>9 DEF Share
<1>11. s.tf = 1 /\ s.pt = r.pt /\ s.sz = PGSIZE /\ s \in Space
  BY <1>1, <1>10 DEF Space, Page0
<1> HIDE DEF s
<1>12. SpaceOK(s) /\ HeldBy(s) = Held(r.pt) \cup {1}
  BY <1>1, <1>9, <1>10, <1>11 DEF SpaceOK, HeldBy
<1>13. as[initproc] = s /\ \A p \in MemProc : p # initproc => as[p] = NoSpace
  BY <1>0, <1>1
<1>14. \A p \in MemProc : SpaceOK(as[p]) /\ freelist \cap HeldBy(as[p]) = {}
  BY <1>0, <1>10, <1>12, <1>13, NoSpaceOK
<1>15. \A p, q \in MemProc : p # q => HeldBy(as[p]) \cap HeldBy(as[q]) = {}
  BY <1>13, NoSpaceOK, Zenon
<1>16. \A a \in Page : a \in freelist \/ a \in HeldBy(as[initproc])
  BY <1>0, <1>10, <1>12, <1>13
<1>17. as = [p \in MemProc |-> as[p]]
  BY <1>0
<1> QED BY <1>0, <1>1, <1>10, <1>14, <1>15, <1>16, <1>17 DEF MemInv

LEMMA MemNextInv == MemInv /\ [MemNext]_memVars => MemInv'
<1> SUFFICES ASSUME MemInv, [MemNext]_memVars PROVE MemInv'
  OBVIOUS
<1>1. CASE UNCHANGED memVars
  BY <1>1, StillKeeps DEF memVars
<1>2. CASE MemNext
  <2>1. PICK p \in MemProc :
          \/ \E n \in {PGSIZE + 1, -(PGSIZE + 1)} : growproc(p, n)
          \/ \E np \in MemProc : fork(p, np)
          \/ Reap(p)
          \/ \E segs \in Program, argc \in 1 .. MAXARGS, fits \in BOOLEAN :
               \E n \in 0 .. Len(segs) : (fits \/ n = Len(segs)) /\ exec(p, segs, n, argc, fits)
    BY <1>2, Zenon DEF MemNext
  <2>2. ASSUME NEW n \in {PGSIZE + 1, -(PGSIZE + 1)}, growproc(p, n) PROVE MemInv'
    <3>1. n \in Int
      BY MemAssumption
    <3> QED BY <2>2, <3>1, GrowprocKeeps
  <2>3. ASSUME NEW np \in MemProc, fork(p, np) PROVE MemInv'
    BY <2>3, ForkKeeps
  <2>4. CASE Reap(p)
    BY <2>4, ReapKeeps
  <2>5. ASSUME NEW segs \in Program, NEW argc \in 1 .. MAXARGS, NEW fits \in BOOLEAN,
               NEW n \in 0 .. Len(segs), exec(p, segs, n, argc, fits)
        PROVE  MemInv'
    BY <2>5, ExecKeeps
  <2> QED BY <2>1, <2>2, <2>3, <2>4, <2>5, Zenon
<1> QED BY <1>1, <1>2

LEMMA MemAlways == MemSpec => []MemInv
BY MemInitInv, MemNextInv, PTL DEF MemSpec

-----------------------------------------------------------------------------
(* The uses that PagesConserved counts are those of the invariant.         *)

LEMMA KernelUses ==
  ASSUME NEW p
  PROVE  \A u : u \in Uses(p) <=>
           \/ u = <<p, "kernel", 1, as[p].tf>>
           \/ u = <<p, "kernel", 2, as[p].pt.root>>
           \/ u = <<p, "kernel", 3, as[p].pt.hi>>
           \/ u = <<p, "kernel", 4, as[p].pt.lo>>
           \/ \E v \in VPage : u = <<p, "user", v, as[p].pt.page[v]>>
<1> DEFINE K == <<as[p].tf, as[p].pt.root, as[p].pt.hi, as[p].pt.lo>>
<1>1. K[1] = as[p].tf /\ K[2] = as[p].pt.root /\ K[3] = as[p].pt.hi /\ K[4] = as[p].pt.lo
  OBVIOUS
<1>2. Uses(p) = {<<p, "kernel", k, K[k]>> : k \in 1 .. 4} \cup
                {<<p, "user", v, as[p].pt.page[v]>> : v \in VPage}
  BY Zenon DEF Uses
<1> HIDE DEF K
<1>3. \A k \in 1 .. 4 : k = 1 \/ k = 2 \/ k = 3 \/ k = 4
  OBVIOUS
<1>4. 1 \in 1 .. 4 /\ 2 \in 1 .. 4 /\ 3 \in 1 .. 4 /\ 4 \in 1 .. 4
  OBVIOUS
<1> QED BY <1>1, <1>2, <1>3, <1>4, Zenon

(* A page has a use of p exactly when p holds it, and then only one.       *)
LEMMA OneUse ==
  ASSUME MemInv, NEW p \in MemProc, NEW a \in Page
  PROVE  /\ \A u \in Uses(p) : u[4] = a => a \in HeldBy(as[p])
         /\ a \in HeldBy(as[p]) => \E u \in Uses(p) : u[4] = a
         /\ \A u, x \in Uses(p) : u[4] = a /\ x[4] = a => u = x
<1> DEFINE s == as[p]
           q == s.pt
           U(u) == \/ u = <<p, "kernel", 1, s.tf>>
                   \/ u = <<p, "kernel", 2, q.root>>
                   \/ u = <<p, "kernel", 3, q.hi>>
                   \/ u = <<p, "kernel", 4, q.lo>>
                   \/ \E v \in VPage : u = <<p, "user", v, q.page[v]>>
<1>0. \A u : u \in Uses(p) <=> U(u)
  BY KernelUses, Zenon
<1>1. SpaceOK(s) /\ a # 0
  BY PageNat, Zenon DEF MemInv
<1> HIDE DEF s
<1>2. Once(q) /\ s.tf \notin Held(q)
  BY <1>1 DEF SpaceOK
<1> HIDE DEF q
<1>3. a \in HeldBy(s) <=> \/ a = s.tf \/ a = q.root \/ a = q.hi \/ a = q.lo
                          \/ \E v \in VPage : a = q.page[v]
  BY <1>1 DEF HeldBy, Held, q
<1>4. \A u : U(u) /\ u[4] = a => a \in HeldBy(s)
  BY <1>3
<1>5. a \in HeldBy(s) => \E u : U(u) /\ u[4] = a
  <2>1. ASSUME a = s.tf PROVE \E u : U(u) /\ u[4] = a
    <3>1. U(<<p, "kernel", 1, s.tf>>) /\ <<p, "kernel", 1, s.tf>>[4] = a
      BY <2>1
    <3> QED BY <3>1, Zenon
  <2>2. ASSUME a = q.root PROVE \E u : U(u) /\ u[4] = a
    <3>1. U(<<p, "kernel", 2, q.root>>) /\ <<p, "kernel", 2, q.root>>[4] = a
      BY <2>2
    <3> QED BY <3>1, Zenon
  <2>3. ASSUME a = q.hi PROVE \E u : U(u) /\ u[4] = a
    <3>1. U(<<p, "kernel", 3, q.hi>>) /\ <<p, "kernel", 3, q.hi>>[4] = a
      BY <2>3
    <3> QED BY <3>1, Zenon
  <2>4. ASSUME a = q.lo PROVE \E u : U(u) /\ u[4] = a
    <3>1. U(<<p, "kernel", 4, q.lo>>) /\ <<p, "kernel", 4, q.lo>>[4] = a
      BY <2>4
    <3> QED BY <3>1, Zenon
  <2>5. ASSUME NEW v \in VPage, a = q.page[v] PROVE \E u : U(u) /\ u[4] = a
    <3>1. U(<<p, "user", v, q.page[v]>>) /\ <<p, "user", v, q.page[v]>>[4] = a
      BY <2>5
    <3> QED BY <3>1, Zenon
  <2> HIDE DEF U
  <2> QED BY <1>3, <2>1, <2>2, <2>3, <2>4, <2>5, Zenon
<1>6. \A u, x : U(u) /\ U(x) /\ u[4] = a /\ x[4] = a => u = x
  <2>1. /\ \A v, w \in VPage : q.page[v] = a /\ q.page[w] = a => v = w
        /\ \A v \in VPage : q.page[v] = a => q.root # a /\ q.hi # a /\ q.lo # a
        /\ q.root = a => q.hi # a /\ q.lo # a
        /\ q.hi = a => q.lo # a
    BY <1>1, <1>2 DEF Once
  <2>2. /\ \A v \in VPage : q.page[v] = a => s.tf # a
        /\ q.root = a => s.tf # a
        /\ q.hi = a => s.tf # a
        /\ q.lo = a => s.tf # a
    BY <1>1, <1>2 DEF Held
  <2> QED BY <2>1, <2>2
<1> HIDE DEF U
<1> QED BY <1>0, <1>4, <1>5, <1>6, Zenon DEF s

(* How many elements an empty set and a set of one have.                   *)
LEMMA CardEmpty == Cardinality({}) = 0
<1> DEFINE Step(cs) == cs = [T \in SUBSET {} |-> IF T = {} THEN 0 ELSE 1 + cs[T \ {CHOOSE x : x \in T}]]
           CS == CHOOSE cs : Step(cs)
<1>1. Step([T \in SUBSET {} |-> 0])
  OBVIOUS
<1>2. Step(CS)
  <2> HIDE DEF Step
  <2> QED BY <1>1, Zenon
<1>3. CS[{}] = 0
  <2> HIDE DEF CS
  <2> QED BY <1>2
<1> QED BY <1>3, Zenon DEF Cardinality

LEMMA CardOne == ASSUME NEW a PROVE Cardinality({a}) = 1
<1> DEFINE Step(cs) == cs = [T \in SUBSET {a} |-> IF T = {} THEN 0 ELSE 1 + cs[T \ {CHOOSE x : x \in T}]]
           CS == CHOOSE cs : Step(cs)
           f == [T \in SUBSET {a} |-> IF T = {} THEN 0 ELSE 1]
<1>1. \A T \in SUBSET {a} : T # {} => (CHOOSE x : x \in T) = a
  OBVIOUS
<1>2. \A T \in SUBSET {a} : T # {} => T \ {CHOOSE x : x \in T} = {}
  BY <1>1
<1>3. Step(f)
  BY <1>2
<1>4. Step(CS)
  <2> HIDE DEF Step, f
  <2> QED BY <1>3, Zenon
<1>5. CS[{a}] = 1
  <2> HIDE DEF CS
  <2>1. {a} \ {CHOOSE x : x \in {a}} = {}
    BY <1>2
  <2>2. CS[{}] = 0
    BY <1>4
  <2> QED BY <1>4, <2>1, <2>2
<1> QED BY <1>5, Zenon DEF Cardinality

LEMMA InvConserves == MemInv => PagesConserved
<1> SUFFICES ASSUME MemInv, NEW a \in Page
             PROVE  Cardinality({u \in UNION {Uses(p) : p \in MemProc} : u[4] = a})
                    = IF a \in freelist THEN 0 ELSE 1
  BY Zenon DEF PagesConserved
<1> DEFINE S == {u \in UNION {Uses(p) : p \in MemProc} : u[4] = a}
<1>1. \A u : u \in S <=> u[4] = a /\ \E p \in MemProc : u \in Uses(p)
  OBVIOUS
<1>u. /\ \A p \in MemProc : \A u \in Uses(p) : u[4] = a => a \in HeldBy(as[p])
      /\ \A p \in MemProc : \A u, x \in Uses(p) : u[4] = a /\ x[4] = a => u = x
  BY OneUse, Zenon
<1> HIDE DEF S
<1>2. CASE a \in freelist
  <2>1. \A p \in MemProc : a \notin HeldBy(as[p])
    BY <1>2, Zenon DEF MemInv
  <2>2. S = {}
    BY <1>1, <1>u, <2>1, Zenon
  <2> QED BY <1>2, <2>2, CardEmpty DEF S
<1>3. CASE a \notin freelist
  <2>1. PICK p \in MemProc : a \in HeldBy(as[p])
    BY <1>3, Zenon DEF MemInv
  <2>2. \A q \in MemProc : q # p => a \notin HeldBy(as[q])
    BY <2>1, Zenon DEF MemInv
  <2>3. PICK u \in Uses(p) : u[4] = a
    BY <2>1, OneUse, Zenon
  <2>4. \A x \in S : x = u
    <3> SUFFICES ASSUME NEW x \in S PROVE x = u
      OBVIOUS
    <3>1. PICK q \in MemProc : x \in Uses(q) /\ x[4] = a
      BY <1>1
    <3>2. q = p
      BY <1>u, <2>2, <3>1, Zenon
    <3> QED BY <1>u, <2>3, <3>1, <3>2
  <2>5. S = {u}
    BY <1>1, <2>3, <2>4
  <2>6. Cardinality(S) = 1
    BY <2>5, CardOne, Zenon
  <2> QED BY <1>3, <2>6 DEF S
<1> QED BY <1>2, <1>3

LEMMA InvSizes == MemInv => SizeMapped
<1> SUFFICES ASSUME MemInv, NEW p \in MemProc
             PROVE  /\ Live(p) => as[p].pt.high
                    /\ \A v \in VPage : as[p].pt.page[v] # 0 <=> v < Pages(as[p].sz)
  BY Zenon DEF SizeMapped
<1>1. Live(p) => as[p].pt.high
  BY LiveSpace, Zenon
<1>2. \A v \in VPage : as[p].pt.page[v] # 0 <=> v < Pages(as[p].sz)
  BY Zenon DEF MemInv, SpaceOK, Sized
<1> QED BY <1>1, <1>2, Zenon

(* kalloc.c, vm.c, proc.c, exec.c: every page is free or has one use, of   *)
(* one process, whatever call ran out of memory and wherever it did.       *)
THEOREM PagesAreConserved == MemSpec => []PagesConserved
BY MemAlways, InvConserves, PTL

(* p->sz says which pages are mapped: uvmunmap(), uvmcopy() and freewalk() *)
(* never meet a page they would panic at.                                  *)
THEOREM SizesAreMapped == MemSpec => []SizeMapped
BY MemAlways, InvSizes, PTL
=============================================================================
