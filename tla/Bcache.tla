------------------------------- MODULE Bcache -------------------------------
(***************************************************************************)
(* The buffer cache of kernel/bio.c and its sleep locks (sleeplock.c).     *)
(* bget() looks a block up under bcache.lock, gives the lock up and only   *)
(* then waits for the buffer; brelse() gives the buffer up before it drops *)
(* its reference.  Processes read, change and write blocks through it as   *)
(* the log does: what a process changes it writes, or pins until it has    *)
(* been written.                                                           *)
(*                                                                         *)
(* The sleep lock is its holder; waiting for it is module ProcLife's       *)
(* sleep().  An operator defined just before another of like name is a     *)
(* faulty form of it that no action uses (see Mlfq).                       *)
(***************************************************************************)
EXTENDS Integers, Sequences, FiniteSets

CONSTANTS
  NBUF,
  BufProc,      \* processes
  DiskBlock,    \* block numbers
  BlockData,    \* what a block can hold
  NoBlock,      \* a buffer that was never used
  Nobody,       \* no holder
  MaxPinned     \* blocks pinned at a time

ASSUME BufAssumption == NBUF \in Nat \ {0}
ASSUME BufNames == NoBlock \notin DiskBlock /\ Nobody \notin BufProc

Buf == 1 .. NBUF

VARIABLES
  lru,                    \* from head.next, the most recently used, on
  blockno, valid, refcnt, data,   \* fields of struct buf
  holder,                 \* b->lock
  pinned,                 \* buffers with a bpin() still to be undone
  platter,                \* the disk
  bpc, pbuf, want,        \* each process: its step, buffer and block
  latest                  \* history: what was last put in each block

bufVars == <<lru, blockno, valid, refcnt, data, holder, pinned, platter,
             bpc, pbuf, want, latest>>

(***************************************************************************)
(* "idle"; "wait": bget() before acquiresleep(); "locked": bread() before  *)
(* it looks at valid; "use": bread() has returned; "dirty": changed;       *)
(* "written": after bwrite(); "unref": brelse() after releasesleep().      *)
(***************************************************************************)
Using == {"use", "dirty", "written"}
BufPc == Using \cup {"idle", "wait", "locked", "unref"}

(* binit() puts each buffer before the ones already in the list.           *)
BufInit ==
  /\ lru = [i \in Buf |-> NBUF + 1 - i]
  /\ blockno = [i \in Buf |-> NoBlock]
  /\ valid = [i \in Buf |-> FALSE]
  /\ refcnt = [i \in Buf |-> 0]
  /\ \E d \in BlockData :
       /\ data = [i \in Buf |-> d]
       /\ platter = [b \in DiskBlock |-> d]
  /\ latest = platter
  /\ holder = [i \in Buf |-> Nobody]
  /\ pinned = {}
  /\ bpc = [p \in BufProc |-> "idle"]
  /\ pbuf = [p \in BufProc |-> 1]
  /\ want = [p \in BufProc |-> NoBlock]

BufGoTo(p, to) == bpc' = [bpc EXCEPT ![p] = to]

CachedValid(b) == {i \in Buf : blockno[i] = b /\ valid[i]}
Cached(b) == {i \in Buf : blockno[i] = b}

CanRecycleUnlocked(i) == holder[i] = Nobody
CanRecycle(i) == refcnt[i] = 0

(* The list is searched from its end.                                      *)
LeastRecent(i) ==
  \E k \in Buf : lru[k] = i /\ CanRecycle(i) /\ \A m \in (k + 1) .. NBUF : ~CanRecycle(lru[m])

bget(p, b) ==
  /\ bpc[p] = "idle"
  /\ \E i \in Buf :
       /\ pbuf' = [pbuf EXCEPT ![p] = i]
       /\ \/ /\ i \in Cached(b)
             /\ refcnt' = [refcnt EXCEPT ![i] = @ + 1]
             /\ UNCHANGED <<blockno, valid>>
          \/ /\ Cached(b) = {} /\ LeastRecent(i)
             /\ blockno' = [blockno EXCEPT ![i] = b]
             /\ valid' = [valid EXCEPT ![i] = FALSE]
             /\ refcnt' = [refcnt EXCEPT ![i] = 1]
  /\ want' = [want EXCEPT ![p] = b]
  /\ BufGoTo(p, "wait")
  /\ UNCHANGED <<lru, data, holder, pinned, platter, latest>>

acquiresleep(p) ==
  /\ bpc[p] = "wait"
  /\ holder[pbuf[p]] = Nobody
  /\ holder' = [holder EXCEPT ![pbuf[p]] = p]
  /\ BufGoTo(p, "locked")
  /\ UNCHANGED <<lru, blockno, valid, refcnt, data, pinned, platter, pbuf, want, latest>>

(* The rest of bread(): virtio_disk_rw() unless the buffer is valid.       *)
bread(p) ==
  /\ bpc[p] = "locked"
  /\ data' = [data EXCEPT ![pbuf[p]] = IF valid[pbuf[p]] THEN @ ELSE platter[blockno[pbuf[p]]]]
  /\ valid' = [valid EXCEPT ![pbuf[p]] = TRUE]
  /\ BufGoTo(p, "use")
  /\ UNCHANGED <<lru, blockno, refcnt, holder, pinned, platter, pbuf, want, latest>>

(* The caller changes b->data.                                             *)
Change(p, d) ==
  /\ bpc[p] = "use"
  /\ data' = [data EXCEPT ![pbuf[p]] = d]
  /\ latest' = [latest EXCEPT ![want[p]] = d]
  /\ BufGoTo(p, "dirty")
  /\ UNCHANGED <<lru, blockno, valid, refcnt, holder, pinned, platter, pbuf, want>>

bwrite(p) ==
  /\ bpc[p] \in {"use", "dirty"} /\ holder[pbuf[p]] = p
  /\ platter' = [platter EXCEPT ![blockno[pbuf[p]]] = data[pbuf[p]]]
  /\ BufGoTo(p, "written")
  /\ UNCHANGED <<lru, blockno, valid, refcnt, data, holder, pinned, pbuf, want, latest>>

(* log_write() pins a block the log does not hold yet.                     *)
bpin(p) ==
  /\ bpc[p] = "dirty"
  /\ \/ pbuf[p] \in pinned /\ UNCHANGED <<refcnt, pinned>>
     \/ /\ pbuf[p] \notin pinned /\ Cardinality(pinned) < MaxPinned
        /\ refcnt' = [refcnt EXCEPT ![pbuf[p]] = @ + 1]
        /\ pinned' = pinned \cup {pbuf[p]}
  /\ BufGoTo(p, "use")
  /\ UNCHANGED <<lru, blockno, valid, data, holder, platter, pbuf, want, latest>>

(* install_trans() unpins what it has just written.                        *)
bunpin(p) ==
  /\ bpc[p] = "written" /\ pbuf[p] \in pinned
  /\ refcnt' = [refcnt EXCEPT ![pbuf[p]] = @ - 1]
  /\ pinned' = pinned \ {pbuf[p]}
  /\ UNCHANGED <<lru, blockno, valid, data, holder, platter, bpc, pbuf, want, latest>>

releasesleep(p) ==
  /\ bpc[p] \in {"use", "written"} /\ holder[pbuf[p]] = p
  /\ holder' = [holder EXCEPT ![pbuf[p]] = Nobody]
  /\ BufGoTo(p, "unref")
  /\ UNCHANGED <<lru, blockno, valid, refcnt, data, pinned, platter, pbuf, want, latest>>

(* Buffer i becomes the first of the list.                                 *)
ToFront(i) ==
  LET k == CHOOSE m \in Buf : lru[m] = i
  IN  [m \in Buf |-> IF m = 1 THEN i ELSE IF m <= k THEN lru[m - 1] ELSE lru[m]]

(* The rest of brelse(), under bcache.lock.                                *)
brelse(p) ==
  /\ bpc[p] = "unref"
  /\ refcnt' = [refcnt EXCEPT ![pbuf[p]] = @ - 1]
  /\ lru' = IF refcnt[pbuf[p]] = 1 THEN ToFront(pbuf[p]) ELSE lru
  /\ BufGoTo(p, "idle")
  /\ UNCHANGED <<blockno, valid, data, holder, pinned, platter, pbuf, want, latest>>

BufStep(p) ==
  \/ \E b \in DiskBlock : bget(p, b)
  \/ acquiresleep(p)
  \/ bread(p)
  \/ \E d \in BlockData : Change(p, d)
  \/ bwrite(p)
  \/ bpin(p)
  \/ bunpin(p)
  \/ releasesleep(p)
  \/ brelse(p)

BufNext == \E p \in BufProc : BufStep(p)

BufSpec == BufInit /\ [][BufNext]_bufVars

-----------------------------------------------------------------------------
(* Properties.                                                             *)

(* bget(): a block has at most one buffer, also while it is being          *)
(* recycled and while processes queue for it.                              *)
OneBuffer ==
  \A i, j \in Buf : blockno[i] = blockno[j] /\ i # j => blockno[i] = NoBlock

(* bread() returns the block that was asked for, locked by the caller      *)
(* alone, with what was last put in it: across recycling by others between *)
(* bget()'s lookup and its lock, and across eviction and rereading.        *)
BreadFresh ==
  \A p \in BufProc : bpc[p] \in Using =>
    /\ blockno[pbuf[p]] = want[p]
    /\ holder[pbuf[p]] = p
    /\ data[pbuf[p]] = latest[want[p]]
=============================================================================
