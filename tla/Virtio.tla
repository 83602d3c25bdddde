------------------------------- MODULE Virtio -------------------------------
(***************************************************************************)
(* The disk driver, kernel/virtio_disk.c: descriptors, the available and   *)
(* the used ring, virtio_disk_rw(), the device, and virtio_disk_intr().    *)
(*                                                                         *)
(* A process transfers the buffer that it has locked, so a process and its *)
(* buffer are one.  vdisk_lock makes each stretch of virtio_disk_rw()      *)
(* between two sleeps one step; the device runs beside the interrupt       *)
(* handler, which is therefore taken entry by entry.  The device is        *)
(* modelled from the comments of the driver and how it uses the device.    *)
(*                                                                         *)
(* An operator defined just before another of like name is a faulty form   *)
(* of it that no action uses (see Mlfq).                                   *)
(***************************************************************************)
EXTENDS Integers, FiniteSets

CONSTANTS
  DiskProc,     \* processes that use the disk
  NUM,          \* descriptors, and entries of a ring
  IDXMOD,       \* ring indices wrap around: 2^16 in the code
  MaxReq,       \* bound on the requests of each process
  NoReq         \* no process

Desc == 0 .. NUM - 1

ASSUME DiskAssumption ==
  /\ {NUM, IDXMOD, MaxReq} \subseteq Nat \ {0}
  /\ IDXMOD % NUM = 0 /\ NUM >= 3
  /\ NoReq \notin DiskProc

VARIABLES
  dfree,        \* disk.free
  desc,         \* [addr, next] of each descriptor; next is -1 without F_NEXT
  info,         \* info[].b and info[].status
  avail, used,  \* [idx, ring]
  used_idx,     \* disk.used_idx
  seen,         \* how far the device has read the available ring
  device,       \* heads of the chains the device works on
  irq,          \* the device's interrupt, until it is acknowledged
  intr,         \* whether virtio_disk_intr() is in its loop, with the lock
  bdisk,        \* b->disk
  vpc,          \* "idle", "ready", "asleep" (no descriptors), "waiting", "woken"
  head,         \* idx[0]
  reqs          \* requests made so far

diskVars == <<dfree, desc, info, avail, used, used_idx, seen, device, irq, intr,
              bdisk, vpc, head, reqs>>
rings    == <<avail, used, used_idx, seen, device, irq, intr>>

NoDesc == [addr |-> NoReq, next |-> -1]

(* An idle disk, just started or when the ring indices are about to wrap.  *)
DiskInit ==
  /\ dfree = Desc
  /\ desc = [i \in Desc |-> NoDesc]
  /\ info = [i \in Desc |-> [b |-> NoReq, ok |-> FALSE]]
  /\ used_idx \in {0, IDXMOD - 1} /\ seen = used_idx
  /\ avail = [idx |-> used_idx, ring |-> [i \in Desc |-> 0]]
  /\ used = [idx |-> used_idx, ring |-> [i \in Desc |-> 0]]
  /\ device = {} /\ irq = FALSE /\ intr = FALSE
  /\ bdisk = [p \in DiskProc |-> FALSE]
  /\ vpc = [p \in DiskProc |-> "idle"]
  /\ head = [p \in DiskProc |-> 0]
  /\ reqs = [p \in DiskProc |-> 0]

-----------------------------------------------------------------------------
(* The driver.                                                             *)

VGoTo(p, s) == vpc' = [vpc EXCEPT ![p] = s]

(* wakeup(&disk.free[0]) by p, which goes on to s.                         *)
WakeAndGoTo(p, s) ==
  vpc' = [q \in DiskProc |-> IF q = p THEN s
                             ELSE IF vpc[q] = "asleep" THEN "ready" ELSE vpc[q]]

FirstDesc(S) == CHOOSE i \in S : \A j \in S : i <= j

(* The chain of three descriptors that begins at i.                        *)
Chain(i) == <<i, desc[i].next, desc[desc[i].next].next>>

FreeTwo(i) == dfree \cup {i, desc[i].next}
free_chain(i) == dfree \cup {i, desc[i].next, desc[desc[i].next].next}

Request(p) ==
  /\ vpc[p] = "idle" /\ reqs[p] < MaxReq
  /\ VGoTo(p, "ready")
  /\ reqs' = [reqs EXCEPT ![p] = @ + 1]
  /\ UNCHANGED <<dfree, desc, info, rings, bdisk, head>>

(* alloc3_desc() succeeds: the chain is formatted and made available.      *)
virtio_disk_rw(p) ==
  LET i0 == FirstDesc(dfree)
      i1 == FirstDesc(dfree \ {i0})
      i2 == FirstDesc(dfree \ {i0, i1})
  IN
  /\ vpc[p] = "ready" /\ ~intr
  /\ Cardinality(dfree) >= 3
  /\ dfree' = dfree \ {i0, i1, i2}
  /\ desc' = [desc EXCEPT ![i0] = [addr |-> p, next |-> i1],
                          ![i1] = [addr |-> p, next |-> i2],
                          ![i2] = [addr |-> p, next |-> -1]]
  /\ info' = [info EXCEPT ![i0] = [b |-> p, ok |-> FALSE]]
  /\ bdisk' = [bdisk EXCEPT ![p] = TRUE]
  /\ avail' = [idx |-> (avail.idx + 1) % IDXMOD,
               ring |-> [avail.ring EXCEPT ![avail.idx % NUM] = i0]]
  /\ head' = [head EXCEPT ![p] = i0]
  /\ VGoTo(p, "waiting")
  /\ UNCHANGED <<used, used_idx, seen, device, irq, intr, reqs>>

(* It fails: the descriptors it got are freed again, which wakes other     *)
(* processes that wait for one, and p sleeps.                              *)
NoDescriptors(p) ==
  /\ vpc[p] = "ready" /\ ~intr
  /\ Cardinality(dfree) < 3
  /\ IF dfree = {} THEN VGoTo(p, "asleep") ELSE WakeAndGoTo(p, "asleep")
  /\ UNCHANGED <<dfree, desc, info, rings, bdisk, head, reqs>>

(* Woken with b->disk clear: free the chain and return.                    *)
Finish(p) ==
  /\ vpc[p] = "woken" /\ ~intr
  /\ ~bdisk[p]
  /\ info' = [info EXCEPT ![head[p]].b = NoReq]
  /\ dfree' = free_chain(head[p])
  /\ desc' = [i \in Desc |-> IF i \in free_chain(head[p]) \ dfree THEN NoDesc ELSE desc[i]]
  /\ WakeAndGoTo(p, "idle")
  /\ head' = [head EXCEPT ![p] = 0]
  /\ UNCHANGED <<rings, bdisk, reqs>>

(* virtio_disk_intr(): the interrupt is acknowledged first.                *)
virtio_disk_intr ==
  /\ irq /\ ~intr
  /\ intr' = TRUE
  /\ irq' = FALSE
  /\ UNCHANGED <<dfree, desc, info, avail, used, used_idx, seen, device, bdisk,
                 vpc, head, reqs>>

(* One entry of the used ring.                                             *)
UsedEntry ==
  LET b == info[used.ring[used_idx % NUM]].b IN
  /\ intr
  /\ used_idx # used.idx
  /\ bdisk' = [bdisk EXCEPT ![b] = FALSE]
  /\ VGoTo(b, "woken")
  /\ used_idx' = (used_idx + 1) % IDXMOD
  /\ UNCHANGED <<dfree, desc, info, avail, used, seen, device, irq, intr, head, reqs>>

LoopEndsAtOnce == TRUE
LoopEnds == used_idx = used.idx

IntrReturns ==
  /\ intr
  /\ LoopEnds
  /\ intr' = FALSE
  /\ UNCHANGED <<dfree, desc, info, avail, used, used_idx, seen, device, irq, bdisk,
                 vpc, head, reqs>>

-----------------------------------------------------------------------------
(* The device.                                                             *)

DeviceTakes ==
  /\ seen # avail.idx
  /\ device' = device \cup {avail.ring[seen % NUM]}
  /\ seen' = (seen + 1) % IDXMOD
  /\ UNCHANGED <<dfree, desc, info, avail, used, used_idx, irq, intr, bdisk, vpc, head, reqs>>

(* Requests complete in any order; the interrupt may already be raised.    *)
DeviceCompletes(i) ==
  /\ i \in device
  /\ device' = device \ {i}
  /\ info' = [info EXCEPT ![i].ok = TRUE]
  /\ used' = [idx |-> (used.idx + 1) % IDXMOD,
              ring |-> [used.ring EXCEPT ![used.idx % NUM] = i]]
  /\ irq' = TRUE
  /\ UNCHANGED <<dfree, desc, avail, used_idx, seen, intr, bdisk, vpc, head, reqs>>

DiskStep(p) == Request(p) \/ virtio_disk_rw(p) \/ NoDescriptors(p) \/ Finish(p)
DiskIntr    == virtio_disk_intr \/ UsedEntry \/ IntrReturns
Device      == DeviceTakes \/ \E i \in Desc : DeviceCompletes(i)

DiskNext == (\E p \in DiskProc : DiskStep(p)) \/ DiskIntr \/ Device

(* A runnable process runs, the device serves its requests, and a raised   *)
(* interrupt is taken.                                                     *)
DiskFair ==
  /\ \A p \in DiskProc : WF_diskVars(virtio_disk_rw(p) \/ NoDescriptors(p) \/ Finish(p))
  /\ WF_diskVars(DiskIntr)
  /\ WF_diskVars(DeviceTakes)
  /\ WF_diskVars(\E i \in Desc : DeviceCompletes(i))

DiskSpec == DiskInit /\ [][DiskNext]_diskVars /\ DiskFair

-----------------------------------------------------------------------------
(* Properties.                                                             *)

InFlight == {p \in DiskProc : vpc[p] \in {"waiting", "woken"}}
Links(p) == {Chain(head[p])[k] : k \in 1 .. 3}

(* Entries of a ring from index a up to b.                                 *)
Window(ring, a, b) == {ring[(a + k) % NUM] : k \in 0 .. ((b - a) % IDXMOD) - 1}
Completed == Window(used.ring, used_idx, used.idx)
Offered   == Window(avail.ring, seen, avail.idx)

(* virtio_disk.c: every request in flight has three descriptors of its own *)
(* that lead to its buffer, all the others are free, and the rings hold    *)
(* each request that is not done exactly once: the handler finds the       *)
(* buffer, with b->disk set, and a status of 0 (panics at 174, 316).       *)
RequestsIntact ==
  /\ \A p \in InFlight : \A i \in Links(p) : i \notin dfree /\ desc[i].addr = p
  /\ \A p \in InFlight : Cardinality(Links(p)) = 3 /\ info[head[p]].b = p
  /\ \A p, q \in InFlight : p # q => Links(p) \cap Links(q) = {}
  /\ Cardinality(dfree) = NUM - 3 * Cardinality(InFlight)
  /\ Completed \cup device \cup Offered = {head[p] : p \in {q \in InFlight : bdisk[q]}}
  /\ Cardinality(Completed) + Cardinality(device) + Cardinality(Offered)
       = Cardinality({q \in InFlight : bdisk[q]})
  /\ \A i \in Completed : info[i].ok

(* virtio_disk.c:299: that the acknowledgement races with new entries of   *)
(* the used ring "is harmless", and that waiting for descriptors ends:     *)
(* every call of virtio_disk_rw() returns.                                 *)
RwReturns == \A p \in DiskProc : vpc[p] = "ready" ~> vpc[p] = "idle"
=============================================================================
