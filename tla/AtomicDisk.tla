----------------------------- MODULE AtomicDisk -----------------------------
(***************************************************************************)
(* What kernel/log.c promises its callers: a disk whose contents change    *)
(* only as a whole.  mem is what the file system reads, durable what it    *)
(* would find after a crash, active the number of operations under way.    *)
(***************************************************************************)
EXTENDS Naturals

CONSTANTS HomeBlock, Content

VARIABLES mem, durable, active

AtomicInit ==
  /\ mem \in [HomeBlock -> Content]
  /\ durable = mem
  /\ active = 0

(* No operation starts on top of one that has ended and could still be lost. *)
AtomicBegin ==
  /\ active = 0 => durable = mem
  /\ active' = active + 1
  /\ UNCHANGED <<mem, durable>>

AtomicWrite(b, v) ==
  /\ active > 0
  /\ mem' = [mem EXCEPT ![b] = v]
  /\ UNCHANGED <<durable, active>>

AtomicEnd ==
  /\ active > 0
  /\ active' = active - 1
  /\ UNCHANGED <<mem, durable>>

(* The writes of whole operations become durable, all at once.             *)
AtomicCommit ==
  /\ active = 0
  /\ durable' = mem
  /\ UNCHANGED <<mem, active>>

AtomicCrash ==
  /\ mem' = durable
  /\ active' = 0
  /\ UNCHANGED durable

AtomicNext ==
  \/ AtomicBegin
  \/ \E b \in HomeBlock, v \in Content : AtomicWrite(b, v)
  \/ AtomicEnd
  \/ AtomicCommit
  \/ AtomicCrash

AtomicSpec == AtomicInit /\ [][AtomicNext]_<<mem, durable, active>>
=============================================================================
