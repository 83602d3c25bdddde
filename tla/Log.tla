-------------------------------- MODULE Log --------------------------------
(***************************************************************************)
(* The redo log of kernel/log.c: begin_op(), log_write(), end_op(),        *)
(* commit() and the recovery at boot, with a crash between any two writes  *)
(* of the disk.  The buffer cache appears as far as the log depends on it: *)
(* a block's copy, the references that keep it there (bpin() and bread()), *)
(* and its eviction.  Module Bcache has the cache itself.                  *)
(*                                                                         *)
(* One disk block is written at once, as the driver promises.  log.lock is *)
(* held for whole steps; commit() runs without it.                         *)
(*                                                                         *)
(* An operator defined just before another of like name is a faulty form   *)
(* of it that no action uses (see Mlfq).                                   *)
(***************************************************************************)
EXTENDS Integers, Sequences, FiniteSets

CONSTANTS
  FsProc,       \* processes that make file system calls
  HomeBlock,    \* blocks of the file system proper
  Content,      \* what a block can hold
  NoBuf,        \* not cached
  LOGSIZE, MAXOPBLOCKS,
  log_size,     \* log.size, the header block included (sb.nlog)
  OPBLOCKS      \* blocks that one operation really writes, at most

(* begin_op() reserves MAXOPBLOCKS for each operation.  log_write() tests  *)
(* for room before it looks for the block in the log, and against          *)
(* log.size - 1, which mkfs makes one less than LOGSIZE: an operation has  *)
(* to leave that much of its reservation unused.                           *)
ASSUME LogSizes ==
  /\ {LOGSIZE, MAXOPBLOCKS, log_size, OPBLOCKS} \subseteq Nat \ {0}
  /\ OPBLOCKS < MAXOPBLOCKS /\ MAXOPBLOCKS <= LOGSIZE
  /\ LOGSIZE - MAXOPBLOCKS + OPBLOCKS < log_size - 1
ASSUME NoBufAssumption == NoBuf \notin Content \cup HomeBlock

VARIABLES
  disk,         \* home blocks on the disk
  logarea,      \* log blocks on the disk
  dhead,        \* header block on the disk: the block numbers in it
  cache, bref,  \* each home block's buffer and its refcnt
  lh,           \* log.lh
  outstanding, committing,
  recovering,   \* in recover_from_log(): nothing else runs yet
  phase, tail,  \* where commit() or recovery is
  lpc, lbuf,    \* what each process is doing, and the block it has locked
  wrote         \* blocks its operation has logged

logVars == <<disk, logarea, dhead, cache, bref, lh, outstanding, committing,
             recovering, phase, tail, lpc, lbuf, wrote>>

LogSlot == 1 .. LOGSIZE

(***************************************************************************)
(* "user": outside; "begin", "asleep": in begin_op(); "op": between        *)
(* begin_op() and end_op(); "hold", "dirty", "logged": there, with a       *)
(* locked buffer; "commit": in end_op(), committing.                       *)
(***************************************************************************)
Holding == {"hold", "dirty", "logged"}
LogPc   == Holding \cup {"user", "begin", "asleep", "op", "commit"}
Phase   == {"idle", "write_log", "write_head", "install", "clear", "done", "read_head"}

(* Memory after a reset, and initlog() called by the first process.        *)
Boot ==
  /\ cache' = [b \in HomeBlock |-> NoBuf]
  /\ bref' = [b \in HomeBlock |-> 0]
  /\ lh' = <<>>
  /\ outstanding' = 0 /\ committing' = FALSE
  /\ recovering' = TRUE /\ phase' = "read_head" /\ tail' = 1
  /\ lpc' = [p \in FsProc |-> "user"]
  /\ lbuf' = [p \in FsProc |-> NoBuf]
  /\ wrote' = [p \in FsProc |-> {}]

(* The first boot from the image that mkfs made.                           *)
LogInit ==
  /\ \E v \in Content :
       /\ disk = [b \in HomeBlock |-> v]
       /\ logarea = [i \in LogSlot |-> v]
  /\ dhead = <<>>
  /\ cache = [b \in HomeBlock |-> NoBuf]
  /\ bref = [b \in HomeBlock |-> 0]
  /\ lh = <<>>
  /\ outstanding = 0 /\ committing = FALSE
  /\ recovering = TRUE /\ phase = "read_head" /\ tail = 1
  /\ lpc = [p \in FsProc |-> "user"]
  /\ lbuf = [p \in FsProc |-> NoBuf]
  /\ wrote = [p \in FsProc |-> {}]

InLog(b) == \E i \in 1 .. Len(lh) : lh[i] = b
Now(b)   == IF cache[b] = NoBuf THEN disk[b] ELSE cache[b]

WokenLater(pcs) == pcs
Woken(pcs) == [p \in FsProc |-> IF pcs[p] = "asleep" THEN "begin" ELSE pcs[p]]

-----------------------------------------------------------------------------
(* Operations.                                                             *)

MayBeginByCount ==
  /\ ~committing
  /\ (outstanding + 1) * MAXOPBLOCKS <= LOGSIZE

MayBegin ==
  /\ ~committing
  /\ Len(lh) + (outstanding + 1) * MAXOPBLOCKS <= LOGSIZE

begin_op(p) ==
  /\ ~recovering /\ lpc[p] \in {"user", "begin"}
  /\ \/ /\ MayBegin
        /\ outstanding' = outstanding + 1
        /\ lpc' = [lpc EXCEPT ![p] = "op"]
        /\ wrote' = [wrote EXCEPT ![p] = {}]
     \/ /\ ~MayBegin
        /\ lpc' = [lpc EXCEPT ![p] = "asleep"]
        /\ UNCHANGED <<outstanding, wrote>>
  /\ UNCHANGED <<disk, logarea, dhead, cache, bref, lh, committing,
                 recovering, phase, tail, lbuf>>

Locked(b) == \E q \in FsProc : lbuf[q] = b

(* bread() of a home block by an operation.                                *)
Bread(p, b) ==
  /\ lpc[p] = "op" /\ ~Locked(b)
  /\ cache' = [cache EXCEPT ![b] = Now(b)]
  /\ bref' = [bref EXCEPT ![b] = @ + 1]
  /\ lbuf' = [lbuf EXCEPT ![p] = b]
  /\ lpc' = [lpc EXCEPT ![p] = "hold"]
  /\ UNCHANGED <<disk, logarea, dhead, lh, outstanding, committing,
                 recovering, phase, tail, wrote>>

Modify(p, v) ==
  /\ lpc[p] = "hold"
  /\ Cardinality(wrote[p] \cup {lbuf[p]}) <= OPBLOCKS
  /\ cache' = [cache EXCEPT ![lbuf[p]] = v]
  /\ lpc' = [lpc EXCEPT ![p] = "dirty"]
  /\ UNCHANGED <<disk, logarea, dhead, bref, lh, outstanding, committing,
                 recovering, phase, tail, lbuf, wrote>>

(* log_write()'s panic("too big a transaction").                           *)
LogFull == Len(lh) >= LOGSIZE \/ Len(lh) >= log_size - 1

AbsorbUnpinned(b) ==
  \/ InLog(b) /\ UNCHANGED <<lh, bref>>
  \/ /\ ~InLog(b)
     /\ lh' = Append(lh, b)
     /\ UNCHANGED bref

(* Log absorption, or a new entry with bpin().                             *)
Absorb(b) ==
  \/ InLog(b) /\ UNCHANGED <<lh, bref>>
  \/ /\ ~InLog(b)
     /\ lh' = Append(lh, b)
     /\ bref' = [bref EXCEPT ![b] = @ + 1]

log_write(p) ==
  /\ lpc[p] = "dirty"
  /\ ~LogFull /\ outstanding >= 1
  /\ Absorb(lbuf[p])
  /\ wrote' = [wrote EXCEPT ![p] = @ \cup {lbuf[p]}]
  /\ lpc' = [lpc EXCEPT ![p] = "logged"]
  /\ UNCHANGED <<disk, logarea, dhead, cache, outstanding, committing,
                 recovering, phase, tail, lbuf>>

(* brelse() of a block that was only read, or that has been logged.        *)
Brelse(p) ==
  /\ lpc[p] \in {"hold", "logged"}
  /\ bref' = [bref EXCEPT ![lbuf[p]] = @ - 1]
  /\ lbuf' = [lbuf EXCEPT ![p] = NoBuf]
  /\ lpc' = [lpc EXCEPT ![p] = "op"]
  /\ UNCHANGED <<disk, logarea, dhead, cache, lh, outstanding, committing,
                 recovering, phase, tail, wrote>>

(* bget() recycles the buffer for some other block.                        *)
Evict(b) ==
  /\ cache[b] # NoBuf /\ bref[b] = 0
  /\ cache' = [cache EXCEPT ![b] = NoBuf]
  /\ UNCHANGED <<disk, logarea, dhead, bref, lh, outstanding, committing,
                 recovering, phase, tail, lpc, lbuf, wrote>>

(* The last operation commits; another one makes room for a sleeper.       *)
end_op(p) ==
  /\ lpc[p] = "op" /\ ~committing
  /\ outstanding' = outstanding - 1
  /\ \/ /\ outstanding = 1
        /\ committing' = TRUE
        /\ phase' = IF Len(lh) > 0 THEN "write_log" ELSE "done"
        /\ tail' = 1
        /\ lpc' = [lpc EXCEPT ![p] = "commit"]
     \/ /\ outstanding > 1
        /\ lpc' = Woken([lpc EXCEPT ![p] = "user"])
        /\ UNCHANGED <<committing, phase, tail>>
  /\ UNCHANGED <<disk, logarea, dhead, cache, bref, lh, recovering, lbuf, wrote>>

-----------------------------------------------------------------------------
(* commit() and recover_from_log(), one block written to disk per step.    *)

(* The loops over tail: on to the next block, or to the next phase.        *)
Advance(next) ==
  IF tail < Len(lh) THEN tail' = tail + 1 /\ UNCHANGED phase
                    ELSE tail' = 1 /\ phase' = next

write_log ==
  /\ phase = "write_log"
  /\ logarea' = [logarea EXCEPT ![tail] = Now(lh[tail])]
  /\ Advance("write_head")
  /\ UNCHANGED <<disk, dhead, cache, bref, lh, outstanding, committing,
                 recovering, lpc, lbuf, wrote>>

(* The true commit point.                                                  *)
write_head ==
  /\ phase = "write_head"
  /\ dhead' = lh
  /\ phase' = "install"
  /\ UNCHANGED <<disk, logarea, cache, bref, lh, outstanding, committing,
                 recovering, tail, lpc, lbuf, wrote>>

install_trans ==
  /\ phase = "install"
  /\ LET b == lh[tail] IN
       /\ disk' = [disk EXCEPT ![b] = logarea[tail]]
       /\ cache' = [cache EXCEPT ![b] = logarea[tail]]
       /\ bref' = [bref EXCEPT ![b] = IF recovering THEN @ ELSE @ - 1]
  /\ Advance("clear")
  /\ UNCHANGED <<logarea, dhead, lh, outstanding, committing, recovering,
                 lpc, lbuf, wrote>>

ClearHead ==
  /\ phase = "clear"
  /\ lh' = <<>> /\ dhead' = <<>>
  /\ phase' = IF recovering THEN "idle" ELSE "done"
  /\ recovering' = FALSE
  /\ UNCHANGED <<disk, logarea, cache, bref, outstanding, committing, tail,
                 lpc, lbuf, wrote>>

(* The end of end_op().                                                    *)
Committed(p) ==
  /\ lpc[p] = "commit" /\ phase = "done"
  /\ committing' = FALSE
  /\ phase' = "idle"
  /\ lpc' = Woken([lpc EXCEPT ![p] = "user"])
  /\ UNCHANGED <<disk, logarea, dhead, cache, bref, lh, outstanding,
                 recovering, tail, lbuf, wrote>>

read_head ==
  /\ phase = "read_head"
  /\ lh' = dhead
  /\ phase' = IF Len(dhead) > 0 THEN "install" ELSE "clear"
  /\ UNCHANGED <<disk, logarea, dhead, cache, bref, outstanding, committing,
                 recovering, tail, lpc, lbuf, wrote>>

(* Power fails; what is on the disk stays.                                 *)
Crash == Boot /\ UNCHANGED <<disk, logarea, dhead>>

LogStep(p) ==
  \/ begin_op(p)
  \/ \E b \in HomeBlock : Bread(p, b)
  \/ \E v \in Content : Modify(p, v)
  \/ log_write(p)
  \/ Brelse(p)
  \/ end_op(p)
  \/ Committed(p)

LogNext ==
  \/ \E p \in FsProc : LogStep(p)
  \/ \E b \in HomeBlock : Evict(b)
  \/ write_log \/ write_head \/ install_trans \/ ClearHead \/ read_head
  \/ Crash

LogSpec == LogInit /\ [][LogNext]_logVars

-----------------------------------------------------------------------------
(* Properties.                                                             *)

(* What a reader of the recovered disk finds in block b.                   *)
Recovered(b) ==
  IF \E i \in 1 .. Len(dhead) : dhead[i] = b
  THEN logarea[CHOOSE i \in 1 .. Len(dhead) : dhead[i] = b]
  ELSE disk[b]

LogDurable == [b \in HomeBlock |-> Recovered(b)]
LogMem     == IF recovering THEN LogDurable ELSE [b \in HomeBlock |-> Now(b)]

Atomic == INSTANCE AtomicDisk WITH
            mem <- LogMem, durable <- LogDurable, active <- outstanding

(* log.c:10: whatever the moment of a crash, also in the midst of commit() *)
(* or of a recovery, the disk holds all writes of every operation whose    *)
(* commit was reached and none of any other; and what end_op() of the last *)
(* operation returns from is durable.                                      *)
LogAtomic == Atomic!AtomicSpec

(* begin_op()'s estimate (log.c:133): an operation it has admitted never   *)
(* reaches the panics of log_write(), however many operations share the    *)
(* log, nor the one of end_op().                                           *)
LogSpace ==
  \A p \in FsProc :
    /\ lpc[p] = "dirty" => ~LogFull
    /\ lpc[p] \in Holding \cup {"op"} => outstanding >= 1 /\ ~committing

(* A process asleep in begin_op() has an operation or a commit under way   *)
(* whose end_op() will wake it.                                            *)
SleeperHasWaker ==
  \A p \in FsProc : lpc[p] = "asleep" => outstanding > 0 \/ committing
=============================================================================
