-------------------------------- MODULE Files -------------------------------
(***************************************************************************)
(* Open files and pipes: kernel/file.c, kernel/pipe.c, the file calls of   *)
(* kernel/sysfile.c, and what fork() and exit() do to open files.          *)
(*                                                                         *)
(* ftable.lock and the pipe's lock make a stretch of code between two      *)
(* sleeps one step; fileclose() calls pipeclose() after it has released    *)
(* ftable.lock, which is a step of its own.  There is one pipe at a time,  *)
(* and other files are alike.                                              *)
(*                                                                         *)
(* An operator defined just before another of like name is a faulty form   *)
(* of it that no action uses (see Mlfq).                                   *)
(***************************************************************************)
EXTENDS Integers, Sequences, FiniteSets

CONSTANTS
  FileProc,         \* processes
  NFILE, NOFILE,    \* open files of the system and of a process
  PIPESIZE,
  PIPEMOD,          \* nread and nwrite wrap around: 2^32 in the code
  Byte,             \* values of a byte
  Message           \* what processes write into the pipe

File == 1 .. NFILE
Fd   == 0 .. NOFILE - 1
NoFd == 0

ASSUME FilesAssumption ==
  /\ {NFILE, NOFILE, PIPESIZE, PIPEMOD} \subseteq Nat \ {0}
  /\ PIPEMOD % PIPESIZE = 0 /\ PIPEMOD > PIPESIZE
  /\ Message \subseteq Seq(Byte)
  /\ IsFiniteSet(FileProc)

VARIABLES
  ofile,    \* p->ofile; NoFd where closed
  ftable,   \* [ref, type] of each file: "none", "other", "read", "write"
  pipe,     \* [readopen, writeopen, nread, nwrite, data]
  ppc,      \* "new", "run", "write", "read", "exiting", "zombie"
  asleep,   \* processes asleep on &pi->nread or &pi->nwrite
  end,      \* the end that a process is about to pipeclose()
  left,     \* what is left to write
  pkilled   \* killed processes

fileVars2 == <<ofile, ftable, pipe, ppc, asleep, end, left, pkilled>>

NoPipe == [readopen |-> FALSE, writeopen |-> FALSE, nread |-> 0, nwrite |-> 0,
           data |-> [k \in 0 .. PIPESIZE - 1 |-> 0]]

Closed == [f \in Fd |-> NoFd]

(* One process runs, with its standard input and output open.              *)
FilesInit(first, open) ==
  /\ ofile = [p \in FileProc |-> IF p = first THEN [d \in Fd |-> IF d < open THEN 1 ELSE NoFd]
                                              ELSE Closed]
  /\ ftable = [f \in File |-> IF f = 1 /\ open > 0 THEN [ref |-> open, type |-> "other"]
                                                   ELSE [ref |-> 0, type |-> "none"]]
  /\ pipe = NoPipe
  /\ ppc = [p \in FileProc |-> IF p = first THEN "run" ELSE "new"]
  /\ asleep = {} /\ pkilled = {}
  /\ end = [p \in FileProc |-> "none"]
  /\ left = [p \in FileProc |-> <<>>]

-----------------------------------------------------------------------------
(* Files.                                                                  *)

FreeFiles  == {f \in File : ftable[f].ref = 0}
FreeFds(p) == {d \in Fd : ofile[p][d] = NoFd}
FirstFd(S)   == CHOOSE x \in S : \A y \in S : x <= y
PGoTo(p, s) == ppc' = [ppc EXCEPT ![p] = s]
Running(p) == ppc[p] = "run" /\ end[p] = "none"

(* filealloc() and fdalloc(); without a file or a descriptor, the call     *)
(* undoes what it did.                                                     *)
sys_openFd(p) ==
  /\ Running(p)
  /\ IF FreeFiles = {} \/ FreeFds(p) = {} THEN UNCHANGED <<ofile, ftable>>
     ELSE /\ ofile' = [ofile EXCEPT ![p][FirstFd(FreeFds(p))] = FirstFd(FreeFiles)]
          /\ ftable' = [ftable EXCEPT ![FirstFd(FreeFiles)] = [ref |-> 1, type |-> "other"]]
  /\ UNCHANGED <<pipe, ppc, asleep, end, left, pkilled>>

(* pipealloc(), fdalloc() twice and copyout(); a call that fails undoes    *)
(* what it did.                                                            *)
sys_pipe(p) ==
  LET rf  == FirstFd(FreeFiles)
      wf  == FirstFd(FreeFiles \ {rf})
      fd0 == FirstFd(FreeFds(p))
      fd1 == FirstFd(FreeFds(p) \ {fd0})
  IN
  /\ Running(p)
  /\ ~pipe.readopen /\ ~pipe.writeopen
  /\ IF Cardinality(FreeFiles) < 2 \/ Cardinality(FreeFds(p)) < 2
     THEN UNCHANGED <<ofile, ftable, pipe>>
     ELSE /\ ofile' = [ofile EXCEPT ![p][fd0] = rf, ![p][fd1] = wf]
          /\ ftable' = [ftable EXCEPT ![rf] = [ref |-> 1, type |-> "read"],
                                      ![wf] = [ref |-> 1, type |-> "write"]]
          /\ pipe' = [NoPipe EXCEPT !.readopen = TRUE, !.writeopen = TRUE]
  /\ UNCHANGED <<ppc, asleep, end, left, pkilled>>

filedup(f) == [ftable EXCEPT ![f].ref = @ + 1]

sys_dup(p, d) ==
  /\ Running(p)
  /\ ofile[p][d] # NoFd
  /\ IF FreeFds(p) = {} THEN UNCHANGED <<ofile, ftable>>
     ELSE /\ ofile' = [ofile EXCEPT ![p][FirstFd(FreeFds(p))] = ofile[p][d]]
          /\ ftable' = filedup(ofile[p][d])
  /\ UNCHANGED <<pipe, ppc, asleep, end, left, pkilled>>

LastRef(f) == ftable[f].ref = 1

(* fileclose() of descriptor d, up to the release of ftable.lock.          *)
fileclose(p, d, back) ==
  LET f == ofile[p][d] IN
  /\ ofile' = [ofile EXCEPT ![p][d] = NoFd]
  /\ ftable' = [ftable EXCEPT ![f].ref = @ - 1, ![f].type = IF LastRef(f) THEN "none" ELSE @]
  /\ IF LastRef(f) /\ ftable[f].type \in {"read", "write"}
     THEN end' = [end EXCEPT ![p] = ftable[f].type] ELSE UNCHANGED end
  /\ PGoTo(p, back)
  /\ UNCHANGED <<pipe, asleep, left, pkilled>>

sys_closeFd(p, d) ==
  /\ Running(p)
  /\ ofile[p][d] # NoFd
  /\ fileclose(p, d, "run")

pipecloseQuietly(p) == asleep
pipecloseWakes(p) ==
  {q \in asleep : ppc[q] # (IF end[p] = "write" THEN "read" ELSE "write")}

(* pipeclose(), and kfree() of the pipe after both ends.                   *)
pipeclose(p) ==
  LET r == pipe.readopen /\ end[p] # "read"
      w == pipe.writeopen /\ end[p] # "write" IN
  /\ end[p] # "none"
  /\ pipe' = IF r \/ w THEN [pipe EXCEPT !.readopen = r, !.writeopen = w] ELSE NoPipe
  /\ asleep' = pipecloseWakes(p)
  /\ end' = [end EXCEPT ![p] = "none"]
  /\ UNCHANGED <<ofile, ftable, ppc, left, pkilled>>

forkNoDup(p) == ftable
forkDups(p) ==
  [f \in File |-> [ftable[f] EXCEPT !.ref = @ + Cardinality({d \in Fd : ofile[p][d] = f})]]

(* The child shares every open file.                                       *)
forkFiles(p, np) ==
  /\ Running(p) /\ ppc[np] = "new"
  /\ ofile' = [ofile EXCEPT ![np] = ofile[p]]
  /\ ftable' = forkDups(p)
  /\ PGoTo(np, "run")
  /\ UNCHANGED <<pipe, asleep, end, left, pkilled>>

(* exit() closes one descriptor after the other.                           *)
exitCloses(p) ==
  LET open == {d \in Fd : ofile[p][d] # NoFd} IN
  /\ ppc[p] \in {"run", "exiting"} /\ end[p] = "none"
  /\ IF open # {} THEN fileclose(p, FirstFd(open), "exiting")
     ELSE /\ PGoTo(p, "zombie")
          /\ UNCHANGED <<ofile, ftable, pipe, asleep, end, left, pkilled>>

-----------------------------------------------------------------------------
(* The pipe.                                                               *)

Count == (pipe.nwrite - pipe.nread) % PIPEMOD

(* write() and read() of a descriptor enter the pipe.                      *)
filewritePipe(p, d, m) ==
  /\ Running(p)
  /\ ofile[p][d] # NoFd /\ ftable[ofile[p][d]].type = "write"
  /\ left' = [left EXCEPT ![p] = m]
  /\ PGoTo(p, "write")
  /\ UNCHANGED <<ofile, ftable, pipe, asleep, end, pkilled>>

filereadPipe(p, d) ==
  /\ Running(p)
  /\ ofile[p][d] # NoFd /\ ftable[ofile[p][d]].type = "read"
  /\ PGoTo(p, "read")
  /\ UNCHANGED <<ofile, ftable, pipe, asleep, end, left, pkilled>>

RoomOffByOne == PIPESIZE + 1 - Count
Room == PIPESIZE - Count

(* The pipe after the next n bytes of p.                                   *)
Put(p, n) ==
  [pipe EXCEPT !.nwrite = (@ + n) % PIPEMOD,
               !.data = [k \in DOMAIN @ |->
                           LET i == (k - pipe.nwrite) % PIPESIZE IN
                           IF i < n THEN left[p][i + 1] ELSE @[k]]]

(* pipewrite() until it sleeps or returns; copyin() may fail at any byte.  *)
pipewrite(p) ==
  LET n     == IF Room < Len(left[p]) THEN Room ELSE Len(left[p])
      goes  == pipe.readopen /\ p \notin pkilled
      woken == {q \in asleep : ppc[q] # "read"}
  IN
  /\ ppc[p] = "write" /\ p \notin asleep
  /\ \/ /\ left[p] # <<>> /\ ~goes
        /\ left' = [left EXCEPT ![p] = <<>>]
        /\ PGoTo(p, "run")
        /\ UNCHANGED <<pipe, asleep>>
     \/ /\ left[p] = <<>> \/ goes
        /\ pipe' = Put(p, n)
        /\ left' = [left EXCEPT ![p] = SubSeq(@, n + 1, Len(@))]
        /\ IF n < Len(left[p])
           THEN asleep' = woken \cup {p} /\ UNCHANGED ppc
           ELSE asleep' = woken /\ PGoTo(p, "run")
     \/ /\ goes
        /\ \E k \in 0 .. n : k < Len(left[p]) /\ pipe' = Put(p, k)
        /\ left' = [left EXCEPT ![p] = <<>>]
        /\ asleep' = woken
        /\ PGoTo(p, "run")
  /\ UNCHANGED <<ofile, ftable, end, pkilled>>

(* piperead() of up to n bytes, or up to the one that copyout() cannot     *)
(* deliver, until it sleeps or returns.                                    *)
piperead(p, n) ==
  /\ ppc[p] = "read" /\ p \notin asleep
  /\ \/ /\ Count = 0 /\ pipe.writeopen /\ p \notin pkilled
        /\ asleep' = asleep \cup {p}
        /\ UNCHANGED <<pipe, ppc>>
     \/ /\ Count = 0 /\ pipe.writeopen /\ p \in pkilled
        /\ PGoTo(p, "run")
        /\ UNCHANGED <<pipe, asleep>>
     \/ /\ Count # 0 \/ ~pipe.writeopen
        /\ pipe' = [pipe EXCEPT !.nread = (@ + (IF n < Count THEN n ELSE Count)) % PIPEMOD]
        /\ asleep' = {q \in asleep : ppc[q] # "write"}
        /\ PGoTo(p, "run")
  /\ UNCHANGED <<ofile, ftable, end, left, pkilled>>

(* kill() wakes its victim wherever it sleeps.                             *)
killSleeper(p) ==
  /\ ppc[p] \notin {"new", "zombie"} /\ p \notin pkilled
  /\ pkilled' = pkilled \cup {p}
  /\ asleep' = asleep \ {p}
  /\ UNCHANGED <<ofile, ftable, pipe, ppc, end, left>>

(* Any process makes any call, except that pipes are only opened, shared   *)
(* and closed: Shell reads and writes them.                                *)
FilesStep(p) ==
  \/ sys_openFd(p) \/ sys_pipe(p) \/ pipeclose(p)
  \/ p # FirstFd(FileProc) /\ exitCloses(p)
  \/ \E d \in Fd : sys_dup(p, d) \/ sys_closeFd(p, d)
  \/ \E np \in FileProc : forkFiles(p, np)

FilesNext == \E p \in FileProc : FilesStep(p)

-----------------------------------------------------------------------------
(* Properties.                                                             *)

Users(f) == {u \in FileProc \X Fd : ofile[u[1]][u[2]] = f}

(* An end of the pipe is open while a file of that type is, or the process *)
(* that closed the last one has not called pipeclose() yet.                *)
EndOpen(t) == (\E f \in File : ftable[f].type = t) \/ (\E p \in FileProc : end[p] = t)

(* file.c: the reference count of an open file is the number of            *)
(* descriptors that name it, through dup, fork, exit and close of several  *)
(* processes, and each end of the pipe is closed when, and only when, the  *)
(* last of its files is.                                                   *)
FilesCounted ==
  /\ \A f \in File : ftable[f].ref = Cardinality(Users(f))
  /\ pipe.readopen = EndOpen("read") /\ pipe.writeopen = EndOpen("write")

Inside == [k \in 1 .. Count |-> pipe.data[(pipe.nread + k - 1) % PIPESIZE]]

Pipe == INSTANCE Fifo WITH fifo <- Inside, Capacity <- PIPESIZE

(* pipe.c: with counters that wrap around, the pipe is a first-in          *)
(* first-out queue of at most PIPESIZE bytes.                              *)
PipeIsFifo == Pipe!FifoSpec
=============================================================================
