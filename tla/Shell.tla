-------------------------------- MODULE Shell -------------------------------
(***************************************************************************)
(* A pipeline of user/sh.c on top of Files: runcmd() of a PIPE command     *)
(* makes a pipe, forks the two commands, closes its own descriptors and    *)
(* waits twice.  The left command writes and exits, the right one reads    *)
(* until end of file or until it has had enough, and exits.                *)
(***************************************************************************)
EXTENDS Files

CONSTANTS
  sh, leftcmd, rightcmd,    \* the shell and its two children
  MaxWrites                 \* bound on the writes of the left command

ASSUME ShellAssumption ==
  /\ {sh, leftcmd, rightcmd} \subseteq FileProc /\ Cardinality({sh, leftcmd, rightcmd}) = 3
  /\ MaxWrites \in Nat
  /\ NOFILE >= 4 /\ NFILE >= 3

VARIABLES
  line,     \* the next statement of each process
  writes    \* writes of the left command so far

shellVars == <<fileVars2, line, writes>>

(* Descriptors 0 and 1 are open, so that pipe(p) returns 2 and 3.          *)
ShellInit ==
  /\ FilesInit(sh, 2)
  /\ line = [p \in FileProc |-> "begin"]
  /\ writes = 0

(* The statement at one line of p, after which it is at another.           *)
At2(p, l) == line[p] = l
Then(p, l) == line' = [line EXCEPT ![p] = l] /\ UNCHANGED writes

(* runcmd(), case PIPE, in the shell; the two wait(0) are one step.        *)
ShellStatement ==
  \/ At2(sh, "begin") /\ sys_pipe(sh) /\ Then(sh, "fork_left")
  \/ At2(sh, "fork_left") /\ forkFiles(sh, leftcmd) /\ Then(sh, "fork_right")
  \/ At2(sh, "fork_right") /\ forkFiles(sh, rightcmd) /\ Then(sh, "close_p0")
  \/ At2(sh, "close_p0") /\ sys_closeFd(sh, 2) /\ Then(sh, "close_p1")
  \/ At2(sh, "close_p1") /\ sys_closeFd(sh, 3) /\ Then(sh, "wait")
  \/ /\ At2(sh, "wait") /\ Running(sh)
     /\ ppc[leftcmd] = "zombie" /\ ppc[rightcmd] = "zombie"
     /\ Then(sh, "done")
     /\ UNCHANGED fileVars2

(* A child closes std, which is descriptor d, makes it a copy of its end   *)
(* of the pipe, and closes both descriptors of the pipe.                   *)
Redirect(p, std, d) ==
  \/ At2(p, "begin") /\ sys_closeFd(p, std) /\ Then(p, "dup")
  \/ At2(p, "dup") /\ sys_dup(p, d) /\ Then(p, "close_p0")
  \/ At2(p, "close_p0") /\ sys_closeFd(p, 2) /\ Then(p, "close_p1")
  \/ At2(p, "close_p1") /\ sys_closeFd(p, 3) /\ Then(p, "command")

Killed(p) == p \in pkilled

(* The left command writes a number of times; after a kill it exits on its *)
(* way back to user space.                                                 *)
LeftCommand ==
  \/ /\ At2(leftcmd, "command") /\ writes < MaxWrites /\ ~Killed(leftcmd)
     /\ \E m \in Message : filewritePipe(leftcmd, 1, m)
     /\ writes' = writes + 1
     /\ UNCHANGED line
  \/ pipewrite(leftcmd) /\ UNCHANGED <<line, writes>>
  \/ At2(leftcmd, "command") /\ writes = MaxWrites /\ Running(leftcmd) /\ Then(leftcmd, "exit")
       /\ UNCHANGED fileVars2

(* The right command reads until read() returns 0, or stops before.        *)
RightCommand ==
  \/ /\ At2(rightcmd, "command") /\ ~Killed(rightcmd)
     /\ filereadPipe(rightcmd, 0)
     /\ UNCHANGED <<line, writes>>
  \/ \E n \in 1 .. PIPESIZE :
       /\ piperead(rightcmd, n)
       /\ IF Count = 0 /\ ~pipe.writeopen THEN Then(rightcmd, "exit")
          ELSE UNCHANGED <<line, writes>>
  \/ At2(rightcmd, "command") /\ Running(rightcmd) /\ Then(rightcmd, "exit")
       /\ UNCHANGED fileVars2

Exit(p) ==
  /\ line[p] = "exit" \/ (Killed(p) /\ line[p] = "command")
  /\ exitCloses(p)
  /\ UNCHANGED <<line, writes>>

(* What p does next; a last close of an end of the pipe goes first.        *)
Statement(p) ==
  \/ pipeclose(p) /\ UNCHANGED <<line, writes>>
  \/ p = sh /\ ShellStatement
  \/ p = leftcmd /\ (Redirect(p, 1, 3) \/ LeftCommand \/ Exit(p))
  \/ p = rightcmd /\ (Redirect(p, 0, 2) \/ RightCommand \/ Exit(p))

(* One of the commands may be killed once it runs.                         *)
KillCommand ==
  /\ pkilled = {}
  /\ \E p \in {leftcmd, rightcmd} : At2(p, "command") /\ killSleeper(p)
  /\ UNCHANGED <<line, writes>>

ShellNext == (\E p \in FileProc : Statement(p)) \/ KillCommand

(* Every process that can run does.                                        *)
ShellFair == \A p \in FileProc : WF_shellVars(Statement(p))

ShellSpec == ShellInit /\ [][ShellNext]_shellVars /\ ShellFair

-----------------------------------------------------------------------------
(* sh.c:101: the shell gets past its two wait() calls, whichever command   *)
(* ends first, with a reader or a writer asleep in the pipe, or killed     *)
(* there: every sleep in the pipe ends and end of file arrives.            *)
PipelineEnds == At2(sh, "wait") ~> At2(sh, "done")
=============================================================================
