------------------------------ MODULE MCKernel ------------------------------
(***************************************************************************)
(* Safety of the remaining parts.  They are checked side by side, not      *)
(* through one another: a behaviour picks one of them, and the others stay *)
(* in their first state.                                                   *)
(***************************************************************************)
EXTENDS Bcache, Inode, Files, Memory, UserCopy, Console, Clock, Spin, Pstat,
        Umalloc, ShParse, TLC

VARIABLE part

fsVars   == <<bufVars, treeVars, fileVars2>>
coreVars == <<memVars, copyVars, consVars, clockVars, spinVars, statVars>>
userVars == <<heapVars, parseVars>>
kernelVars == <<fsVars, coreVars, userVars, part>>

KernelInit ==
  /\ part \in {"bio", "tree", "files", "mem", "copy", "cons", "clock",
               "spin", "stat", "heap", "parse"}
  /\ BufInit /\ TreeInit /\ FilesInit(1, 0)
  /\ MemInit /\ CopyInit /\ ConsInit /\ SpinInit /\ StatInit
  /\ ClockInit /\ (part # "clock" => ticks = 0)
  /\ part # "cons" => r = 0
  /\ HeapInit /\ ParseInit

FsNext ==
  \/ part = "bio" /\ BufNext /\ UNCHANGED <<treeVars, fileVars2>>
  \/ part = "tree" /\ TreeNext /\ UNCHANGED <<bufVars, fileVars2>>
  \/ part = "files" /\ FilesNext /\ UNCHANGED <<bufVars, treeVars>>

CoreNext ==
  \/ part = "mem" /\ MemNext /\ UNCHANGED <<copyVars, consVars, clockVars, spinVars, statVars>>
  \/ part = "copy" /\ CopyNext /\ UNCHANGED <<memVars, consVars, clockVars, spinVars, statVars>>
  \/ part = "cons" /\ ConsNext /\ UNCHANGED <<memVars, copyVars, clockVars, spinVars, statVars>>
  \/ part = "clock" /\ ClockNext /\ UNCHANGED <<memVars, copyVars, consVars, spinVars, statVars>>
  \/ part = "spin" /\ SpinNext /\ UNCHANGED <<memVars, copyVars, consVars, clockVars, statVars>>
  \/ part = "stat" /\ StatNext /\ UNCHANGED <<memVars, copyVars, consVars, clockVars, spinVars>>

UserNext ==
  \/ part = "heap" /\ HeapNext /\ UNCHANGED parseVars
  \/ part = "parse" /\ ParseNext /\ UNCHANGED heapVars

KernelNext ==
  /\ UNCHANGED part
  /\ \/ FsNext /\ UNCHANGED <<coreVars, userVars>>
     \/ CoreNext /\ UNCHANGED <<fsVars, userVars>>
     \/ UserNext /\ UNCHANGED <<fsVars, coreVars>>

KernelSpec == KernelInit /\ [][KernelNext]_kernelVars

Paths    == {<<"/", "a">>, <<"b">>, <<"a", "b">>}
Programs == {<<1, 2>>}
Flags    == {{}, {"V"}, {"V", "U"}, {"V", "U", "W"}}
Memories == {[a \in 0 .. 5 |-> 1], [a \in 0 .. 5 |-> IF a = 3 THEN 0 ELSE 1],
             [a \in 0 .. 5 |-> a % 5]}
Lines ==
  UNION {[1 .. n -> {"a", " ", "|", ";", "&", "(", ")", "<", ">"}] : n \in 0 .. 3}
    \cup UNION {[1 .. n -> {"a", ";", "|", "(", ")"}] : n \in 4 .. 5}
    \cup UNION {[1 .. n -> {"a", " ", "&", ">"}] : n \in 4 .. 5}

(* The same two values name processes of the cache and of the tree.        *)
Interchangeable == Permutations(TreeProc) \cup Permutations(BlockData)
=============================================================================
