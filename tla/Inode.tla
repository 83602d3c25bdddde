------------------------------- MODULE Inode --------------------------------
(***************************************************************************)
(* Inodes, directories and paths: the inode table of kernel/fs.c (iget,    *)
(* idup, ilock, iput, ialloc), namex(), dirlookup() and dirlink(), and the *)
(* system calls of kernel/sysfile.c that change the tree: open, mkdir,     *)
(* link, unlink, chdir, and close.                                         *)
(*                                                                         *)
(* A process runs in steps that end where it next waits for an inode's     *)
(* sleep lock or takes itable.lock again; what it does in between to an    *)
(* inode it has locked is one step.  "." is left out (it is not counted    *)
(* in nlink and cannot be unlinked); a directory's ".." is an entry.       *)
(* sys_mknod() differs from sys_mkdir() only in the type.                  *)
(*                                                                         *)
(* An operator defined just before another of like name is a faulty form   *)
(* of it that no action uses (see Mlfq).                                   *)
(***************************************************************************)
EXTENDS Integers, Sequences, FiniteSets

CONSTANTS
  TreeProc,     \* processes
  NINODES,      \* inodes of the disk, numbered from 1; ROOTINO is 1
  NINODE,       \* slots of the inode table
  FileName,     \* names of directory entries
  TreePath,     \* paths that processes use: sequences of names, after a
                \* Slash if the path is absolute
  Unlocked      \* no process

ROOTINO  == 1
Inum     == 1 .. NINODES
Slot     == 1 .. NINODE
None     == 0
DotDot   == ".."
Slash    == "/"
EntryName == FileName \cup {DotDot}
FileType == {"free", "file", "dir"}

ASSUME TreeAssumption ==
  /\ NINODES \in Nat \ {0} /\ NINODE \in Nat \ {0}
  /\ {DotDot, Slash} \cap FileName = {}
  /\ TreePath \subseteq Seq(EntryName \cup {Slash}) \ {<<>>, <<Slash>>}
  /\ \A path \in TreePath : \A k \in 2 .. Len(path) : path[k] # Slash
  /\ Unlocked \notin TreeProc
  /\ IsFiniteSet(TreeProc)

VARIABLES
  dino,     \* the inodes on disk: [type, nlink]
  dents,    \* the entries of each directory; None where there is none
  itable,   \* [inum, ref, valid, type, nlink, holder] of each slot
  tp        \* each process: [pc, op, path, new, ip, dp, target,
            \*  drop (slots to iput first), freed (iput's last part), cwd, fd]

treeVars == <<dino, dents, itable, tp>>

NoEntries == [n \in EntryName |-> None]

(* Between system calls; the local variables of the last one are gone.     *)
Idle(cwd, fd, drop) ==
  [pc |-> "idle", op |-> "none", path |-> <<>>, new |-> <<>>, ip |-> None, dp |-> None,
   target |-> None, drop |-> drop, freed |-> FALSE, cwd |-> cwd, fd |-> fd]

(* A fresh file system; every process has the root as its directory.       *)
TreeInit ==
  /\ dino = [i \in Inum |-> IF i = ROOTINO THEN [type |-> "dir", nlink |-> 1]
                                           ELSE [type |-> "free", nlink |-> 0]]
  /\ dents = [i \in Inum |-> IF i = ROOTINO THEN [NoEntries EXCEPT ![DotDot] = ROOTINO]
                                            ELSE NoEntries]
  /\ itable = [s \in Slot |->
                 [inum |-> IF s = 1 THEN ROOTINO ELSE None,
                  ref |-> IF s = 1 THEN Cardinality(TreeProc) ELSE 0,
                  valid |-> FALSE, type |-> "free", nlink |-> 0, holder |-> Unlocked]]
  /\ tp = [p \in TreeProc |-> Idle(1, None, <<>>)]

-----------------------------------------------------------------------------
(* The inode table.                                                        *)

SlotOf(tbl, i)  == {s \in Slot : tbl[s].ref > 0 /\ tbl[s].inum = i}
EmptySlots(tbl) == {s \in Slot : tbl[s].ref = 0}
IsFirst(s, S)   == s \in S /\ \A t \in S : s <= t

(* Otherwise iget() panics: "iget: no inodes".                             *)
igetFinds(tbl, i) == SlotOf(tbl, i) # {} \/ \E s \in Slot : IsFirst(s, EmptySlots(tbl))

igetSlot(tbl, i) ==
  CHOOSE s \in Slot : IsFirst(s, IF SlotOf(tbl, i) # {} THEN SlotOf(tbl, i) ELSE EmptySlots(tbl))

iget(tbl, i) ==
  IF SlotOf(tbl, i) # {} THEN [tbl EXCEPT ![igetSlot(tbl, i)].ref = @ + 1]
  ELSE [tbl EXCEPT ![igetSlot(tbl, i)].inum = i,
                   ![igetSlot(tbl, i)].ref = 1,
                   ![igetSlot(tbl, i)].valid = FALSE]

idup(tbl, s) == [tbl EXCEPT ![s].ref = @ + 1]

(* ilock() when the sleep lock is free; the copy is read if not valid.     *)
ilock(tbl, s, p) ==
  [tbl EXCEPT ![s].holder = p,
              ![s].type  = IF tbl[s].valid THEN @ ELSE dino[tbl[s].inum].type,
              ![s].nlink = IF tbl[s].valid THEN @ ELSE dino[tbl[s].inum].nlink,
              ![s].valid = TRUE]

iunlock(tbl, s) == [tbl EXCEPT ![s].holder = Unlocked]

(* Add d to ip->nlink, and iupdate().                                      *)
AddLink(tbl, s, d) == [tbl EXCEPT ![s].nlink = @ + d]
iupdate(tbl, s)    == [dino EXCEPT ![tbl[s].inum] =
                         [type |-> tbl[s].type, nlink |-> tbl[s].nlink]]

(* The slot that p wants to lock at its present step.                      *)
Wants(p) ==
  CASE tp[p].drop # <<>> -> None
    [] tp[p].pc \in {"walk", "use", "existing", "new", "unlink_ip"} -> tp[p].ip
    [] tp[p].pc \in {"create", "unlink", "link"} -> tp[p].dp
    [] tp[p].pc = "link_bad" -> tp[p].target
    [] OTHER -> None

(* p is at a step that begins with ilock(), and gets the lock.             *)
At(p, pc) ==
  /\ tp[p].pc = pc
  /\ tp[p].drop = <<>>
  /\ Wants(p) # None => itable[Wants(p)].holder = Unlocked

-----------------------------------------------------------------------------
(* iput() of the slots that a process drops, before it goes on.            *)

Dropping(p) == IF tp[p].drop = <<>> THEN None ELSE Head(tp[p].drop)

LastUseAnyRef(e) == e.valid /\ e.nlink = 0
LastUse(e) == e.ref = 1 /\ e.valid /\ e.nlink = 0

(* The test under itable.lock, and ref-- if it fails.                      *)
iput(p) ==
  LET s == Dropping(p) IN
  /\ s # None /\ itable[s].holder # p /\ ~tp[p].freed
  /\ IF LastUse(itable[s])
     THEN itable' = [itable EXCEPT ![s].holder = p] /\ UNCHANGED tp
     ELSE /\ itable' = [itable EXCEPT ![s].ref = @ - 1]
          /\ tp' = [tp EXCEPT ![p].drop = Tail(@)]
  /\ UNCHANGED <<dino, dents>>

Freed(tbl, s) == [tbl EXCEPT ![s].type = "free"]

(* itrunc(), type = 0 and iupdate(): the inode can be allocated again.     *)
iputFree(p) ==
  LET s == Dropping(p) IN
  /\ s # None /\ itable[s].holder = p /\ itable[s].type # "free"
  /\ dents' = [dents EXCEPT ![itable[s].inum] = NoEntries]
  /\ itable' = Freed(itable, s)
  /\ dino' = iupdate(Freed(itable, s), s)
  /\ UNCHANGED tp

ReleasedValid(tbl, s) == [tbl EXCEPT ![s].holder = Unlocked]
Released(tbl, s) == [tbl EXCEPT ![s].holder = Unlocked, ![s].valid = FALSE]

(* valid = 0 and releasesleep().                                           *)
iputRelease(p) ==
  LET s == Dropping(p) IN
  /\ s # None /\ itable[s].holder = p /\ itable[s].type = "free"
  /\ itable' = Released(itable, s)
  /\ tp' = [tp EXCEPT ![p].freed = TRUE]
  /\ UNCHANGED <<dino, dents>>

(* ref--, under itable.lock again.                                         *)
iputDrop(p) ==
  /\ tp[p].freed
  /\ itable' = [itable EXCEPT ![Dropping(p)].ref = @ - 1]
  /\ tp' = [tp EXCEPT ![p].drop = Tail(@), ![p].freed = FALSE]
  /\ UNCHANGED <<dino, dents>>

-----------------------------------------------------------------------------
(* Paths.                                                                  *)

(* p goes on to pc after iput() of the slots in drop.                      *)
TreeGoTo(p, pc, drop) == tp' = [tp EXCEPT ![p].pc = pc, ![p].drop = drop]

Return(p, drop) == tp' = [tp EXCEPT ![p] = Idle(@.cwd, @.fd, drop)]

(* The first lines of namex(), from the root or from the directory of p:   *)
(* the slot, the table, whether iget() panics, and the elements.           *)
FromSlot(tbl, p, path) == IF path[1] = Slash THEN igetSlot(tbl, ROOTINO) ELSE tp[p].cwd
FromRef(tbl, p, path)  == IF path[1] = Slash THEN iget(tbl, ROOTINO) ELSE idup(tbl, tp[p].cwd)
FromFinds(tbl, path)   == path[1] = Slash => igetFinds(tbl, ROOTINO)
Elements(path)         == IF path[1] = Slash THEN Tail(path) ELSE path

(* A system call up to there.                                              *)
Start(p, op, path, new) ==
  /\ At(p, "idle") /\ FromFinds(itable, path)
  /\ itable' = FromRef(itable, p, path)
  /\ tp' = [tp EXCEPT ![p].pc = "walk", ![p].op = op, ![p].path = Elements(path),
                      ![p].new = new, ![p].ip = FromSlot(itable, p, path)]
  /\ UNCHANGED <<dino, dents>>

(* nameiparent() is asked for, and only the last element is left.          *)
AtParent(p) ==
  Len(tp[p].path) = 1 /\ tp[p].op \in {"create", "mkdir", "unlink", "link_new"}

(* The step of each operation that follows nameiparent().                  *)
WithParent == [create |-> "create", mkdir |-> "create", unlink |-> "unlink",
               link_new |-> "link"]

(* One turn of namex(): lock the directory, look the element up, move on.  *)
namex(p) ==
  LET ip   == tp[p].ip
      l    == ilock(itable, ip, p)
      next == dents[l[ip].inum][Head(tp[p].path)]
  IN
  /\ At(p, "walk")
  /\ \/ /\ l[ip].type # "dir" \/ (next = None /\ ~AtParent(p))
        /\ itable' = iunlock(l, ip)
        /\ IF tp[p].op = "link_new" THEN TreeGoTo(p, "link_bad", <<ip>>)
           ELSE Return(p, <<ip>>)
     \/ /\ l[ip].type = "dir" /\ AtParent(p)
        /\ itable' = iunlock(l, ip)
        /\ tp' = [tp EXCEPT ![p].pc = WithParent[tp[p].op], ![p].dp = ip]
     \/ /\ l[ip].type = "dir" /\ ~AtParent(p) /\ next # None /\ igetFinds(l, next)
        /\ itable' = iunlock(iget(l, next), ip)
        /\ tp' = [tp EXCEPT ![p].pc = IF Len(tp[p].path) = 1 THEN "use" ELSE "walk",
                            ![p].path = Tail(@), ![p].drop = <<ip>>,
                            ![p].ip = igetSlot(l, next)]
  /\ UNCHANGED <<dino, dents>>

-----------------------------------------------------------------------------
(* System calls.                                                           *)

(* sys_open() without O_CREATE; filealloc() may fail, fdalloc() does when  *)
(* the process has its one file open (NOFILE is 1 here), and a directory   *)
(* may have been asked for to write.                                       *)
sys_open(p) ==
  LET ip == tp[p].ip IN
  /\ At(p, "use") /\ tp[p].op = "open"
  /\ itable' = iunlock(ilock(itable, ip, p), ip)
  /\ \/ tp[p].fd = None /\ tp' = [tp EXCEPT ![p] = Idle(@.cwd, ip, <<>>)]
     \/ Return(p, <<ip>>)
  /\ UNCHANGED <<dino, dents>>

sys_chdir(p) ==
  LET ip == tp[p].ip
      l  == ilock(itable, ip, p) IN
  /\ At(p, "use") /\ tp[p].op = "chdir"
  /\ itable' = iunlock(l, ip)
  /\ IF l[ip].type = "dir"
     THEN tp' = [tp EXCEPT ![p] = Idle(ip, @.fd, <<@.cwd>>)]
     ELSE Return(p, <<ip>>)
  /\ UNCHANGED <<dino, dents>>

sys_close(p) ==
  /\ At(p, "idle") /\ tp[p].fd # None
  /\ tp' = [tp EXCEPT ![p] = Idle(@.cwd, None, <<@.fd>>)]
  /\ UNCHANGED <<dino, dents, itable>>

(* create(), as far as it goes with the directory locked: the name exists, *)
(* no inode is free, or ialloc() and iget() give a new one.                *)
create(p) ==
  LET dp   == tp[p].dp
      l    == ilock(itable, dp, p)
      old  == dents[l[dp].inum][tp[p].path[1]]
      free == {i \in Inum : dino[i].type = "free"}
  IN
  /\ At(p, "create")
  /\ UNCHANGED dents
  /\ \/ /\ old # None /\ igetFinds(l, old)
        /\ itable' = iunlock(iget(l, old), dp)
        /\ tp' = [tp EXCEPT ![p].pc = "existing", ![p].drop = <<dp>>,
                            ![p].ip = igetSlot(l, old)]
        /\ UNCHANGED dino
     \/ /\ old = None /\ free = {}
        /\ itable' = iunlock(l, dp)
        /\ Return(p, <<dp>>)
        /\ UNCHANGED dino
     \/ \E i \in free :
          /\ old = None /\ IsFirst(i, free) /\ igetFinds(l, i)
          /\ dino' = [dino EXCEPT ![i] = [type |-> IF tp[p].op = "mkdir" THEN "dir" ELSE "file",
                                          nlink |-> 0]]
          /\ itable' = iget(l, i)
          /\ tp' = [tp EXCEPT ![p].pc = "new", ![p].ip = igetSlot(l, i)]

(* The name existed: open() takes a file, mkdir() fails.                   *)
createExisting(p) ==
  LET ip == tp[p].ip
      l  == ilock(itable, ip, p) IN
  /\ At(p, "existing")
  /\ IF tp[p].op = "create" /\ l[ip].type = "file"
     THEN itable' = l /\ TreeGoTo(p, "created", <<>>)
     ELSE itable' = iunlock(l, ip) /\ Return(p, <<ip>>)
  /\ UNCHANGED <<dino, dents>>

(* The new inode gets its link, ".." and its name; linked is FALSE if one  *)
(* of the dirlink() calls fails (the disk is full).                        *)
createNew(p, linked) ==
  LET ip == tp[p].ip
      dp == tp[p].dp
      l  == AddLink(ilock(itable, ip, p), ip, IF linked THEN 1 ELSE 0)
      d  == IF l[ip].type = "dir" THEN AddLink(l, dp, 1) ELSE l
      i  == itable[ip].inum
      di == itable[dp].inum
  IN
  /\ At(p, "new")
  /\ IF linked
     THEN /\ itable' = iunlock(d, dp)
          /\ dino' = [iupdate(d, ip) EXCEPT ![di].nlink = d[dp].nlink]
          /\ dents' = [dents EXCEPT ![di][tp[p].path[1]] = i,
                                    ![i][DotDot] = IF l[ip].type = "dir" THEN di ELSE @]
          /\ TreeGoTo(p, "created", <<dp>>)
     ELSE /\ itable' = iunlock(l, ip)
          /\ dino' = iupdate(l, ip)
          /\ TreeGoTo(p, "put_dp", <<ip>>)
          /\ UNCHANGED dents

(* The rest of sys_open() and of sys_mkdir(), with ip locked.              *)
Created(p) ==
  LET ip == tp[p].ip IN
  /\ At(p, "created")
  /\ itable' = iunlock(itable, ip)
  /\ \/ tp[p].op = "create" /\ tp[p].fd = None /\ tp' = [tp EXCEPT ![p] = Idle(@.cwd, ip, <<>>)]
     \/ Return(p, <<ip>>)
  /\ UNCHANGED <<dino, dents>>

(* iunlockput(dp) at the end of a failed create() or unlink().             *)
PutParent(p) ==
  /\ At(p, "put_dp")
  /\ itable' = iunlock(itable, tp[p].dp)
  /\ Return(p, <<tp[p].dp>>)
  /\ UNCHANGED <<dino, dents>>

(* sys_unlink(): the name is looked up in the locked directory.            *)
sys_unlink(p) ==
  LET dp  == tp[p].dp
      l   == ilock(itable, dp, p)
      old == dents[l[dp].inum][tp[p].path[1]]
  IN
  /\ At(p, "unlink")
  /\ IF old = None \/ tp[p].path[1] = DotDot
     THEN itable' = iunlock(l, dp) /\ Return(p, <<dp>>)
     ELSE /\ igetFinds(l, old)
          /\ itable' = iget(l, old)
          /\ tp' = [tp EXCEPT ![p].pc = "unlink_ip", ![p].ip = igetSlot(l, old)]
  /\ UNCHANGED <<dino, dents>>

isdirempty(i) == \A n \in FileName : dents[i][n] = None

(* ip is locked as well: fail, or clear the entry and let dp go.           *)
unlinkEntry(p) ==
  LET ip == tp[p].ip
      dp == tp[p].dp
      l  == ilock(itable, ip, p)
      d  == IF l[ip].type = "dir" THEN AddLink(l, dp, -1) ELSE l
  IN
  /\ At(p, "unlink_ip")
  /\ IF l[ip].type = "dir" /\ ~isdirempty(l[ip].inum)
     THEN /\ itable' = iunlock(l, ip)
          /\ TreeGoTo(p, "put_dp", <<ip>>)
          /\ UNCHANGED <<dino, dents>>
     ELSE /\ itable' = iunlock(d, dp)
          /\ dino' = iupdate(d, dp)
          /\ dents' = [dents EXCEPT ![l[dp].inum][tp[p].path[1]] = None]
          /\ TreeGoTo(p, "unlinked", <<dp>>)

(* ip->nlink-- once dp has been put.                                       *)
unlinkDone(p) ==
  LET ip == tp[p].ip
      l  == AddLink(itable, ip, -1) IN
  /\ At(p, "unlinked")
  /\ itable' = iunlock(l, ip)
  /\ dino' = iupdate(l, ip)
  /\ Return(p, <<ip>>)
  /\ UNCHANGED dents

LinkCountLate(tbl, s) == tbl
LinkCount(tbl, s) == AddLink(tbl, s, 1)

(* sys_link(): the file gets one more link, then the new name is walked.   *)
sys_link(p) ==
  LET ip == tp[p].ip
      l  == ilock(itable, ip, p)
      n  == LinkCount(l, ip)
      u  == iunlock(n, ip)
  IN
  /\ At(p, "use") /\ tp[p].op = "link"
  /\ IF l[ip].type = "dir"
     THEN /\ itable' = iunlock(l, ip)
          /\ Return(p, <<ip>>)
          /\ UNCHANGED dino
     ELSE /\ FromFinds(u, tp[p].new)
          /\ itable' = FromRef(u, p, tp[p].new)
          /\ dino' = iupdate(n, ip)
          /\ tp' = [tp EXCEPT ![p].pc = "walk", ![p].op = "link_new",
                              ![p].path = Elements(tp[p].new), ![p].new = <<>>,
                              ![p].target = ip, ![p].ip = FromSlot(u, p, tp[p].new)]
  /\ UNCHANGED dents

(* dirlink() of the new name fails if it exists or the disk is full.       *)
linkEntry(p, linked) ==
  LET dp == tp[p].dp
      l  == ilock(itable, dp, p)
      ok == linked /\ dents[l[dp].inum][tp[p].path[1]] = None
  IN
  /\ At(p, "link")
  /\ itable' = iunlock(l, dp)
  /\ IF ok
     THEN /\ dents' = [dents EXCEPT ![l[dp].inum][tp[p].path[1]] = itable[tp[p].target].inum]
          /\ Return(p, <<dp, tp[p].target>>)
     ELSE /\ UNCHANGED dents
          /\ TreeGoTo(p, "link_bad", <<dp>>)
  /\ UNCHANGED dino

(* bad: the link is taken back.                                            *)
linkBad(p) ==
  LET ip == tp[p].target
      l  == AddLink(ilock(itable, ip, p), ip, -1) IN
  /\ At(p, "link_bad")
  /\ itable' = iunlock(l, ip)
  /\ dino' = iupdate(l, ip)
  /\ Return(p, <<ip>>)
  /\ UNCHANGED dents

Begin(p) ==
  \E path \in TreePath :
    \/ \E op \in {"open", "create", "mkdir", "unlink", "chdir"} : Start(p, op, path, <<>>)
    \/ \E new \in TreePath : Start(p, "link", path, new)

TreeStep(p) ==
  \/ Begin(p) \/ namex(p)
  \/ iput(p) \/ iputFree(p) \/ iputRelease(p) \/ iputDrop(p)
  \/ sys_open(p) \/ sys_chdir(p) \/ sys_close(p)
  \/ create(p) \/ createExisting(p) \/ Created(p) \/ PutParent(p)
  \/ \E linked \in BOOLEAN : createNew(p, linked) \/ linkEntry(p, linked)
  \/ sys_unlink(p) \/ unlinkEntry(p) \/ unlinkDone(p)
  \/ sys_link(p) \/ linkBad(p)

TreeNext == \E p \in TreeProc : TreeStep(p)

TreeSpec == TreeInit /\ [][TreeNext]_treeVars

-----------------------------------------------------------------------------
(* Properties.                                                             *)

(* fs.c:315, panic("ilock: no type"): whoever gets an inode's lock finds   *)
(* an allocated inode, also while another process frees and a third one    *)
(* allocates the same inode.                                               *)
LockFindsType ==
  \A p \in TreeProc :
    LET e == itable[Wants(p)] IN
    Wants(p) # None /\ e.holder = Unlocked
      => (IF e.valid THEN e.type ELSE dino[e.inum].type) # "free"

(* fs.c:344: "ip->ref == 1 means no other process can have ip locked, so   *)
(* this acquiresleep() won't block (or deadlock)".                         *)
IputWontBlock ==
  \A p \in TreeProc :
    LET e == itable[Dropping(p)] IN
    Dropping(p) # None /\ ~tp[p].freed /\ LastUse(e) => e.holder \in {p, Unlocked}

Named(i) == {e \in Inum \X FileName : dents[e[1]][e[2]] = i}

(* fs.h:36, "Number of links to inode in file system": an inode has at     *)
(* least as many links as there are entries that name it, so no entry      *)
(* outlives its inode, whatever order links, unlinks and failures come in. *)
LinksCounted == \A i \in Inum : Cardinality(Named(i)) <= dino[i].nlink
=============================================================================
