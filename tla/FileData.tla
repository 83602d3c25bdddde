------------------------------ MODULE FileData ------------------------------
(***************************************************************************)
(* The contents of files in kernel/fs.c: balloc() and bfree(), the block   *)
(* map with its direct and indirect blocks, readi(), writei() and          *)
(* itrunc(), under fileread(), filewrite() and O_TRUNC of sys_open().      *)
(*                                                                         *)
(* Each operation holds the inode's sleep lock and runs inside a           *)
(* transaction, and inodes share nothing but the bitmap: an operation is   *)
(* one step.  A block is an array of BSIZE cells, which hold bytes or, in  *)
(* an indirect block, block numbers; 0 is "no block" and a zero byte.      *)
(*                                                                         *)
(* An operator defined just before another of like name is a faulty form   *)
(* of it that no action uses (see Mlfq).                                   *)
(***************************************************************************)
EXTENDS Integers, Sequences, FiniteSets, SequencesExt

CONSTANTS
  Ino,          \* inodes
  OpenFile,     \* open files ...
  inode_of,     \* ... and the inode of each
  Payload,      \* byte sequences that processes write
  NBLK,         \* data blocks of the disk
  BSIZE, NDIRECT

NINDIRECT == BSIZE      \* BSIZE / sizeof(uint), a number taking one cell
MAXFILE   == NDIRECT + NINDIRECT
DataBlk   == 1 .. NBLK
Cell      == 0 .. BSIZE - 1

ASSUME FileAssumption ==
  /\ {NBLK, BSIZE, NDIRECT} \subseteq Nat \ {0}
  /\ inode_of \in [OpenFile -> Ino]
  /\ Payload \subseteq Seq(Nat)

VARIABLES
  fs,       \* [used: bitmap, blk: block contents, addrs: ip->addrs, size]
  foff      \* f->off

fileVars == <<fs, foff>>

Zeroed == [c \in Cell |-> 0]

FileInit ==
  /\ fs = [used |-> {}, blk |-> [b \in DataBlk |-> Zeroed],
           addrs |-> [i \in Ino |-> [a \in 0 .. NDIRECT |-> 0]],
           size |-> [i \in Ino |-> 0]]
  /\ foff = [f \in OpenFile |-> 0]

-----------------------------------------------------------------------------
(* Blocks.  Each returns the file system after the call and the block.     *)

Lowest(S) == CHOOSE b \in S : \A c \in S : b <= c

ballocNoZero(s) ==
  LET free == DataBlk \ s.used IN
  IF free = {} THEN [s |-> s, b |-> 0]
  ELSE [s |-> [s EXCEPT !.used = @ \cup {Lowest(free)}], b |-> Lowest(free)]

(* The first block free in the bitmap, zeroed; 0 if there is none.         *)
balloc(s) ==
  LET free == DataBlk \ s.used IN
  IF free = {} THEN [s |-> s, b |-> 0]
  ELSE [s |-> [s EXCEPT !.used = @ \cup {Lowest(free)}, !.blk[Lowest(free)] = Zeroed],
        b |-> Lowest(free)]

(* The block that a pointer names, allocated if there is none yet.         *)
Direct(s, i, a) ==
  IF s.addrs[i][a] # 0 THEN [s |-> s, b |-> s.addrs[i][a]]
  ELSE LET r == balloc(s) IN [r EXCEPT !.s.addrs[i][a] = r.b]

Indirect(s, b, c) ==
  IF s.blk[b][c] # 0 THEN [s |-> s, b |-> s.blk[b][c]]
  ELSE LET r == balloc(s) IN [r EXCEPT !.s.blk[b][c] = r.b]

bmap(s, i, bn) ==
  IF bn < NDIRECT THEN Direct(s, i, bn)
  ELSE LET t == Direct(s, i, NDIRECT) IN
       IF t.b = 0 THEN t ELSE Indirect(t.s, t.b, bn - NDIRECT)

Pointers(s, i) ==
  {s.addrs[i][a] : a \in 0 .. NDIRECT} \cup
  (IF s.addrs[i][NDIRECT] = 0 THEN {} ELSE {s.blk[s.addrs[i][NDIRECT]][c] : c \in Cell})

PointersDirect(s, i) == {s.addrs[i][a] : a \in 0 .. NDIRECT}

itruncShallow(s, i) ==
  [s EXCEPT !.used = @ \ PointersDirect(s, i),
            !.addrs[i] = [a \in 0 .. NDIRECT |-> 0], !.size[i] = 0]

(* bfree() of every block of the inode.                                    *)
itrunc(s, i) ==
  [s EXCEPT !.used = @ \ Pointers(s, i),
            !.addrs[i] = [a \in 0 .. NDIRECT |-> 0], !.size[i] = 0]

-----------------------------------------------------------------------------
(* Contents.                                                               *)

(* One byte of writei()'s loop.  It ends when no block can be had, and     *)
(* where either_copyin() fails, at byte bad of the data: what was copied   *)
(* into the block before stays in the buffer, but is not counted.          *)
PutByte(i, off, data, bad, acc, k) ==
  LET pos == off + k - 1
      r   == bmap(acc.s, i, pos \div BSIZE)
      blk == BSIZE * (pos \div BSIZE) IN
  IF acc.ended THEN acc
  ELSE IF r.b = 0 \/ k = bad
  THEN [s |-> r.s, tot |-> IF blk > off THEN blk - off ELSE 0, ended |-> TRUE]
  ELSE [acc EXCEPT !.s = [r.s EXCEPT !.blk[r.b][pos % BSIZE] = data[k]], !.tot = k]

Loop(s, i, off, data, bad) ==
  FoldLeft(LAMBDA acc, k : PutByte(i, off, data, bad, acc, k),
           [s |-> s, tot |-> 0, ended |-> FALSE],
           [k \in 1 .. Len(data) |-> k])

(* Returns the file system and the count, or -1.                           *)
writei(s, i, off, data, bad) ==
  IF off > s.size[i] \/ off + Len(data) > MAXFILE * BSIZE THEN [s |-> s, tot |-> -1]
  ELSE LET r   == Loop(s, i, off, data, bad)
           end == off + r.tot
       IN  [s |-> [r.s EXCEPT !.size[i] = IF end > @ THEN end ELSE @], tot |-> r.tot]

(* The byte at pos; bmap() finds its block without allocating one.         *)
ByteAt(s, i, pos) ==
  LET r == bmap(s, i, pos \div BSIZE) IN r.s.blk[r.b][pos % BSIZE]

(* n bytes from off, or as many as there are.                              *)
readi(s, i, off, n) ==
  IF off > s.size[i] THEN <<>>
  ELSE [k \in 1 .. (IF off + n > s.size[i] THEN s.size[i] - off ELSE n) |->
          ByteAt(s, i, off + k - 1)]

-----------------------------------------------------------------------------
(* Operations on open files.                                               *)

(* One transaction of filewrite(): at most the bytes that fit into it.     *)
filewrite(f, data, bad) ==
  LET r == writei(fs, inode_of[f], foff[f], data, bad) IN
  /\ fs' = r.s
  /\ foff' = [foff EXCEPT ![f] = IF r.tot > 0 THEN @ + r.tot ELSE @]

fileread(f, n) ==
  /\ foff' = [foff EXCEPT ![f] = @ + Len(readi(fs, inode_of[f], foff[f], n))]
  /\ UNCHANGED fs

(* sys_open() of the file again, with or without O_TRUNC.                  *)
Open(f, trunc) ==
  /\ fs' = IF trunc THEN itrunc(fs, inode_of[f]) ELSE fs
  /\ foff' = [foff EXCEPT ![f] = 0]

FileNext ==
  \E f \in OpenFile :
    \/ \E data \in Payload, bad \in {0, 2} : filewrite(f, data, bad)
    \/ \E n \in {1, BSIZE + 1} : fileread(f, n)
    \/ \E trunc \in BOOLEAN : Open(f, trunc)

FileSpec == FileInit /\ [][FileNext]_fileVars

-----------------------------------------------------------------------------
(* Properties.                                                             *)

Bytes == INSTANCE ByteFile WITH
           bytes <- [i \in Ino |-> readi(fs, i, 0, fs.size[i])]

(* fs.c:372: through direct and indirect blocks, full disks, failed copies *)
(* and blocks that another file has given up, a file reads as what was     *)
(* written to it.                                                          *)
FileIsBytes == Bytes!ByteSpec

(* The block pointers of an inode, with the cells that hold them.          *)
PointerCells(i) ==
  {<<"addrs", a>> : a \in {a \in 0 .. NDIRECT : fs.addrs[i][a] # 0}} \cup
  (IF fs.addrs[i][NDIRECT] = 0 THEN {}
   ELSE {<<"indirect", c>> : c \in {c \in Cell : fs.blk[fs.addrs[i][NDIRECT]][c] # 0}})

(* balloc(), bfree(): a block marked in use belongs to one place of one    *)
(* inode, and every block an inode names is marked: nothing leaks when the *)
(* disk is full, and bfree() never frees a free block (fs.c:101).          *)
BlocksOwned ==
  /\ fs.used = UNION {Pointers(fs, i) : i \in Ino} \ {0}
  /\ \A i, j \in Ino : i # j => Pointers(fs, i) \cap Pointers(fs, j) \subseteq {0}
  /\ \A i \in Ino : Cardinality(Pointers(fs, i) \ {0}) = Cardinality(PointerCells(i))
=============================================================================
