------------------------------ MODULE ByteFile ------------------------------
(***************************************************************************)
(* What readi(), writei() and itrunc() of kernel/fs.c promise: an inode is *)
(* a sequence of bytes.                                                    *)
(***************************************************************************)
EXTENDS Integers, Sequences

CONSTANTS Ino, Payload

VARIABLE bytes      \* what reading each inode returns

ByteInit == bytes = [i \in Ino |-> <<>>]

(* The first n bytes of s at offset off, no further than one past the end. *)
Overlay(old, off, s, n) ==
  [k \in 1 .. (IF off + n > Len(old) THEN off + n ELSE Len(old)) |->
     IF k > off /\ k <= off + n THEN s[k - off] ELSE old[k]]

(* A write that fails has written some first part, n bytes of s; the file  *)
(* may end before the last of them, but no sooner than it did.             *)
ByteWrite(old, new) ==
  /\ Len(new) >= Len(old)
  /\ \E s \in Payload, off \in 0 .. Len(old) :
       \E n \in 0 .. Len(s) :
         LET all == Overlay(old, off, s, n) IN
         Len(new) <= Len(all) /\ new = SubSeq(all, 1, Len(new))

ByteTrunc(old, new) == new = <<>>

ByteStep(old, new) ==
  \E i \in Ino :
    /\ \A j \in Ino \ {i} : new[j] = old[j]
    /\ ByteWrite(old[i], new[i]) \/ ByteTrunc(old[i], new[i])

ByteNext == LET old == bytes new == bytes' IN ByteStep(old, new)

ByteSpec == ByteInit /\ [][ByteNext]_bytes
=============================================================================
