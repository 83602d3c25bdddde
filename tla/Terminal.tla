------------------------------ MODULE Terminal ------------------------------
(***************************************************************************)
(* What the console promises (kernel/console.c): a line that can be edited *)
(* until it is entered, and the entered characters in order.               *)
(***************************************************************************)
EXTENDS Integers, Sequences

CONSTANTS Key, Capacity

VARIABLES
  entered,  \* characters that a read may return
  editing   \* the line being typed

TermInit == entered = <<>> /\ editing = <<>>

(* A character is typed; some, or a full buffer, enter the line.           *)
Type ==
  /\ Len(entered) + Len(editing) < Capacity
  /\ \E c \in Key :
       \/ editing' = Append(editing, c) /\ UNCHANGED entered
       \/ editing' = <<>> /\ entered' = entered \o Append(editing, c)

(* Characters of the line are erased, never entered ones.                  *)
Erase ==
  /\ \E n \in 0 .. Len(editing) : editing' = SubSeq(editing, 1, n)
  /\ UNCHANGED entered

(* A read takes entered characters in order, never the line being typed.   *)
Take ==
  /\ \E n \in 0 .. Len(entered) : entered' = SubSeq(entered, n + 1, Len(entered))
  /\ UNCHANGED editing

TermNext == Erase \/ Take \/ Type

TermSpec == TermInit /\ [][TermNext]_<<entered, editing>>
=============================================================================
