------------------------------- MODULE Console ------------------------------
(***************************************************************************)
(* Console input, kernel/console.c: consoleintr() edits a circular buffer  *)
(* from the interrupt handler, consoleread() takes lines out of it.        *)
(* A reader takes its bytes one by one, with cons.lock, until it sleeps or *)
(* returns.  The indices r, w and e wrap around.                           *)
(*                                                                         *)
(* An operator defined just before another of like name is a faulty form   *)
(* of it that no action uses (see Mlfq).                                   *)
(***************************************************************************)
EXTENDS Integers, Sequences, FiniteSets

CONSTANTS
  ConsProc,         \* processes that read the console
  INPUT_BUF_SIZE,
  CONSMOD,          \* 2^32 in the code
  MaxKeys,          \* bound on the keys typed
  MaxRead           \* bound on the bytes asked for by a read

(* Classes of keys: a letter, new line, ^D, backspace and ^U.              *)
Letters == {"a", "\n", "^D"}
Editing == {"^H", "^U"}

ASSUME ConsAssumption ==
  /\ {INPUT_BUF_SIZE, CONSMOD, MaxRead} \subseteq Nat \ {0}
  /\ MaxKeys \in Nat
  /\ CONSMOD % INPUT_BUF_SIZE = 0 /\ CONSMOD > INPUT_BUF_SIZE

VARIABLES
  cbuf, r, w, e,    \* cons.buf, cons.r, cons.w, cons.e
  reader,           \* [state, n, target]: "idle", "ready", "locked", "asleep"
  keys,             \* keys typed so far
  ckilled,          \* killed readers
  zeros, eofs       \* history: reads that returned 0 bytes (not for want of
                    \* a good address), ^D entered

consVars == <<cbuf, r, w, e, reader, keys, ckilled, zeros, eofs>>

(* At boot, or later with every line read and the indices about to wrap.   *)
ConsInit ==
  /\ cbuf = [k \in 0 .. INPUT_BUF_SIZE - 1 |-> "a"]
  /\ r \in {0, CONSMOD - 1} /\ w = r /\ e = r /\ keys = 0 /\ zeros = 0 /\ eofs = 0
  /\ ckilled = {}
  /\ reader = [p \in ConsProc |-> [state |-> "idle", n |-> 0, target |-> 0]]

Diff(a, b) == (a - b) % CONSMOD
CharAt(k)  == cbuf[k % INPUT_BUF_SIZE]
LockFree   == \A p \in ConsProc : reader[p].state # "locked"
Span(a, b) == [k \in 1 .. Diff(b, a) |-> CharAt((a + k - 1) % CONSMOD)]

-----------------------------------------------------------------------------
(* consoleintr().                                                          *)

FullOffByOne == Diff(e, r) > INPUT_BUF_SIZE
Full == Diff(e, r) >= INPUT_BUF_SIZE

(* Store a character; a whole line, ^D or a full buffer wakes the readers. *)
Store(c) ==
  LET e1  == (e + 1) % CONSMOD
      ent == c \in {"\n", "^D"} \/ Diff(e1, r) = INPUT_BUF_SIZE
  IN
  /\ ~Full
  /\ cbuf' = [cbuf EXCEPT ![e % INPUT_BUF_SIZE] = c]
  /\ e' = e1
  /\ w' = IF ent THEN e1 ELSE w
  /\ reader' = [p \in ConsProc |->
                  IF ent /\ reader[p].state = "asleep" THEN [reader[p] EXCEPT !.state = "ready"]
                  ELSE reader[p]]
  /\ eofs' = IF c = "^D" THEN eofs + 1 ELSE eofs
  /\ UNCHANGED <<r, ckilled, zeros>>

(* How far ^U goes back: not beyond w nor beyond a new line.               *)
KillTo ==
  CHOOSE k \in 0 .. Diff(e, w) :
    /\ \A j \in 1 .. k : CharAt((e - j) % CONSMOD) # "\n"
    /\ k = Diff(e, w) \/ CharAt((e - k - 1) % CONSMOD) = "\n"

Edit(c) ==
  /\ e' = IF c = "^U" THEN (e - KillTo) % CONSMOD
          ELSE IF e # w THEN (e - 1) % CONSMOD ELSE e
  /\ UNCHANGED <<cbuf, r, w, reader, ckilled, zeros, eofs>>

consoleintr(c) ==
  /\ LockFree
  /\ keys < MaxKeys /\ keys' = keys + 1
  /\ \/ c \in Editing /\ Edit(c)
     \/ c \in Letters /\ Store(c)
     \/ c \in Letters /\ Full /\ UNCHANGED <<cbuf, r, w, e, reader, ckilled, zeros, eofs>>

-----------------------------------------------------------------------------
(* consoleread().                                                          *)

StartRead(p, n) ==
  /\ reader[p].state = "idle" /\ p \notin ckilled
  /\ reader' = [reader EXCEPT ![p] = [state |-> "ready", n |-> n, target |-> n]]
  /\ UNCHANGED <<cbuf, r, w, e, keys, ckilled, zeros, eofs>>

(* The outer loop ends with n bytes to go, and the read returns.           *)
ReadReturns(p, n) ==
  /\ reader' = [reader EXCEPT ![p] = [state |-> "idle", n |-> 0, target |-> 0]]
  /\ zeros' = IF n = reader[p].target THEN zeros + 1 ELSE zeros

EofTaken(p) == (r + 1) % CONSMOD
(* ^D is left for the next read if this one has bytes to return.           *)
Eof(p) == IF reader[p].n < reader[p].target THEN r ELSE (r + 1) % CONSMOD

(* One turn of the outer loop.                                             *)
consoleread(p) ==
  LET n == reader[p].n IN
  /\ reader[p].state = "locked" \/ (reader[p].state = "ready" /\ LockFree)
  /\ \/ /\ r = w /\ p \notin ckilled
        /\ reader' = [reader EXCEPT ![p].state = "asleep"]
        /\ UNCHANGED <<r, zeros>>
     \/ /\ r = w /\ p \in ckilled
        /\ reader' = [reader EXCEPT ![p] = [state |-> "idle", n |-> 0, target |-> 0]]
        /\ UNCHANGED <<r, zeros>>
     \/ /\ r # w /\ CharAt(r) = "^D"
        /\ r' = Eof(p)
        /\ ReadReturns(p, n)
     \/ /\ r # w /\ CharAt(r) # "^D"      \* either_copyout() fails
        /\ r' = (r + 1) % CONSMOD
        /\ reader' = [reader EXCEPT ![p] = [state |-> "idle", n |-> 0, target |-> 0]]
        /\ UNCHANGED zeros
     \/ /\ r # w /\ CharAt(r) # "^D"
        /\ r' = (r + 1) % CONSMOD
        /\ IF CharAt(r) = "\n" \/ n = 1 THEN ReadReturns(p, n - 1)
           ELSE reader' = [reader EXCEPT ![p].n = n - 1, ![p].state = "locked"] /\ UNCHANGED zeros
  /\ UNCHANGED <<cbuf, w, e, keys, ckilled, eofs>>

killReader(p) ==
  /\ p \notin ckilled
  /\ ckilled' = ckilled \cup {p}
  /\ reader' = [reader EXCEPT ![p].state = IF @ = "asleep" THEN "ready" ELSE @]
  /\ UNCHANGED <<cbuf, r, w, e, keys, zeros, eofs>>

ConsNext ==
  \/ \E c \in Letters \cup Editing : consoleintr(c)
  \/ \E p \in ConsProc :
       \/ \E n \in 1 .. MaxRead : StartRead(p, n)
       \/ consoleread(p) \/ killReader(p)

ConsSpec == ConsInit /\ [][ConsNext]_consVars

-----------------------------------------------------------------------------
(* Properties.                                                             *)

Term == INSTANCE Terminal WITH
          entered <- Span(r, w), editing <- Span(w, e),
          Key <- Letters, Capacity <- INPUT_BUF_SIZE

(* console.c: the circular buffer with its three wrapping indices is a     *)
(* line editor in front of a queue: erasing never reaches entered          *)
(* characters, a full buffer enters the line, and no reader sees a line    *)
(* that is still being edited.                                             *)
ConsoleIsTerminal == Term!TermSpec

Pending == Cardinality({k \in 1 .. Diff(w, r) : Span(r, w)[k] = "^D"})

(* console.c:103, "to make sure caller gets a 0-byte result": every ^D     *)
(* ends one read with 0 bytes, and no other read into a good address gets  *)
(* 0 bytes, although a read may meet ^D after other bytes or with another  *)
(* read waiting.                                                           *)
EofDelivered == zeros + Pending = eofs
=============================================================================
