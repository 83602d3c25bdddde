-------------------------------- MODULE Uart --------------------------------
(***************************************************************************)
(* Console output, kernel/uart.c: uartputc() and its transmit ring,        *)
(* uartstart(), the transmit interrupt, and uartputc_sync(), which writes  *)
(* to the device without uart_tx_lock.  The device is modelled from how    *)
(* the driver uses it: a holding register that it empties, with an         *)
(* interrupt each time it has.                                             *)
(*                                                                         *)
(* An operator defined just before another of like name is a faulty form   *)
(* of it that no action uses (see Mlfq).                                   *)
(***************************************************************************)
EXTENDS Integers, FiniteSets

CONSTANTS
  UartProc,             \* processes that write to the console
  UART_TX_BUF_SIZE,
  MaxPutc,              \* bound on the characters of each process
  MaxEcho               \* bound on the characters echoed or printed

ASSUME UartAssumption == {UART_TX_BUF_SIZE, MaxPutc, MaxEcho} \subseteq Nat \ {0}

VARIABLES
  tx,       \* uart_tx_w - uart_tx_r (64 bits: they never wrap)
  thr,      \* whether the holding register is full
  txirq,    \* the transmit interrupt
  upc,      \* "idle", "putc", "asleep" (the ring is full)
  putcs,    \* characters put so far
  echo,     \* uartputc_sync(): "idle", "spin", "write"
  echoed

uartVars == <<tx, thr, txirq, upc, putcs, echo, echoed>>

UartInit ==
  /\ tx = 0 /\ thr = FALSE /\ txirq = FALSE
  /\ upc = [p \in UartProc |-> "idle"]
  /\ putcs = [p \in UartProc |-> 0]
  /\ echo = "idle" /\ echoed = 0

(* A byte moves to the device if there is one and it is idle; after that   *)
(* byte the device is busy, and the loop of uartstart() ends.              *)
Moves(n) == n > 0 /\ ~thr

WokenNever(pcs) == pcs
WokenBySpace(pcs) == [p \in UartProc |-> IF pcs[p] = "asleep" THEN "putc" ELSE pcs[p]]

uartstart(n, pcs) ==
  IF Moves(n) THEN tx' = n - 1 /\ thr' = TRUE /\ upc' = WokenBySpace(pcs)
  ELSE tx' = n /\ upc' = pcs /\ UNCHANGED thr

Putc(p) ==
  /\ upc[p] = "idle" /\ putcs[p] < MaxPutc
  /\ upc' = [upc EXCEPT ![p] = "putc"]
  /\ putcs' = [putcs EXCEPT ![p] = @ + 1]
  /\ UNCHANGED <<tx, thr, txirq, echo, echoed>>

(* uartputc() until it sleeps or returns.                                  *)
uartputc(p) ==
  /\ upc[p] = "putc"
  /\ \/ /\ tx = UART_TX_BUF_SIZE
        /\ upc' = [upc EXCEPT ![p] = "asleep"]
        /\ UNCHANGED <<tx, thr>>
     \/ /\ tx < UART_TX_BUF_SIZE
        /\ uartstart(tx + 1, [upc EXCEPT ![p] = "idle"])
  /\ UNCHANGED <<txirq, putcs, echo, echoed>>

(* uartintr(), its transmit half.                                          *)
uartintr ==
  /\ txirq
  /\ txirq' = FALSE
  /\ uartstart(tx, upc)
  /\ UNCHANGED <<putcs, echo, echoed>>

(* uartputc_sync(): spin until the register is empty, then write it, even  *)
(* if uartstart() has filled it in between.                                *)
uartputc_sync ==
  /\ \/ echo = "idle" /\ echoed < MaxEcho /\ echo' = "spin" /\ UNCHANGED <<thr, echoed>>
     \/ echo = "spin" /\ ~thr /\ echo' = "write" /\ UNCHANGED <<thr, echoed>>
     \/ echo = "write" /\ thr' = TRUE /\ echo' = "idle" /\ echoed' = echoed + 1
  /\ UNCHANGED <<tx, txirq, upc, putcs>>

(* The device sends the byte and is idle.                                  *)
UartSends ==
  /\ thr
  /\ thr' = FALSE
  /\ txirq' = TRUE
  /\ UNCHANGED <<tx, upc, putcs, echo, echoed>>

UartNext ==
  \/ \E p \in UartProc : Putc(p) \/ uartputc(p)
  \/ uartintr \/ uartputc_sync \/ UartSends

(* Runnable processes run, interrupts are taken, the device sends.         *)
UartFair ==
  /\ \A p \in UartProc : WF_uartVars(uartputc(p))
  /\ WF_uartVars(uartintr)
  /\ WF_uartVars(UartSends)

UartSpec == UartInit /\ [][UartNext]_uartVars /\ UartFair

-----------------------------------------------------------------------------
(* uart.c:95, "wait for uartstart() to open up space in the buffer": every *)
(* uartputc() returns, although echoed characters take the device away     *)
(* from the ring without its lock.                                         *)
PutcReturns == \A p \in UartProc : upc[p] = "putc" ~> upc[p] = "idle"
=============================================================================
