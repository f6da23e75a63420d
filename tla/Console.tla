------------------------------ MODULE Console -------------------------------
(* The console: line input and output (kernel/console.c) and the driver of *)
(* the UART (kernel/uart.c), between processes in read() and write(), the  *)
(* interrupt handler uartintr() and the device.                            *)
(*                                                                         *)
(* cons.lock is held over several steps; what happens under uart_tx_lock   *)
(* is one step.  The echo of a character is written past the transmit      *)
(* buffer and stands for all that consputc() sends for it.                 *)
EXTENDS Integers, Sequences, FiniteSets

CONSTANTS Procs, None,
          Typed,              \* what is typed: "a", ..., "nl", "cr", "eof" (^D), "erase" (^H), "kill" (^U)
          INPUT_BUF, UART_TX_BUF_SIZE,
          UINT,               \* 2^32, a multiple of INPUT_BUF
          First,              \* how much was typed and read before: 0 at boot
          Calls,              \* bounds: the calls <<process, what, length>>,
          MaxTyped, MaxWritten, MaxKilled  \* and how much is typed, written, and killed

ASSUME ConsoleAssumption ==
  /\ INPUT_BUF \in Nat \ {0} /\ UART_TX_BUF_SIZE \in Nat \ {0}
  /\ UINT \in Nat /\ UINT > INPUT_BUF /\ UINT % INPUT_BUF = 0
  /\ First \in 0 .. UINT - 1
  /\ Calls \subseteq Procs \X {"read", "write"} \X Nat

VARIABLES cons,      \* [buf, r, w, e]
          lock,      \* who holds cons.lock: a process, or None
          tx,        \* [buf, r, w]: uart_tx_buf
          fifo,      \* device: what it has to send
          rhr,       \* device: the character received, or None
          irq,       \* device: it asks for an interrupt
          intr,      \* uartintr() has taken a character and goes on
          t,         \* process -> its call
          killed,    \* p->killed
          got,       \* process -> what its read() has got so far
          typed, written, sent,   \* how many characters were typed and written; those that were sent
          panic

vars == <<cons, lock, tx, fifo, rhr, irq, intr, t, killed, got, typed, written, sent, panic>>
device == <<fifo, rhr, irq, typed, sent>>
output == <<tx, written>>

Echo == 0
NoCall == [pc |-> "user", n |-> 0, target |-> 0]

Init ==
  /\ cons = [buf |-> [i \in 0 .. INPUT_BUF - 1 |-> "a"], r |-> First, w |-> First, e |-> First]
  /\ lock = None
  /\ tx = [buf |-> [i \in 0 .. UART_TX_BUF_SIZE - 1 |-> 0], r |-> 0, w |-> 0]
  /\ fifo = <<>> /\ rhr = None /\ irq = FALSE /\ intr = FALSE
  /\ t = [p \in Procs |-> NoCall]
  /\ killed = {}
  /\ got = [p \in Procs |-> <<>>]
  /\ typed = 0 /\ written = 0 /\ sent = <<>>
  /\ panic = FALSE

At(p, pc) == t[p].pc = pc
Uint(n) == n % UINT

-----------------------------------------------------------------------------
(* consoleread(), one character at a time.                                 *)

ReadCall(p, n) ==
  /\ At(p, "user") /\ p \notin killed
  /\ t' = [t EXCEPT ![p] = [pc |-> "read", n |-> n, target |-> n]]
  /\ UNCHANGED <<cons, lock, output, device, intr, killed, got, panic>>

Return(p) == t' = [t EXCEPT ![p] = NoCall] /\ lock' = None /\ got' = [got EXCEPT ![p] = <<>>]

\* Nothing to read: give up if killed, else sleep on &cons.r.
ReadWait(p) ==
  /\ At(p, "read") /\ lock \in {None, p} /\ t[p].n > 0 /\ cons.r = cons.w
  /\ \/ p \in killed /\ Return(p)
     \/ p \notin killed /\ t' = [t EXCEPT ![p].pc = "asleep"] /\ lock' = None /\ UNCHANGED got
  /\ UNCHANGED <<cons, output, device, intr, killed, panic>>

\* An end of file is left for the next read if this one has characters.
ReadEof(p) ==
  /\ At(p, "read") /\ lock \in {None, p} /\ t[p].n > 0 /\ cons.r # cons.w
  /\ cons.buf[cons.r % INPUT_BUF] = "eof"
  /\ cons' = IF t[p].n < t[p].target THEN cons ELSE [cons EXCEPT !.r = Uint(@ + 1)]
  /\ Return(p)
  /\ UNCHANGED <<output, device, intr, killed, panic>>

ReadChar(p) ==
  LET c == cons.buf[cons.r % INPUT_BUF] IN
  /\ At(p, "read") /\ lock \in {None, p} /\ t[p].n > 0 /\ cons.r # cons.w /\ c # "eof"
  /\ cons' = [cons EXCEPT !.r = Uint(@ + 1)]
  /\ got' = [got EXCEPT ![p] = Append(@, c)]
  /\ t' = [t EXCEPT ![p].n = IF c = "nl" THEN 0 ELSE @ - 1] /\ lock' = p
  /\ UNCHANGED <<output, device, intr, killed, panic>>

\* either_copyout() fails: the character is taken, but not counted.
ReadFault(p) ==
  /\ At(p, "read") /\ lock \in {None, p} /\ t[p].n > 0 /\ cons.r # cons.w
  /\ cons.buf[cons.r % INPUT_BUF] # "eof"
  /\ cons' = [cons EXCEPT !.r = Uint(@ + 1)]
  /\ Return(p)
  /\ UNCHANGED <<output, device, intr, killed, panic>>

ReadDone(p) ==
  /\ At(p, "read") /\ lock \in {None, p} /\ t[p].n = 0
  /\ Return(p)
  /\ UNCHANGED <<cons, output, device, intr, killed, panic>>

\* kill() of a process, which ends its sleep, and the process makes no other call.
Kill(p) ==
  /\ p \notin killed /\ t[p].pc \in {"read", "asleep"} /\ Cardinality(killed) < MaxKilled
  /\ killed' = killed \cup {p}
  /\ t' = [t EXCEPT ![p].pc = IF @ = "asleep" THEN "read" ELSE @]
  /\ UNCHANGED <<cons, lock, output, device, intr, got, panic>>

-----------------------------------------------------------------------------
(* consolewrite() and uartputc().                                          *)

Inc(i) == (i + 1) % UART_TX_BUF_SIZE

\* uartstart(): a character to the UART if it is idle.  Its loop goes on only
\* when the UART becomes idle meanwhile, which also interrupts.
uartstartBlind(x) == IF x.w # x.r THEN fifo' = <<x.buf[x.r]>> /\ tx' = [x EXCEPT !.r = Inc(@)] ELSE tx' = x /\ UNCHANGED fifo
uartstart(x) ==
  IF x.w # x.r /\ fifo = <<>> THEN /\ fifo' = <<x.buf[x.r]>> /\ tx' = [x EXCEPT !.r = Inc(@)]
  ELSE tx' = x /\ UNCHANGED fifo

WriteCall(p, n) ==
  /\ At(p, "user") /\ written + n <= MaxWritten
  /\ t' = [t EXCEPT ![p] = [pc |-> "write", n |-> n, target |-> n]]
  /\ UNCHANGED <<cons, lock, output, device, intr, killed, got, panic>>

\* The k-th character that is written is k.
WriteChar(p) ==
  LET c == written + 1 IN
  /\ At(p, "write") /\ lock \in {None, p} /\ t[p].n > 0
  /\ Inc(tx.w) # tx.r
  /\ uartstart([tx EXCEPT !.buf[tx.w] = c, !.w = Inc(@)])
  /\ written' = c
  /\ t' = [t EXCEPT ![p].n = @ - 1]
  /\ lock' = p
  /\ UNCHANGED <<cons, rhr, irq, typed, sent, intr, killed, got, panic>>

\* The buffer is full: sleep() with cons.lock held, so that sched() finds noff = 2
\* and panics.
WriteFull(p) ==
  /\ At(p, "write") /\ lock \in {None, p} /\ t[p].n > 0
  /\ Inc(tx.w) = tx.r
  /\ panic' = TRUE
  /\ lock' = p
  /\ UNCHANGED <<cons, output, device, intr, t, killed, got>>

\* The loop is over, or either_copyin() failed.
WriteDone(p) ==
  /\ At(p, "write") /\ lock \in {None, p}
  /\ Return(p)
  /\ UNCHANGED <<cons, output, device, intr, killed, panic>>

-----------------------------------------------------------------------------
(* uartintr(), for one character, and consoleintr().                       *)

\* devintr() claims the interrupt before the first step of the handler.
Handling == /\ intr \/ irq
            /\ irq' = (intr /\ irq)

WakeNobody == t
WakeReaders == [p \in Procs |-> IF t[p].pc = "asleep" THEN [t[p] EXCEPT !.pc = "read"] ELSE t[p]]

\* Room for another character, and the buffer after ^H or ^U.
HasRoom == Uint(cons.e - cons.r) < INPUT_BUF
ErasedToRead(c) == [cons EXCEPT !.e = IF c = "erase" THEN Uint(@ - 1) ELSE cons.r]
Erased(c) == [cons EXCEPT !.e = IF c = "erase" THEN Uint(@ - 1) ELSE cons.w]

\* consoleintr() with character c, and its echo.
consoleintr(c) ==
  LET ch == IF c = "cr" THEN "nl" ELSE c
      e == Uint(cons.e + 1)
      next == [cons EXCEPT !.buf[cons.e % INPUT_BUF] = ch, !.e = e]
      ends == ch \in {"nl", "eof"} \/ e = Uint(cons.r + INPUT_BUF) IN
  \/ /\ c \in {"erase", "kill"} /\ cons.e = cons.w
     /\ UNCHANGED <<cons, t, fifo>>
  \/ /\ c \in {"erase", "kill"} /\ cons.e # cons.w /\ fifo = <<>>
     /\ cons' = Erased(c)
     /\ fifo' = <<Echo>> /\ UNCHANGED t
  \/ /\ c \notin {"erase", "kill"} /\ ~HasRoom
     /\ UNCHANGED <<cons, t, fifo>>
  \/ /\ c \notin {"erase", "kill"} /\ HasRoom /\ fifo = <<>>
     /\ fifo' = <<Echo>>
     /\ \/ ends /\ cons' = [next EXCEPT !.w = e] /\ t' = WakeReaders
        \/ ~ends /\ cons' = next /\ UNCHANGED t

Input ==
  /\ Handling /\ rhr # None /\ lock = None
  /\ consoleintr(rhr)
  /\ rhr' = None /\ intr' = TRUE
  /\ UNCHANGED <<lock, output, typed, sent, killed, got, panic>>

\* uartgetc() returns -1.
TransmitNothing ==
  /\ Handling /\ rhr = None
  /\ intr' = FALSE
  /\ UNCHANGED <<cons, lock, output, fifo, rhr, typed, sent, t, killed, got, panic>>
Transmit ==
  /\ Handling /\ rhr = None
  /\ uartstart(tx)
  /\ intr' = FALSE
  /\ UNCHANGED <<cons, lock, written, rhr, typed, sent, t, killed, got, panic>>

-----------------------------------------------------------------------------
(* The device.                                                             *)

Type(c) ==
  /\ rhr = None /\ typed < MaxTyped
  /\ rhr' = c /\ typed' = typed + 1 /\ irq' = TRUE
  /\ UNCHANGED <<cons, lock, output, fifo, sent, intr, t, killed, got, panic>>

Send ==
  /\ fifo # <<>>
  /\ sent' = IF Head(fifo) = Echo THEN sent ELSE Append(sent, Head(fifo))
  /\ fifo' = Tail(fifo) /\ irq' = TRUE
  /\ UNCHANGED <<cons, lock, output, rhr, typed, intr, t, killed, got, panic>>

Step(p) == \/ ReadWait(p) \/ ReadEof(p) \/ ReadChar(p) \/ ReadDone(p)
           \/ WriteChar(p) \/ WriteFull(p) \/ WriteDone(p)
Handler == Input \/ Transmit

Next ==
  /\ ~panic
  /\ \/ \E c \in Calls : \/ c[2] = "read" /\ ReadCall(c[1], c[3])
                         \/ c[2] = "write" /\ WriteCall(c[1], c[3])
     \/ \E p \in Procs : Step(p) \/ ReadFault(p) \/ Kill(p)
     \/ Handler \/ Send \/ \E c \in Typed : Type(c)

Spec == Init /\ [][Next]_vars

\* Processes in a call and the handler are run, and the device sends.
FairSpec == Spec /\ WF_vars(~panic /\ Handler) /\ WF_vars(~panic /\ Send) /\ \A p \in Procs : WF_vars(~panic /\ Step(p))
-----------------------------------------------------------------------------
(* Properties.                                                             *)

\* The characters from index i up to index j.
Slice(i, j) == [k \in 1 .. Uint(j - i) |-> cons.buf[(i + k - 1) % INPUT_BUF]]

Chars == Typed \cup {"a", "nl"}

TypeOK ==
  /\ cons \in [buf : [0 .. INPUT_BUF - 1 -> Chars], r : 0 .. UINT - 1, w : 0 .. UINT - 1, e : 0 .. UINT - 1]
  /\ lock \in Procs \cup {None}
  /\ tx \in [buf : [0 .. UART_TX_BUF_SIZE - 1 -> Nat], r : 0 .. UART_TX_BUF_SIZE - 1, w : 0 .. UART_TX_BUF_SIZE - 1]
  /\ fifo \in Seq(Nat) /\ Len(fifo) <= 1
  /\ rhr \in Typed \cup {None}
  /\ {irq, intr, panic} \subseteq BOOLEAN
  /\ t \in [Procs -> [pc : {"user", "read", "asleep", "write"}, n : Nat, target : Nat]]
  /\ killed \subseteq Procs
  /\ got \in [Procs -> Seq(Chars)]
  /\ typed \in Nat /\ written \in Nat /\ sent \in Seq(Nat)

\* cons.r, cons.w and cons.e follow each other, also when they have wrapped.
IndicesFit ==
  Uint(cons.w - cons.r) <= Uint(cons.e - cons.r) /\ Uint(cons.e - cons.r) <= INPUT_BUF

\* A read() that has got nothing yet has its whole length before it.
CallsAgree ==
  \A p \in Procs : /\ t[p].n <= t[p].target
                   /\ t[p].n = t[p].target => got[p] = <<>>
                   /\ t[p].pc = "user" => t[p].n = t[p].target

\* The three indices into cons.buf, which wrap around, implement line input
\* (module LineInput): an edit never reaches back into a finished line, a read
\* never into an unfinished one, and a full buffer loses nothing it had.
Tty == INSTANCE LineInput WITH
  Typed <- Typed \cup {"nl"},
  line <- Slice(cons.w, cons.e),
  lines <- Slice(cons.r, cons.w)
LinesInOrder == Tty!Spec

\* Nobody sleeps in consoleread() while there is input, or after kill().
NoLostWakeup == \A p \in Procs : At(p, "asleep") => cons.r = cons.w /\ p \notin killed

\* What processes write is sent in order and once, whatever is echoed in between:
\* it was sent, or the UART has it, or the transmit buffer.
TxWaiting == [k \in 1 .. (tx.w - tx.r) % UART_TX_BUF_SIZE |-> tx.buf[(tx.r + k - 1) % UART_TX_BUF_SIZE]]
UartHas == IF fifo # <<>> /\ Head(fifo) # Echo THEN fifo ELSE <<>>
OutputInOrder == sent \o UartHas \o TxWaiting = [k \in 1 .. written |-> k]

\* "blocks if the output buffer is full", "wait for uartstart() to open up space"
\* (kernel/uart.c:80-83, 94-95).  consolewrite() calls uartputc() with cons.lock
\* held, and the code violates this as soon as the buffer is full (WriteFull).
FullBufferBlocks == ~panic

\* In a run without that panic the transmit buffer is emptied: after each
\* character the interrupt comes back to uartstart(), also when the UART was
\* busy with an echo.  Nothing is said of a write that fills the buffer.
OutputDrains == []~panic => (tx.r # tx.w ~> tx.r = tx.w)

\* In such a run readers do not wait while there is input: they get it, or another one does.
Readers == {p \in Procs : \E c \in Calls : c[1] = p /\ c[2] = "read"}
ReadersProgress ==
  []~panic => \A p \in Readers : (t[p].pc \in {"read", "asleep"} /\ cons.r # cons.w) ~> (At(p, "user") \/ cons.r = cons.w)

\* The console's buffers: their indices are in range, readers are woken, and what
\* is written comes out in order.
ConsoleInv == TypeOK /\ IndicesFit /\ CallsAgree /\ NoLostWakeup /\ OutputInOrder
=============================================================================
