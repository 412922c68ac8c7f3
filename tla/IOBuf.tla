------------------------------- MODULE IOBuf -------------------------------
(***************************************************************************)
(* The ring buffer of the SoC (IOBuf in rv32_io.h): two pointers and the   *)
(* two flags not_empty and full, updated together.  A UART port updates it *)
(* at most once per clock, with a read flag and a write flag that may both *)
(* be set; it never reads an empty buffer and never writes a full one.     *)
(* The firmware's UARTBuf (io.c) is the same ring with one flag set at a   *)
(* time.  Pointers are kept as the code keeps them, between 0 and N-1, so  *)
(* rp = wp alone does not say whether the ring is empty or full.           *)
(***************************************************************************)
EXTENDS Integers, Sequences

CONSTANTS N,      \* MAX_IO_BUF_SIZE, MAX_UART_BUF_SIZE
          Data    \* the words

\* A ring has at least one slot.
ASSUME NAssumption == N \in Nat \ {0}

VARIABLES rp, wp, buf, full, not_empty

vars == <<rp, wp, buf, full, not_empty>>

Slots == 0 .. N - 1

\* Mutation of nxt_pnt: the wrap-around one slot late.
nxt_pntLate(p) == IF p = N THEN 0 ELSE p + 1

nxt_pnt(p) == IF p = N - 1 THEN 0 ELSE p + 1

\* The memory itself is not initialised by reset().
Init == /\ rp = 0 /\ wp = 0
        /\ full = FALSE /\ not_empty = FALSE
        /\ buf \in [Slots -> Data]

\* Mutation of Update: full forgets that a read in the same clock makes room.
UpdateFullOnMeeting(rflag, wflag) ==
  LET nrp == IF rflag THEN nxt_pnt(rp) ELSE rp
      nwp == IF wflag THEN nxt_pnt(wp) ELSE wp
  IN  /\ rp' = nrp
      /\ wp' = nwp
      /\ not_empty' = (wflag \/ nrp # nwp)
      /\ full' = (nrp = nwp)

\* IOBuf::update(rflag, wflag), called once per clock; the new flags depend
\* on the new pointers.
Update(rflag, wflag) ==
  LET nrp == IF rflag THEN nxt_pnt(rp) ELSE rp
      nwp == IF wflag THEN nxt_pnt(wp) ELSE wp
  IN  /\ rp' = nrp
      /\ wp' = nwp
      /\ not_empty' = (wflag \/ nrp # nwp)
      /\ full' = (~rflag /\ nrp = nwp)

\* The three non-trivial calls a UART port makes in one clock.
Read ==
  /\ not_empty
  /\ Update(TRUE, FALSE)
  /\ UNCHANGED buf

\* Mutation of Write: the pointer moves before the word is stored.
WriteAhead(d) ==
  /\ ~full
  /\ buf' = [buf EXCEPT ![nxt_pnt(wp)] = d]
  /\ Update(FALSE, TRUE)

Write(d) ==
  /\ ~full
  /\ buf' = [buf EXCEPT ![wp] = d]
  /\ Update(FALSE, TRUE)

ReadWrite(d) ==
  /\ not_empty
  /\ ~full
  /\ buf' = [buf EXCEPT ![wp] = d]
  /\ Update(TRUE, TRUE)

\* reset(), called by write_command.
Reset ==
  /\ rp' = 0 /\ wp' = 0
  /\ full' = FALSE /\ not_empty' = FALSE
  /\ UNCHANGED buf

Next == \/ Read
        \/ Reset
        \/ \E d \in Data : Write(d) \/ ReadWrite(d)

Spec == Init /\ [][Next]_vars

-----------------------------------------------------------------------------
\* The number of words held and the slot of the i-th oldest (from 0): what the
\* pointers and flags stand for.
Count == IF full THEN N
         ELSE IF rp <= wp THEN wp - rp ELSE wp - rp + N

Slot(i) == IF rp + i < N THEN rp + i ELSE rp + i - N

Contents == [i \in 1 .. Count |-> buf[Slot(i - 1)]]

Fifo == INSTANCE BoundedFifo WITH queue <- Contents

\* Type correctness of the ring's registers.
TypeOK == /\ rp \in Slots /\ wp \in Slots
          /\ buf \in [Slots -> Data]
          /\ full \in BOOLEAN /\ not_empty \in BOOLEAN

\* The two flags, which the UART code trusts instead of comparing pointers,
\* always tell the truth about the pointers: a full ring has meeting pointers
\* and is not empty, and a ring whose pointers meet is exactly one of empty and
\* full.
FlagsAgree == /\ full => rp = wp /\ not_empty
              /\ rp = wp => (full <=> not_empty)
              /\ rp # wp => not_empty

\* Whatever the order of reads, writes, simultaneous read-writes and resets,
\* the ring behaves as a bounded first-in first-out queue: nothing is lost,
\* repeated or reordered, the guards not_empty and ~full are exact.
ImplementsFifo == Fifo!Spec
=============================================================================
