------------------------------ MODULE UartIrq ------------------------------
(***************************************************************************)
(* Interrupt-driven serial I/O, from the line to the program: the word     *)
(* buffers of the UARTs (rv32_io.cpp), the interrupt registers of SYSCTRL, *)
(* the core's interrupt check, and the firmware's buffered getch and putch *)
(* with the handler that serves them (io.c).                               *)
(*                                                                         *)
(* A step is one clock.  The hardware moves in every clock; the processor  *)
(* may make one access or register step in it or be busy with instructions *)
(* that touch nothing shared, so every access takes any time.  A word in   *)
(* the hardware is its number; its bits and the bus are in other modules   *)
(* (AxiBus: an access happens once).  The IOBuf rings are sequences here   *)
(* (IOBuf, IOBufProofs: that is what they implement); the firmware's rings *)
(* keep their pointers, because main updates them in several steps.        *)
(***************************************************************************)
EXTENDS Integers, Sequences, FiniteSets

CONSTANTS
  Uarts,       \* the ports in use, a subset of {0, 1}
  BufSize,     \* MAX_IO_BUF_SIZE, the hardware buffers
  UBSize,      \* MAX_UART_BUF_SIZE, the firmware's rings
  EdgeDetect,  \* DETECT_INTR_POS_EDGE is defined
  Workloads,   \* the loads to check: [rx, tx, slow], see work
  None

ASSUME SizeAssumption == BufSize \in Nat \ {0} /\ UBSize \in Nat \ {0}
ASSUME PortAssumption == Uarts \subseteq {0, 1}
ASSUME LoadAssumption == Workloads \subseteq [rx : Nat, tx : Nat, slow : BOOLEAN]
ASSUME NoneAssumption == None \notin Nat

VARIABLES
  \* UART: receive and transmit buffers, the word being shifted out, intr
  rxbuf, txbuf, shifting, intr,
  \* SYSCTRL: d_intr[0..2] and ext_irq_pending;  CSR: mip.meip, mstatus.mie
  d_intr, pending, mip, mie,
  \* firmware: UART_BUF_RX, UART_BUF_TX
  ub_rx, ub_tx,
  \* main: control point, UART_CHAN_ID, the ring as loaded, the character,
  \* prv_mstatus
  main, chan, loaded, ch, prv_mstatus,
  \* interrupt handler: control point, irq bits still to serve
  hpc, irq,
  \* lines that delivered or drained a word since the interrupt logic was quiet
  busy,
  \* the load of this behaviour, never changed: bounds on the words that arrive
  \* and that the program puts on each port, and whether a line takes longer
  \* for a word than the firmware for a handler
  work,
  \* history: words arrived, accepted, returned by getch, put, transmitted
  arrived, accepted, delivered, put, sent

hwvars == <<rxbuf, txbuf, shifting, intr, d_intr, pending, mip, busy,
            arrived, accepted, sent>>
mainvars == <<main, chan, loaded, ch, prv_mstatus, delivered, put>>
hvars == <<hpc, irq>>
vars == <<hwvars, work, mie, ub_rx, ub_tx, mainvars, hvars>>

Word == UNION {0 .. (w.rx + w.tx) : w \in Workloads}

\* The firmware's ring is IOBuf with one flag at a time.
Ring(ub) == INSTANCE IOBuf
            WITH N <- UBSize, Data <- Word, rp <- ub.rp, wp <- ub.wp,
                 buf <- ub.buf, full <- ub.full, not_empty <- ub.not_empty

EmptyRing == [rp |-> 0, wp |-> 0, full |-> FALSE, not_empty |-> FALSE,
              buf |-> [i \in 0 .. UBSize - 1 |-> 0]]

Init ==
  /\ rxbuf = [u \in Uarts |-> <<>>]
  /\ txbuf = [u \in Uarts |-> <<>>]
  /\ shifting = [u \in Uarts |-> None]
  /\ intr = [u \in Uarts |-> FALSE]
  /\ d_intr = [u \in Uarts |-> <<FALSE, FALSE, FALSE>>]
  /\ pending = {} /\ mip = FALSE /\ mie = TRUE
  /\ ub_rx = [u \in Uarts |-> EmptyRing]
  /\ ub_tx = [u \in Uarts |-> EmptyRing]
  /\ main = "ready" /\ chan \in Uarts
  /\ loaded = EmptyRing /\ ch = 0 /\ prv_mstatus = TRUE
  /\ hpc = "off" /\ irq = {}
  /\ busy = {} /\ work \in Workloads
  /\ arrived = [u \in Uarts |-> 0]
  /\ accepted = [u \in Uarts |-> <<>>]
  /\ delivered = [u \in Uarts |-> <<>>]
  /\ put = [u \in Uarts |-> 0]
  /\ sent = [u \in Uarts |-> <<>>]

-----------------------------------------------------------------------------
(* One clock of the hardware *)

\* SYSCTRL::fsm: what is pending before this clock's access, with the edge
\* detector and without.
Raised == IF EdgeDetect
          THEN {u \in Uarts : ~d_intr[u][1] /\ d_intr[u][2]}
          ELSE {u \in Uarts : intr[u]}
Pending == pending \cup Raised

\* Nothing to serve and no change of intr on its way.
Quiet == /\ hpc = "off" /\ ~mip /\ Pending = {}
         /\ \A u \in Uarts : /\ d_intr[u] = <<intr[u], intr[u], intr[u]>>
                             /\ intr[u] = (rxbuf[u] # <<>>)
                             /\ shifting[u] = None => txbuf[u] = <<>>

\* One word per line and direction until the interrupt logic is quiet again:
\* at 38400 baud a word takes 13020 clocks.
Recent == IF Quiet THEN {} ELSE busy
MayArrive(u) == arrived[u] < work.rx /\ (work.slow => <<u, "rx">> \notin Recent)
MayFinish(u) == shifting[u] # None /\ (work.slow => <<u, "tx">> \notin Recent)

\* do_tx moves the oldest word to the shifter when that is idle or just done.
Loads(u, fin) == txbuf[u] # <<>> /\ (shifting[u] = None \/ u \in fin)

\* do_rx, do_tx, SYSCTRL::fsm and the update of mip, with the processor's access
\* of this clock: rd, wr are the ports whose data register is read or written
\* with word w, clr says that irq_ctrl is written with 0x7f.
Clock(rd, wr, w, clr) ==
  \E arr \in SUBSET {u \in Uarts : MayArrive(u)},
     fin \in SUBSET {u \in Uarts : MayFinish(u)} :
    LET kept == {u \in arr : Len(rxbuf[u]) < BufSize}
        word(u) == IF u \in kept THEN <<arrived[u] + 1>> ELSE <<>>
    IN
    /\ arrived' = [u \in Uarts |-> arrived[u] + IF u \in arr THEN 1 ELSE 0]
    /\ accepted' = [u \in Uarts |-> accepted[u] \o word(u)]
    /\ rxbuf' = [u \in Uarts |->
                   (IF u = rd THEN Tail(rxbuf[u]) ELSE rxbuf[u]) \o word(u)]
    /\ txbuf' = [u \in Uarts |->
                   (IF Loads(u, fin) THEN Tail(txbuf[u]) ELSE txbuf[u])
                   \o (IF u = wr THEN <<w>> ELSE <<>>)]
    /\ shifting' = [u \in Uarts |-> IF Loads(u, fin) THEN Head(txbuf[u])
                                    ELSE IF u \in fin THEN None
                                    ELSE shifting[u]]
    /\ sent' = [u \in Uarts |->
                  IF u \in fin THEN Append(sent[u], shifting[u]) ELSE sent[u]]
    /\ intr' = [u \in Uarts |-> rxbuf[u] # <<>> \/ Loads(u, fin)]
    /\ d_intr' = [u \in Uarts |-> <<d_intr[u][2], d_intr[u][3], intr[u]>>]
    /\ pending' = IF clr THEN {} ELSE Pending
    /\ mip' = (Pending # {})
    /\ busy' = Recent \cup {<<u, "rx">> : u \in arr} \cup {<<u, "tx">> : u \in fin}

NoAccess == Clock(None, None, 0, FALSE)

\* The processor is busy, or spins.
Tick == NoAccess /\ UNCHANGED <<mie, ub_rx, ub_tx, mainvars, hvars>>

-----------------------------------------------------------------------------
(* The firmware's rings *)

Held(ub) == Ring(ub)!Contents

\* Mutation of UARTBuf_update: the write pointer never wraps.
UARTBuf_updateNoWrap(ub, wflag) ==
  LET nrp == IF wflag THEN ub.rp ELSE Ring(ub)!nxt_pnt(ub.rp)
      nwp == IF wflag THEN ub.wp + 1 ELSE ub.wp
  IN  [ub EXCEPT !.rp = nrp, !.wp = nwp,
                 !.not_empty = wflag \/ nrp # nwp,
                 !.full = wflag /\ nrp = nwp]

\* UARTBuf_update: the pointers and flags after one read or one write.
UARTBuf_update(ub, wflag) ==
  LET nrp == IF wflag THEN ub.rp ELSE Ring(ub)!nxt_pnt(ub.rp)
      nwp == IF wflag THEN Ring(ub)!nxt_pnt(ub.wp) ELSE ub.wp
  IN  [ub EXCEPT !.rp = nrp, !.wp = nwp,
                 !.not_empty = wflag \/ nrp # nwp,
                 !.full = wflag /\ nrp = nwp]

\* UARTBuf_read and UARTBuf_write of a ring whose pointers and flags were loaded
\* as old: when nothing else touched it meanwhile, old = ub.
ReadRing(ub, old) ==
  IF old.not_empty THEN [UARTBuf_update(old, FALSE) EXCEPT !.buf = ub.buf] ELSE ub
WriteRing(ub, old, c) ==
  IF old.full THEN ub
  ELSE [UARTBuf_update(old, TRUE) EXCEPT !.buf = [ub.buf EXCEPT ![old.wp] = c]]
Oldest(ub) == IF ub.not_empty THEN ub.buf[ub.rp] ELSE 0

-----------------------------------------------------------------------------
(* The interrupt *)

\* step: at T[0] of an instruction of main.  do_trap saves mie, which is set,
\* and clears it.
Trap ==
  /\ hpc = "off" /\ mip /\ mie
  /\ mie' = FALSE
  /\ hpc' = "irq"
  /\ NoAccess
  /\ UNCHANGED <<irq, ub_rx, ub_tx, mainvars>>

Handler(from, to) == hpc = from /\ hpc' = to

\* The port the handler serves: port 0 before port 1.
Serving == CHOOSE u \in irq : \A v \in irq : u <= v

\* ext_intr_handler reads irq_ctrl and serves the ports whose bit is set.
ReadIrq ==
  /\ hpc = "irq"
  /\ irq' = Pending
  /\ hpc' = IF Pending = {} THEN "clear" ELSE "tx"
  /\ NoAccess
  /\ UNCHANGED <<mie, ub_rx, ub_tx, mainvars>>

\* UARTintr_handler, first loop: its condition, then its body.
TxLoop ==
  /\ Handler("tx", IF ub_tx[Serving].not_empty /\ Len(txbuf[Serving]) < BufSize
                   THEN "txdata" ELSE "rx")
  /\ NoAccess
  /\ UNCHANGED <<irq, mie, ub_rx, ub_tx, mainvars>>

TxData ==
  LET u == Serving
  IN  /\ Handler("txdata", "tx")
      /\ Len(txbuf[u]) < BufSize
      /\ ub_tx' = [ub_tx EXCEPT ![u] = ReadRing(@, @)]
      /\ Clock(None, u, Oldest(ub_tx[u]), FALSE)
      /\ UNCHANGED <<irq, mie, ub_rx, mainvars>>

\* Second loop, then the next port.
RxLoop ==
  /\ hpc = "rx"
  /\ IF ~ub_rx[Serving].full /\ rxbuf[Serving] # <<>>
     THEN hpc' = "rxdata" /\ UNCHANGED irq
     ELSE /\ irq' = irq \ {Serving}
          /\ hpc' = IF irq' = {} THEN "clear" ELSE "tx"
  /\ NoAccess
  /\ UNCHANGED <<mie, ub_rx, ub_tx, mainvars>>

RxData ==
  LET u == Serving
  IN  /\ Handler("rxdata", "rx")
      /\ rxbuf[u] # <<>>
      /\ ub_rx' = [ub_rx EXCEPT ![u] = WriteRing(@, @, Head(rxbuf[u]))]
      /\ Clock(u, None, 0, FALSE)
      /\ UNCHANGED <<irq, mie, ub_tx, mainvars>>

\* All pending bits are cleared, whatever was served.
ClearIrq ==
  /\ Handler("clear", "mret")
  /\ Clock(None, None, 0, TRUE)
  /\ UNCHANGED <<irq, mie, ub_rx, ub_tx, mainvars>>

Mret ==
  /\ Handler("mret", "off")
  /\ mie' = TRUE
  /\ NoAccess
  /\ UNCHANGED <<irq, ub_rx, ub_tx, mainvars>>

-----------------------------------------------------------------------------
(* main: _UARTBuf_getch and _UARTBuf_putch *)

\* An instruction of main starts only if no interrupt is taken.
Main(from, to) ==
  /\ hpc = "off" /\ ~(mip /\ mie)
  /\ main = from /\ main' = to
  /\ UNCHANGED hvars

\* The program calls getch or putch on some port (set_uart_ID).
CallGetch(u) ==
  /\ Main("ready", "g_wait")
  /\ work.rx > 0
  /\ chan' = u
  /\ NoAccess
  /\ UNCHANGED <<loaded, ch, prv_mstatus, delivered, put, mie, ub_rx, ub_tx>>

CallPutch(u) ==
  /\ Main("ready", "p_wait")
  /\ put[u] < work.tx
  /\ chan' = u
  /\ NoAccess
  /\ UNCHANGED <<loaded, ch, prv_mstatus, delivered, put, mie, ub_rx, ub_tx>>

\* while (!ub_rx->not_empty) {}    while (ub_tx->full) {}
GetchWaits ==
  /\ Main("g_wait", "g_enter")
  /\ ub_rx[chan].not_empty
  /\ NoAccess
  /\ UNCHANGED <<chan, loaded, ch, prv_mstatus, delivered, put, mie, ub_rx, ub_tx>>

PutchWaits ==
  /\ Main("p_wait", "p_enter")
  /\ ~ub_tx[chan].full
  /\ NoAccess
  /\ UNCHANGED <<chan, loaded, ch, prv_mstatus, delivered, put, mie, ub_rx, ub_tx>>

\* enter_critical_section: mstatus is saved, then mie cleared.
Save(from, to) ==
  /\ Main(from, to)
  /\ prv_mstatus' = mie
  /\ NoAccess
  /\ UNCHANGED <<chan, loaded, ch, delivered, put, mie, ub_rx, ub_tx>>

\* Mutation of Mask: csrc with a wrong bit.
MaskNothing(from, to) ==
  /\ Main(from, to)
  /\ NoAccess
  /\ UNCHANGED <<chan, loaded, ch, prv_mstatus, delivered, put, mie, ub_rx, ub_tx>>

Mask(from, to) ==
  /\ Main(from, to)
  /\ mie' = FALSE
  /\ NoAccess
  /\ UNCHANGED <<chan, loaded, ch, prv_mstatus, delivered, put, ub_rx, ub_tx>>

\* Mutation of Restore: mstatus is left as enter_critical_section made it.
RestoreNothing(from, to) ==
  /\ Main(from, to)
  /\ NoAccess
  /\ UNCHANGED <<chan, loaded, ch, prv_mstatus, delivered, put, mie, ub_rx, ub_tx>>

\* leave_critical_section.
Restore(from, to) ==
  /\ Main(from, to)
  /\ mie' = prv_mstatus
  /\ NoAccess
  /\ UNCHANGED <<chan, loaded, ch, prv_mstatus, delivered, put, ub_rx, ub_tx>>

\* The first half of a ring operation: pointers and flags go to registers.
Load(from, to, ub) ==
  /\ Main(from, to)
  /\ loaded' = ub
  /\ ch' = Oldest(ub)
  /\ NoAccess
  /\ UNCHANGED <<chan, prv_mstatus, delivered, put, mie, ub_rx, ub_tx>>

GetchStore ==
  /\ Main("g_store", "g_leave")
  /\ ub_rx' = [ub_rx EXCEPT ![chan] = ReadRing(@, loaded)]
  /\ delivered' = [delivered EXCEPT ![chan] = Append(@, ch)]
  /\ NoAccess
  /\ UNCHANGED <<chan, loaded, ch, prv_mstatus, put, mie, ub_tx>>

PutchStore ==
  /\ Main("p_store", "p_status")
  /\ put' = [put EXCEPT ![chan] = @ + 1]
  /\ ub_tx' = [ub_tx EXCEPT ![chan] = WriteRing(@, loaded, put'[chan])]
  /\ NoAccess
  /\ UNCHANGED <<chan, loaded, ch, prv_mstatus, delivered, mie, ub_rx>>

\* if (!UART_TX_FULL(uart)): the oldest word goes out at once.
PutchStatus ==
  /\ Main("p_status", IF Len(txbuf[chan]) < BufSize THEN "p_load2" ELSE "p_leave")
  /\ NoAccess
  /\ UNCHANGED <<chan, loaded, ch, prv_mstatus, delivered, put, mie, ub_rx, ub_tx>>

PutchPop ==
  /\ Main("p_pop", "p_data")
  /\ ub_tx' = [ub_tx EXCEPT ![chan] = ReadRing(@, loaded)]
  /\ NoAccess
  /\ UNCHANGED <<chan, loaded, ch, prv_mstatus, delivered, put, mie, ub_rx>>

PutchData ==
  /\ Main("p_data", "p_leave")
  /\ Len(txbuf[chan]) < BufSize
  /\ Clock(None, chan, ch, FALSE)
  /\ UNCHANGED <<chan, loaded, ch, prv_mstatus, delivered, put, mie, ub_rx, ub_tx>>

Getch == \/ GetchWaits \/ Save("g_enter", "g_mask") \/ Mask("g_mask", "g_load")
         \/ Load("g_load", "g_store", ub_rx[chan]) \/ GetchStore
         \/ Restore("g_leave", "ready")

Putch == \/ PutchWaits \/ Save("p_enter", "p_mask") \/ Mask("p_mask", "p_load")
         \/ Load("p_load", "p_store", ub_tx[chan]) \/ PutchStore \/ PutchStatus
         \/ Load("p_load2", "p_pop", ub_tx[chan]) \/ PutchPop \/ PutchData
         \/ Restore("p_leave", "ready")

Interrupt == \/ Trap \/ ReadIrq \/ TxLoop \/ TxData \/ RxLoop \/ RxData
             \/ ClearIrq \/ Mret

Cpu == \/ Interrupt \/ Getch \/ Putch
       \/ \E u \in Uarts : CallGetch(u) \/ CallPutch(u)

Next == (Tick \/ Cpu) /\ UNCHANGED work

Spec == Init /\ [][Next]_vars

\* The clock ticks, the processor executes, a word being shifted out ends; no
\* word need ever arrive.
Finishes(u) == Next /\ sent'[u] # sent[u]
FairSpec == /\ Spec
            /\ WF_vars(Next) /\ WF_vars(Cpu /\ UNCHANGED work)
            /\ \A u \in Uarts : WF_vars(Finishes(u))

-----------------------------------------------------------------------------
RingType == [rp : 0 .. UBSize - 1, wp : 0 .. UBSize - 1, full : BOOLEAN,
             not_empty : BOOLEAN, buf : [0 .. UBSize - 1 -> Word]]

\* Type correctness; the hardware buffers stay within their size.
TypeOK ==
  /\ \A u \in Uarts :
       /\ rxbuf[u] \in Seq(Word) /\ Len(rxbuf[u]) <= BufSize
       /\ txbuf[u] \in Seq(Word) /\ Len(txbuf[u]) <= BufSize
       /\ shifting[u] \in Word \cup {None}
       /\ intr[u] \in BOOLEAN /\ d_intr[u] \in [1 .. 3 -> BOOLEAN]
       /\ ub_rx[u] \in RingType /\ ub_tx[u] \in RingType
       /\ arrived[u] \in 0 .. work.rx /\ put[u] \in 0 .. work.tx
       /\ \A q \in {accepted[u], delivered[u], sent[u]} : q \in Seq(Word)
  /\ pending \subseteq Uarts /\ irq \subseteq Uarts
  /\ mip \in BOOLEAN /\ mie \in BOOLEAN /\ prv_mstatus \in BOOLEAN
  /\ chan \in Uarts /\ loaded \in RingType /\ ch \in Word

\* Every word the receiver accepted is, in order, returned by getch, in the
\* firmware's ring, or in the hardware buffer: the handler and getch, which
\* both rewrite the ring's pointers, never undo each other's work.
RxInOrder ==
  \A u \in Uarts : delivered[u] \o Held(ub_rx[u]) \o rxbuf[u] = accepted[u]

InHand(u) == IF main = "p_data" /\ chan = u THEN <<ch>> ELSE <<>>
InShifter(u) == IF shifting[u] = None THEN <<>> ELSE <<shifting[u]>>

\* Every character put is, in order, transmitted, being transmitted, in the
\* hardware buffer, in main's hand, or in the firmware's ring: putch and the
\* handler, which both take from the ring, neither lose, repeat nor reorder.
TxInOrder ==
  \A u \in Uarts :
    sent[u] \o InShifter(u) \o txbuf[u] \o InHand(u) \o Held(ub_tx[u])
      = [k \in 1 .. put[u] |-> k]

\* A getch that waits for a word its port has received returns: the word is
\* signalled, the handler moves it to the ring, main sees it.
GetchReturns ==
  \A u \in Uarts :
    main = "g_wait" /\ chan = u /\ rxbuf[u] # <<>> ~> main # "g_wait"

\* It does when the program only receives, no more than its ring holds.
GetchReturnsOneWay ==
  \A u \in Uarts :
    work.tx = 0 /\ work.rx <= UBSize
    /\ main = "g_wait" /\ chan = u /\ rxbuf[u] # <<>> ~> main # "g_wait"

\* When the program only sends, every character put is transmitted, with no
\* further call of putch.
PutIsSent ==
  \A u \in Uarts : \A n \in 1 .. 8 :
    work.rx = 0 /\ put[u] >= n ~> Len(sent[u]) >= n
=============================================================================
