------------------------------ MODULE UartLine ------------------------------
(***************************************************************************)
(* Two UARTs and the wire between them, bit by bit (rv32_io.cpp: do_tx,    *)
(* do_rx, write_command, set_pin and the X_UART at the other end).  A step *)
(* is one clock.  Both ends use the same code; this is one direction, and  *)
(* the other is a second instance that shares only the setting.  A bit     *)
(* takes two clocks from do_tx to do_rx either way: pin and one flip-flop  *)
(* towards the SoC, set_pin and rx.bit_n towards X_UART.                   *)
(***************************************************************************)
EXTENDS Integers, Sequences

CONSTANTS
  BufSize,    \* MAX_IO_BUF_SIZE
  Commands,   \* what write_command may be given: see write_command
  SlowPeriod, \* BAUD_PERIOD of every rate but the fastest, cut down
  Payload(_), \* the words of so many bits that are sent, as bits, low bit first
  MaxWords    \* bound: words put

ASSUME LineAssumption == /\ BufSize \in Nat \ {0} /\ SlowPeriod \in Nat \ {0}
                         /\ MaxWords \in Nat
ASSUME CommandsAssumption ==
  \A c \in Commands : /\ c.baud \in 0 .. 15 /\ c.length \in 0 .. 3
                      /\ c.stop \in {0, 1} /\ c.parity \in 0 .. 7
ASSUME PayloadAssumption == \A b \in 5 .. 8 : Payload(b) \subseteq [1 .. b -> {0, 1}]

VARIABLES
  setting,    \* baud_period_m1, bit_count_m1 + 1, stop_count, parity_type
  noise,      \* may a disturbance still come
  tx, txbuf,  \* UART_PORT tx: state, bit, word, parity, pos, tick;  its IOBuf
  wire,       \* the bits on their way: <<leaving the transmitter, at do_rx>>
  rx, rxbuf,  \* UART_PORT rx, with error and rx_bit_samp;  its IOBuf
  \* history: words on the line, words put, whether the line was disturbed,
  \* a word arrived that was not the one sent, a stop bit met a full buffer
  flight, puts, noisy, wrong, overrun

bufs == <<txbuf, flight, rxbuf>>
vars == <<setting, noise, tx, wire, rx, bufs, puts, noisy, wrong, overrun>>

Bit == {0, 1}
Word == UNION {Payload(b) : b \in 5 .. 8}

\* UART::write_command, without the deactivation: baud, length, stop and
\* parity are the fields of its parameter.
write_command(baud, length, stop, parity) ==
  [period |-> IF baud = 15 THEN 1 ELSE SlowPeriod,
   bits   |-> length + 5,
   stop   |-> IF stop = 0 THEN 1 ELSE IF length = 0 THEN 3 ELSE 2,
   parity |-> IF parity % 2 = 0 THEN 0 ELSE parity]

\* UART::parity_bit: odd 1, even 3, high 5, low 7.
parity_bit(p) == CASE setting.parity = 1 -> 1 - p
                   [] setting.parity = 3 -> p
                   [] setting.parity = 5 -> 1
                   [] OTHER -> 0

Init ==
  /\ \E c \in Commands :
       setting = write_command(c.baud, c.length, c.stop, c.parity)
  /\ noise \in BOOLEAN
  /\ tx = [state |-> "Idle", bit |-> 1, word |-> <<>>, parity |-> 0, pos |-> 0,
           tick |-> 0]
  /\ rx = [state |-> "Idle", word |-> [i \in 1 .. 8 |-> 0], parity |-> 0,
           pos |-> 0, tick |-> 0, samp |-> 0, error |-> FALSE]
  /\ wire = <<1, 1>>
  /\ txbuf = <<>> /\ flight = <<>> /\ rxbuf = <<>> /\ puts = 0
  /\ noisy = FALSE /\ wrong = FALSE /\ overrun = FALSE

-----------------------------------------------------------------------------
(* The transmitter: UART::do_tx *)

\* UART_PORT::activate and the start bit; tick is left as it is.
TxStart(t, w) ==
  [t EXCEPT !.state = "Start", !.word = w, !.pos = 0, !.parity = 0, !.bit = 0]

Half == setting.period \div 2

\* The stop bit of "1.5 bits" ends at the middle of a period.
StopsAtHalf(p) == p.state = "Stop" /\ p.pos # 0 /\ setting.stop = 3 /\ p.tick = Half

TxTick == [tx EXCEPT !.tick = @ + 1,
                     !.state = IF StopsAtHalf(tx) THEN "Idle" ELSE @]

TxData ==
  LET last == tx.pos = setting.bits - 1 IN
  [tx EXCEPT !.tick = 0, !.bit = Head(tx.word), !.word = Tail(@),
             !.parity = (@ + Head(tx.word)) % 2,
             !.pos = IF last THEN 0 ELSE @ + 1,
             !.state = IF ~last THEN @ ELSE IF setting.parity = 0 THEN "Stop"
                       ELSE "Parity"]
\* Mutation of TxParity: the parity of even for every type.
TxParityEven == [tx EXCEPT !.tick = 0, !.bit = tx.parity, !.state = "Stop"]

TxParity == [tx EXCEPT !.tick = 0, !.bit = parity_bit(tx.parity), !.state = "Stop"]

\* Mutation of TxDone: after one period in the stop state.
TxDoneEarly == tx.state = "Stop" /\ tx.tick = setting.period

\* The stop bits are over: the next word may start at once.
TxDone == tx.state = "Stop" /\ tx.tick = setting.period /\ tx.pos >= setting.stop

\* Mutation of TxLoads: only at the end of another word.
TxLoadsNext == txbuf # <<>> /\ TxDone

\* The transmitter takes a word from its buffer in this clock.
TxLoads == txbuf # <<>> /\ (tx.state = "Idle" \/ TxDone)

do_tx ==
  CASE TxLoads /\ tx.state = "Idle" -> TxStart(tx, Head(txbuf))
    [] ~TxLoads /\ tx.state = "Idle" -> tx
    [] tx.state # "Idle" /\ tx.tick < setting.period -> TxTick
    [] tx.state = "Start" /\ tx.tick = setting.period -> TxData
    [] tx.state = "Parity" /\ tx.tick = setting.period -> TxParity
    [] TxDone /\ TxLoads -> TxStart([tx EXCEPT !.tick = 0], Head(txbuf))
    [] TxDone /\ ~TxLoads -> [tx EXCEPT !.tick = 0, !.state = "Idle", !.bit = 1]
    [] OTHER -> [tx EXCEPT !.tick = 0, !.bit = 1, !.pos = @ + 1]

-----------------------------------------------------------------------------
(* The receiver: UART::do_rx *)

bit_rx == wire[2]
\* Mutation of Full: one word too late.
FullLate == Len(rxbuf) > BufSize

Full == Len(rxbuf) >= BufSize

\* UART::adjust_word: a word of fewer than eight bits is in the upper ones.
adjust_word == SubSeq(rx.word, 9 - setting.bits, 8)

RxStart(r) == [r EXCEPT !.state = "Start", !.word = [i \in 1 .. 8 |-> 0],
                        !.pos = 0, !.parity = 0]

\* Before the end of a period; the line is sampled in its middle.
RxTick ==
  LET mid == rx.tick = Half
      data == mid /\ rx.state = "Start"
  IN [rx EXCEPT !.tick = @ + 1,
                !.samp = IF mid THEN bit_rx ELSE @,
                !.word = IF data THEN Append(Tail(@), bit_rx) ELSE @,
                !.parity = IF data THEN (@ + bit_rx) % 2 ELSE @,
                !.state = IF StopsAtHalf(rx) THEN "Idle" ELSE @]

\* The last data bit has been sampled (the start bit counts as one).
RxEnds == rx.state = "Start" /\ rx.tick = setting.period /\ rx.pos >= setting.bits

RxData ==
  [rx EXCEPT !.tick = 0, !.pos = IF RxEnds THEN 0 ELSE @ + 1,
             !.state = IF ~RxEnds THEN @ ELSE IF setting.parity = 0 THEN "Stop"
                       ELSE "Parity"]
\* Mutation of RxParity: the parity bit is passed over.
RxParityIgnored == [rx EXCEPT !.tick = 0, !.state = "Stop", !.pos = @ + 1]

RxParity == [rx EXCEPT !.tick = 0, !.state = "Stop", !.pos = @ + 1,
                       !.error = @ \/ parity_bit(rx.parity) # rx.samp]
RxStops == rx.state = "Stop" /\ rx.tick = setting.period
RxStop ==
  LET r == [rx EXCEPT !.tick = 0, !.error = @ \/ rx.samp # 1 \/ Full]
  IN IF bit_rx = 0 THEN RxStart(r) ELSE [r EXCEPT !.state = "Idle"]

do_rx ==
  CASE rx.state = "Idle" -> IF bit_rx = 0 THEN RxStart(rx) ELSE rx
    [] rx.state # "Idle" /\ rx.tick < setting.period -> RxTick
    [] rx.state = "Start" /\ rx.tick = setting.period -> RxData
    [] rx.state = "Parity" /\ rx.tick = setting.period -> RxParity
    [] OTHER -> RxStop

-----------------------------------------------------------------------------
\* The program's end of the transmit buffer: devWrite and X_UART::step write a
\* word only when it is not full.
Puts == {<<>>} \cup
        IF puts < MaxWords /\ Len(txbuf) < BufSize
        THEN {<<w>> : w \in Payload(setting.bits)} ELSE {}

\* A bit of the word or its parity is leaving the transmitter.
SendsData == \/ tx.state = "Start" /\ tx.pos > 0
             \/ tx.state = "Parity"
             \/ tx.state = "Stop" /\ tx.pos = 0

\* UART_AXI4L::step and X_UART::step: set_pin, devRead, devWrite, do_rx, do_tx.
Clock(put, read, flip) ==
  LET arrives == RxEnds /\ flight # <<>>
      stored == IF RxEnds /\ ~Full THEN <<adjust_word>> ELSE <<>>
  IN
  /\ tx' = do_tx
  /\ txbuf' = (IF TxLoads THEN Tail(txbuf) ELSE txbuf) \o put
  /\ puts' = puts + Len(put)
  /\ wire' = <<IF flip THEN 1 - do_tx.bit ELSE do_tx.bit, wire[1]>>
  /\ noise' = (noise /\ ~flip) /\ noisy' = (noisy \/ flip)
  /\ rx' = do_rx
  /\ rxbuf' = (IF read THEN Tail(rxbuf) ELSE rxbuf) \o stored
  /\ flight' = (IF arrives THEN Tail(flight) ELSE flight)
               \o (IF TxLoads THEN <<Head(txbuf)>> ELSE <<>>)
  /\ wrong' = (wrong \/ (RxEnds /\ (flight = <<>> \/ adjust_word # Head(flight))))
  /\ overrun' = (overrun \/ (RxStops /\ Full))
  /\ UNCHANGED setting

Tick == Clock(<<>>, FALSE, FALSE)
Put == \E p \in Puts \ {<<>>} : Clock(p, FALSE, FALSE)
Read == rxbuf # <<>> /\ \E p \in Puts : Clock(p, TRUE, FALSE)
Disturbance == /\ noise /\ SendsData
               /\ Clock(<<>>, FALSE, TRUE)

Next == Tick \/ Put \/ Read \/ Disturbance
Spec == Init /\ [][Next]_vars

\* The clock ticks; the reader need not read, the line need not be disturbed.
FairSpec == Spec /\ WF_vars(Next)

-----------------------------------------------------------------------------
\* Type correctness; a buffer never holds more than its size, which is why a
\* store that was accepted is never refused by do_tx.
TypeOK ==
  /\ tx.state \in {"Idle", "Start", "Parity", "Stop"} /\ tx.bit \in Bit
  /\ tx.word \in Seq(Bit) /\ tx.tick \in 0 .. setting.period
  /\ tx.pos \in 0 .. setting.bits /\ tx.parity \in Bit
  /\ rx.state \in {"Idle", "Start", "Parity", "Stop"} /\ rx.tick \in 0 .. setting.period
  /\ rx.pos \in 0 .. setting.bits + 1 /\ Len(rx.word) = 8 /\ rx.samp \in Bit
  /\ \A q \in {txbuf, rxbuf} : Len(q) <= BufSize
  /\ wire \in Bit \X Bit

\* On an undisturbed line the two ends move words, in order, each once: the
\* receiver samples every bit of a frame inside that bit, for every distance between
\* two words, and finds no frame that is none.  So it is for every setting but one:
\* with five bits, no parity and the stop bit of 1.5 bits, which Commands must not hold,
\* the transmitter starts the next word's tick where the stop bit's was left, while the
\* receiver, whose bit_pos is 0, stays to the end of the period, and words are garbled.
Words == INSTANCE WordLine
ImplementsWordLine == Words!Init /\ [][Words!Next \/ noisy']_bufs

\* On an undisturbed line rx.error is raised only by a full buffer.
ErrorMeansFull == rx.error => noisy \/ overrun

\* With odd or even parity, a word changed by one disturbance makes rx.error rise as
\* soon as its parity bit is in; the word itself is in the buffer by then.
ParityCatches ==
  setting.parity \in {1, 3} /\ wrong => (rx.error \/ rx.state = "Parity")

\* Every word put leaves the transmitter and arrives.
EverythingArrives == puts > 0 ~> txbuf = <<>> /\ flight = <<>>
=============================================================================
