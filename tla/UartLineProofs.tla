---------------------------- MODULE UartLineProofs ----------------------------
(***************************************************************************)
(* Proofs about two UARTs and the wire between them, for every period,     *)
(* length and parity, one or two stop bits (WholeStops: not the one of     *)
(* 1.5 bits, which write_command decodes for words of five bits), every    *)
(* set of words and every size of the buffers: on an undisturbed line      *)
(* words arrive as WordLine says (LineCorrect), errors are reported for a  *)
(* reason (ErrorCorrect), and a word changed by one disturbance raises one *)
(* (ParityCorrect).                                                        *)
(*                                                                         *)
(* The inductive invariant IInv numbers the bits of a frame.  The receiver *)
(* is at the bit, and at the tick of that bit, at which the transmitter    *)
(* was two clocks ago (Lag), because the wire is high between frames and   *)
(* low in a start bit (Edges) even if the line is disturbed.  One word is  *)
(* under way (OneWord); what is on the line is its frame (Sending), what   *)
(* has been sampled are its first bits, and the parity is theirs           *)
(* (Receiving), but for the one bit that was inverted, which is leaving    *)
(* the transmitter, at the receiver, or sampled (OneFlip).                 *)
(***************************************************************************)
EXTENDS UartLine, TLAPS

\* The setting is not the stop bit of 1.5 bits.
WholeStops == setting.stop # 3

-----------------------------------------------------------------------------
(* Frames.  The bits of a frame are numbered: 0 is the start bit, then the *)
(* data bits, the parity bit if there is one, the stop bits.               *)

States == {"Idle", "Start", "Parity", "Stop"}
P == setting.period
B == setting.bits
Par == IF setting.parity = 0 THEN 0 ELSE 1
Parities == {0, 1, 3, 5, 7}

\* The last bit that is sent, and the last one the receiver waits for.
TxLast == B + Par + setting.stop
RxLast == B + Par + 1

\* The bit that is on the line, and the one the receiver is at; -1 between frames.
TxIdx == CASE tx.state = "Idle" -> -1
           [] tx.state = "Start" -> tx.pos
           [] tx.state = "Parity" -> B
           [] tx.state = "Stop" -> B + Par + tx.pos
RxIdx == CASE rx.state = "Idle" -> -1
           [] rx.state = "Start" -> rx.pos
           [] rx.state = "Parity" -> B + 1
           [] rx.state = "Stop" -> B + Par + 1

Types ==
  /\ setting \in [period : {1, SlowPeriod}, bits : 5 .. 8, stop : {1, 2}, parity : Parities]
  /\ tx \in [state : States, bit : Bit, word : Seq(Bit), parity : Bit, pos : 0 .. 8,
             tick : 0 .. P]
  /\ rx \in [state : States, word : [1 .. 8 -> Bit], parity : Bit, pos : 0 .. 9,
             tick : 0 .. P, samp : Bit, error : BOOLEAN]
  /\ wire \in Bit \X Bit
  /\ txbuf \in Seq(Payload(B)) /\ flight \in Seq(Payload(B)) /\ rxbuf \in Seq(Seq(Bit))
  /\ Len(txbuf) <= BufSize /\ Len(rxbuf) <= BufSize
  /\ puts \in Nat
  /\ noise \in BOOLEAN /\ noisy \in BOOLEAN /\ wrong \in BOOLEAN /\ overrun \in BOOLEAN

Control ==
  /\ tx.state = "Idle" => tx.tick = 0 /\ tx.pos <= B
  /\ tx.state = "Start" => tx.pos < B
  /\ tx.state = "Parity" => tx.pos = 0 /\ Par = 1
  /\ tx.state = "Stop" => tx.pos <= setting.stop
  /\ rx.state = "Idle" => rx.tick = 0 /\ rx.pos <= B + 1
  /\ rx.state = "Start" => rx.pos <= B
  /\ rx.state = "Parity" => rx.pos = 0 /\ Par = 1
  /\ rx.state = "Stop" => rx.pos = Par

\* The receiver is two clocks behind the transmitter.
Lag ==
  /\ TxIdx >= 0 /\ tx.tick >= 2 =>
       IF TxIdx <= RxLast THEN RxIdx = TxIdx /\ rx.tick = tx.tick - 2 ELSE RxIdx = -1
  /\ TxIdx >= 1 /\ tx.tick < 2 => RxIdx = TxIdx - 1 /\ rx.tick = tx.tick + P - 1
  /\ TxIdx = 0 /\ tx.tick < 2 =>
       RxIdx = -1 \/ (RxIdx = RxLast /\ rx.tick >= P - 1 + tx.tick)
  /\ TxIdx = -1 => RxIdx = -1 \/ (RxIdx = RxLast /\ rx.tick >= P - 1)

\* What is on the wire between frames, in the start bit and the stop bits.
Edges ==
  /\ TxIdx = -1 => wire = <<1, 1>>
  /\ TxIdx = 0 => wire = <<0, IF tx.tick = 0 THEN 1 ELSE 0>>
  /\ TxIdx = 1 /\ tx.tick = 0 => wire[2] = 0
  /\ TxIdx = RxLast => (tx.tick >= 1 => wire[1] = 1) /\ (tx.tick >= 2 => wire[2] = 1)
  /\ TxIdx > RxLast => wire = <<1, 1>>
  /\ TxIdx = -1 \/ TxIdx >= RxLast => tx.bit = 1
  /\ TxIdx = 0 => tx.bit = 0

\* The word under way, until its last bit has been received.
Awaited == RxIdx \in 0 .. B \/ (TxIdx = 0 /\ tx.tick < 2)
OneWord == IF Awaited THEN Len(flight) = 1 ELSE flight = <<>>

\* Parity of the first k bits of a word.
IsPrefixParity(f, w) ==
  /\ f \in [0 .. Len(w) -> Bit]
  /\ f[0] = 0 /\ \A k \in 1 .. Len(w) : f[k] = (f[k - 1] + w[k]) % 2
PrefixParity(w) == CHOOSE f \in [0 .. Len(w) -> Bit] : IsPrefixParity(f, w)

FrameBit(i) == CASE i = 0 -> 0
                 [] i \in 1 .. B -> flight[1][i]
                 [] i = B + 1 /\ Par = 1 -> parity_bit(tx.parity)
                 [] OTHER -> 1

Sending ==
  /\ tx.bit = FrameBit(TxIdx)
  /\ TxIdx \in 0 .. B - 1 =>
       /\ Len(tx.word) = B - TxIdx
       /\ \A j \in 1 .. B - TxIdx : tx.word[j] = flight[1][TxIdx + j]
  /\ Awaited => tx.parity = PrefixParity(flight[1])[IF TxIdx <= B THEN TxIdx ELSE B]

\* A bit that was inverted on its way: leaving the transmitter, at the receiver, in
\* the word received so far.
PrevBit == IF tx.tick = 0 THEN FrameBit(TxIdx - 1) ELSE FrameBit(TxIdx)
Dirty1 == wire[1] # tx.bit
Dirty2 == wire[2] # PrevBit
Sampled == IF rx.tick > Half THEN RxIdx ELSE RxIdx - 1
Damaged == RxIdx \in 0 .. B /\ \E k \in 1 .. Sampled : rx.word[8 - Sampled + k] # flight[1][k]

OneFlip ==
  /\ Dirty1 \/ Dirty2 \/ Damaged => noisy
  /\ ~(Dirty1 /\ Dirty2) /\ ~(Dirty1 /\ Damaged) /\ ~(Dirty2 /\ Damaged)
  /\ noisy => ~noise

Receiving ==
  /\ RxIdx \in 0 .. B /\ Sampled < 0 => rx.parity = 0
  /\ RxIdx \in 0 .. B /\ Sampled >= 0 =>
       LET p == PrefixParity(flight[1])[Sampled]
       IN rx.parity = IF Damaged THEN 1 - p ELSE p

Judging ==
  /\ wrong => noisy
  /\ rx.error => noisy \/ overrun
  /\ ~noisy /\ rx.state = "Parity" => rx.parity = tx.parity
  /\ ~noisy /\ rx.state = "Parity" /\ rx.tick > Half => rx.samp = parity_bit(tx.parity)
  /\ ~noisy /\ rx.state = "Stop" /\ rx.tick > Half => rx.samp = 1

Catching ==
  setting.parity \in {1, 3} /\ wrong =>
    \/ rx.error
    \/ /\ rx.state = "Parity" /\ rx.parity # tx.parity /\ ~Dirty1 /\ ~Dirty2
       /\ rx.tick > Half => rx.samp = parity_bit(tx.parity)

-----------------------------------------------------------------------------
(* Arithmetic of a period, and the range of the bits *)

Ticks ==
  /\ P \in Nat /\ P >= 1 /\ Half \in Nat /\ Half < P
  /\ P <= 2 => Half = P - 1
  /\ P > 2 => Half + 2 <= P

LEMMA PeriodTicks == Types => Ticks
<1> SUFFICES ASSUME Types PROVE Ticks
  OBVIOUS
<1>1. P \in Nat /\ P >= 1
  BY LineAssumption, SMTT(30) DEF Types, P
<1> QED
  BY <1>1 DEF Ticks, Half, P

Ranges ==
  /\ B \in 5 .. 8 /\ Par \in {0, 1} /\ RxLast = B + Par + 1 /\ RxLast \in 6 .. 10
  /\ TxLast = RxLast \/ TxLast = RxLast + 1
  /\ TxIdx \in -1 .. TxLast /\ RxIdx \in -1 .. RxLast
  /\ tx.tick \in 0 .. P /\ rx.tick \in 0 .. P

LEMMA IndexRanges == Types /\ Control => Ranges
<1> SUFFICES ASSUME Types, Control PROVE Ranges
  OBVIOUS
<1>1. B \in 5 .. 8 /\ Par \in {0, 1} /\ setting.stop \in {1, 2}
  BY DEF Types, B, Par
<1>a. /\ tx.state \in States /\ tx.pos \in 0 .. 8
      /\ rx.state \in States /\ rx.pos \in 0 .. 9
      /\ tx.tick \in 0 .. P /\ rx.tick \in 0 .. P
  BY DEF Types
<1>2. TxIdx \in -1 .. TxLast
  BY <1>1, <1>a DEF Control, TxIdx, TxLast, States
<1>3. RxIdx \in -1 .. RxLast
  BY <1>1, <1>a DEF Control, RxIdx, RxLast, States
<1> QED
  BY <1>1, <1>2, <1>3, <1>a DEF Ranges, RxLast, TxLast

-----------------------------------------------------------------------------
(* What the transmitter does in a clock, by the number of the bit *)

TxWaits == TxIdx = -1 /\ ~TxLoads /\ tx' = tx /\ TxIdx' = -1
TxBegins ==
  /\ TxLoads /\ (TxIdx = -1 \/ (TxIdx = TxLast /\ tx.tick = P))
  /\ tx' = [tx EXCEPT !.state = "Start", !.word = Head(txbuf), !.pos = 0, !.parity = 0,
                      !.bit = 0, !.tick = 0]
  /\ TxIdx' = 0
TxTicks ==
  /\ TxIdx >= 0 /\ tx.tick < P /\ ~TxLoads
  /\ tx' = [tx EXCEPT !.tick = @ + 1]
  /\ TxIdx' = TxIdx
TxShifts ==
  /\ TxIdx \in 0 .. B - 1 /\ tx.tick = P /\ ~TxLoads
  /\ tx.state = "Start" /\ tx' = TxData
  /\ TxIdx' = TxIdx + 1
TxNexts ==
  /\ TxIdx \in B .. TxLast - 1 /\ tx.tick = P /\ ~TxLoads
  /\ \E s \in {"Stop"}, p \in 0 .. 8 :
       tx' = [tx EXCEPT !.state = s, !.pos = p, !.tick = 0,
                        !.bit = IF TxIdx = B /\ Par = 1 THEN parity_bit(tx.parity) ELSE 1]
  /\ TxIdx' = TxIdx + 1
TxIdles ==
  /\ TxIdx = TxLast /\ tx.tick = P /\ ~TxLoads
  /\ tx' = [tx EXCEPT !.state = "Idle", !.bit = 1, !.tick = 0]
  /\ TxIdx' = -1
TxMove == TxWaits \/ TxBegins \/ TxTicks \/ TxShifts \/ TxNexts \/ TxIdles
TxControl ==
  /\ tx.state = "Idle" => tx.tick = 0 /\ tx.pos <= B
  /\ tx.state = "Start" => tx.pos < B
  /\ tx.state = "Parity" => tx.pos = 0 /\ Par = 1
  /\ tx.state = "Stop" => tx.pos <= setting.stop

LEMMA TxMoves ==
  ASSUME Types, Control, tx' = do_tx, setting' = setting
  PROVE  TxMove /\ TxControl'
<1>1. Ticks /\ Ranges
  BY PeriodTicks, IndexRanges
<1>2. setting.stop \in {1, 2} /\ tx.state \in States /\ tx.pos \in 0 .. 8
  BY DEF Types
<1>3. CASE tx.state = "Idle" /\ ~TxLoads
  <2>1. tx' = tx
    BY <1>3 DEF do_tx, TxDone
  <2> QED
    BY <1>3, <2>1 DEF TxMove, TxWaits, TxIdx, Control, TxControl, B, Par
<1>4. CASE tx.state = "Idle" /\ TxLoads
  <2>1. tx' = TxStart(tx, Head(txbuf))
    BY <1>4 DEF do_tx, TxDone
  <2>2. tx' = [tx EXCEPT !.state = "Start", !.word = Head(txbuf), !.pos = 0, !.parity = 0,
                      !.bit = 0, !.tick = 0]
    BY <1>4, <2>1 DEF TxStart, Types, Control
  <2>3. tx'.state = "Start" /\ tx'.pos = 0 /\ B' = B
    BY <2>2 DEF Types, B
  <2> QED
    BY <1>1, <1>4, <2>2, <2>3 DEF TxMove, TxBegins, TxIdx, TxControl, Ranges
<1>5. CASE tx.state # "Idle" /\ tx.tick < P
  <2>1. tx' = TxTick /\ ~TxLoads
    BY <1>1, <1>5 DEF do_tx, TxLoads, TxDone, P, Ranges, Ticks
  <2>2. tx' = [tx EXCEPT !.tick = @ + 1]
    <3>1. ~StopsAtHalf(tx)
      BY <1>2 DEF StopsAtHalf
    <3> QED
      BY <2>1, <3>1 DEF TxTick, Types
  <2>3. tx'.state = tx.state /\ tx'.pos = tx.pos /\ B' = B /\ Par' = Par
    BY <2>2 DEF Types, B, Par
  <2> QED
    BY <1>1, <1>2, <1>5, <2>1, <2>2, <2>3 DEF TxMove, TxTicks, TxIdx, Control, TxControl, Ranges, States
<1>6. CASE tx.state = "Start" /\ tx.tick = P
  <2>1. tx' = TxData /\ ~TxLoads
    BY <1>1, <1>6 DEF do_tx, TxLoads, TxDone, P, Ranges, Ticks
  <2>2. /\ tx'.state = IF tx.pos = B - 1 THEN (IF setting.parity = 0 THEN "Stop" ELSE "Parity") ELSE "Start"
        /\ tx'.pos = IF tx.pos = B - 1 THEN 0 ELSE tx.pos + 1
        /\ B' = B /\ Par' = Par
    BY <1>6, <2>1 DEF Types, TxData, B, Par
  <2> QED
    BY <1>1, <1>2, <1>6, <2>1, <2>2 DEF TxMove, TxShifts, TxIdx, Control, TxControl, Ranges, Par
<1>7. CASE tx.state = "Parity" /\ tx.tick = P
  <2>1. tx' = TxParity /\ ~TxLoads
    BY <1>1, <1>7 DEF do_tx, TxLoads, TxDone, P, Ranges, Ticks
  <2>2. tx.pos = 0 /\ Par = 1 /\ TxIdx = B
    BY <1>7 DEF Control, TxIdx
  <2>3. tx' = [tx EXCEPT !.state = "Stop", !.pos = 0, !.tick = 0, !.bit = parity_bit(tx.parity)]
    BY <2>1, <2>2 DEF TxParity, Types
  <2>4. tx'.state = "Stop" /\ tx'.pos = 0 /\ B' = B /\ Par' = Par
    BY <2>3 DEF Types, B, Par
  <2>5. tx' = [tx EXCEPT !.state = "Stop", !.pos = 0, !.tick = 0,
                        !.bit = IF TxIdx = B /\ Par = 1 THEN parity_bit(tx.parity) ELSE 1]
    BY <2>2, <2>3
  <2>6. TxNexts
    BY <1>1, <1>7, <2>1, <2>2, <2>4, <2>5 DEF TxNexts, TxIdx, Ranges, RxLast
  <2> QED
    BY <1>2, <2>4, <2>6 DEF TxMove, TxControl
<1>8. CASE tx.state = "Stop" /\ tx.tick = P
  <2>1. tx.pos <= setting.stop /\ TxIdx = B + Par + tx.pos
    BY <1>8 DEF Control, TxIdx
  <2>2. CASE tx.pos = setting.stop /\ TxLoads
    <3>1. TxDone
      BY <1>2, <1>8, <2>2 DEF TxDone, P
    <3>2. tx' = TxStart([tx EXCEPT !.tick = 0], Head(txbuf))
      BY <1>1, <1>8, <2>2, <3>1 DEF do_tx, P, Ranges, Ticks
    <3>3. tx' = [tx EXCEPT !.state = "Start", !.word = Head(txbuf), !.pos = 0, !.parity = 0,
                      !.bit = 0, !.tick = 0]
      BY <3>2 DEF TxStart, Types
    <3>4. tx'.state = "Start" /\ tx'.pos = 0 /\ B' = B
      BY <3>3 DEF Types, B
    <3> QED
      BY <1>1, <1>8, <2>1, <2>2, <3>3, <3>4 DEF TxMove, TxBegins, TxIdx, TxControl, Ranges, TxLast
  <2>3. CASE tx.pos = setting.stop /\ ~TxLoads
    <3>1. TxDone
      BY <1>2, <1>8, <2>3 DEF TxDone, P
    <3>2. tx' = [tx EXCEPT !.tick = 0, !.state = "Idle", !.bit = 1]
      BY <1>1, <1>8, <2>3, <3>1 DEF do_tx, P, Ranges, Ticks
    <3>3. /\ tx' = [tx EXCEPT !.state = "Idle", !.bit = 1, !.tick = 0]
          /\ tx'.state = "Idle" /\ tx'.tick = 0 /\ tx'.pos = tx.pos /\ B' = B
      BY <3>2 DEF Types, B
    <3> QED
      BY <1>1, <1>2, <1>8, <2>1, <2>3, <3>3 DEF TxMove, TxIdles, TxIdx, TxControl, Ranges, TxLast
  <2>4. CASE tx.pos < setting.stop
    <3>1. ~TxDone /\ ~TxLoads
      BY <1>2, <1>8, <2>4 DEF TxDone, TxLoads, P
    <3>2. tx' = [tx EXCEPT !.tick = 0, !.bit = 1, !.pos = @ + 1]
      BY <1>1, <1>8, <3>1 DEF do_tx, P, Ranges, Ticks
    <3>3. tx' = [tx EXCEPT !.state = "Stop", !.pos = tx.pos + 1, !.tick = 0, !.bit = 1]
      BY <1>8, <3>2 DEF Types
    <3>4. ~(TxIdx = B /\ Par = 1)
      BY <1>1, <1>2, <2>1 DEF Ranges
    <3>5. tx'.state = "Stop" /\ tx'.pos = tx.pos + 1 /\ B' = B /\ Par' = Par
      BY <3>3 DEF Types, B, Par
    <3>6. tx' = [tx EXCEPT !.state = "Stop", !.pos = tx.pos + 1, !.tick = 0,
                        !.bit = IF TxIdx = B /\ Par = 1 THEN parity_bit(tx.parity) ELSE 1]
      BY <3>3, <3>4
    <3>7. TxNexts
      <4>1. TxIdx' = TxIdx + 1
        BY <1>1, <1>2, <1>8, <2>1, <3>5 DEF TxIdx, Ranges
      <4>2. TxIdx \in B .. TxLast - 1 /\ tx.pos + 1 \in 0 .. 8
        BY <1>1, <1>2, <2>1, <2>4 DEF Ranges, TxLast
      <4> QED
        BY <1>8, <3>1, <3>6, <4>1, <4>2 DEF TxNexts
    <3> QED
      BY <1>2, <2>4, <3>5, <3>7 DEF TxMove, TxControl
  <2> QED
    BY <1>2, <2>1, <2>2, <2>3, <2>4
<1> QED
  BY <1>1, <1>2, <1>3, <1>4, <1>5, <1>6, <1>7, <1>8 DEF States, Ranges, Ticks

-----------------------------------------------------------------------------
(* What the receiver does in a clock, by the number of the bit *)

Blank == [i \in 1 .. 8 |-> 0]
RxFault == rx.error \/ rx.samp # 1 \/ Full

RxWaits == RxIdx = -1 /\ bit_rx # 0 /\ rx' = rx /\ RxIdx' = -1
RxBegins ==
  /\ bit_rx = 0 /\ (RxIdx = -1 \/ (RxIdx = RxLast /\ rx.tick = P))
  /\ rx' = [rx EXCEPT !.state = "Start", !.word = Blank, !.pos = 0, !.parity = 0, !.tick = 0,
                      !.error = IF RxIdx = -1 THEN rx.error ELSE RxFault]
  /\ RxIdx' = 0
RxTicks ==
  /\ RxIdx >= 0 /\ rx.tick < P
  /\ LET mid == rx.tick = Half
         data == mid /\ RxIdx <= B
     IN rx' = [rx EXCEPT !.tick = @ + 1,
                         !.samp = IF mid THEN bit_rx ELSE @,
                         !.word = IF data THEN Append(Tail(@), bit_rx) ELSE @,
                         !.parity = IF data THEN (@ + bit_rx) % 2 ELSE @]
  /\ RxIdx' = RxIdx
RxShifts ==
  /\ RxIdx \in 0 .. B - 1 /\ rx.tick = P
  /\ rx' = [rx EXCEPT !.tick = 0, !.pos = @ + 1]
  /\ RxIdx' = RxIdx + 1
RxFills ==
  /\ RxIdx = B /\ rx.tick = P
  /\ rx' = [rx EXCEPT !.tick = 0, !.pos = 0, !.state = IF Par = 0 THEN "Stop" ELSE "Parity"]
  /\ RxIdx' = RxIdx + 1
RxJudges ==
  /\ RxIdx = B + 1 /\ Par = 1 /\ rx.tick = P /\ rx.state = "Parity"
  /\ rx' = [rx EXCEPT !.tick = 0, !.state = "Stop", !.pos = 1,
                      !.error = @ \/ parity_bit(rx.parity) # rx.samp]
  /\ RxIdx' = RxIdx + 1
RxIdles ==
  /\ RxIdx = RxLast /\ rx.tick = P /\ bit_rx # 0
  /\ rx' = [rx EXCEPT !.tick = 0, !.state = "Idle", !.error = RxFault]
  /\ RxIdx' = -1
RxMove ==
  RxWaits \/ RxBegins \/ RxTicks \/ RxShifts \/ RxFills \/ RxJudges \/ RxIdles
RxControl ==
  /\ rx.state = "Idle" => rx.tick = 0 /\ rx.pos <= B + 1
  /\ rx.state = "Start" => rx.pos <= B
  /\ rx.state = "Parity" => rx.pos = 0 /\ Par = 1
  /\ rx.state = "Stop" => rx.pos = Par

LEMMA ReceiverStates ==
  ASSUME Types, Control
  PROVE  /\ RxEnds <=> RxIdx = B /\ rx.tick = P
         /\ RxStops <=> RxIdx = RxLast /\ rx.tick = P
         /\ rx.state = "Idle" <=> RxIdx = -1
         /\ rx.state = "Start" <=> RxIdx \in 0 .. B
         /\ rx.state = "Parity" <=> RxIdx = B + 1 /\ Par = 1
         /\ rx.state = "Stop" <=> RxIdx = RxLast
<1>1. Ranges
  BY IndexRanges
<1>2. rx.state \in States /\ rx.pos \in 0 .. 9
  BY DEF Types
<1> QED
  BY <1>1, <1>2 DEF Control, RxIdx, States, Ranges, RxEnds, RxStops, P, B

LEMMA RxMoves ==
  ASSUME Types, Control, rx' = do_rx, setting' = setting
  PROVE  RxMove /\ RxControl'
<1>1. Ticks /\ Ranges
  BY PeriodTicks, IndexRanges
<1>2. rx.state \in States /\ rx.pos \in 0 .. 9 /\ setting.stop \in {1, 2}
  BY DEF Types
<1>3. B' = B /\ Par' = Par
  BY DEF B, Par
<1>4. CASE rx.state = "Idle" /\ bit_rx # 0
  <2>1. rx' = rx
    BY <1>4 DEF do_rx
  <2> QED
    BY <1>3, <1>4, <2>1 DEF RxMove, RxWaits, RxIdx, Control, RxControl
<1>5. CASE rx.state = "Idle" /\ bit_rx = 0
  <2>1. rx' = RxStart(rx)
    BY <1>5 DEF do_rx
  <2>2. RxIdx = -1 /\ rx.tick = 0
    BY <1>5 DEF RxIdx, Control
  <2>3. rx' = [rx EXCEPT !.state = "Start", !.word = Blank, !.pos = 0, !.parity = 0, !.tick = 0,
                      !.error = IF RxIdx = -1 THEN rx.error ELSE RxFault]
    BY <2>1, <2>2 DEF RxStart, Blank, Types
  <2>4. rx'.state = "Start" /\ rx'.pos = 0
    BY <2>3 DEF Types
  <2>5. RxIdx' = 0
    BY <2>4 DEF RxIdx
  <2> QED
    BY <1>1, <1>3, <1>5, <2>2, <2>3, <2>4, <2>5 DEF RxMove, RxBegins, RxControl, Ranges
<1>6. CASE rx.state # "Idle" /\ rx.tick < P
  <2>1. rx' = RxTick
    BY <1>1, <1>6 DEF do_rx, P, Ranges, Ticks
  <2>2. ~StopsAtHalf(rx)
    BY <1>2 DEF StopsAtHalf
  <2>3. rx.state = "Start" <=> RxIdx <= B
    BY <1>6, <1>1, ReceiverStates DEF Ranges
  <2>4. rx' = [rx EXCEPT !.tick = @ + 1,
                         !.samp = IF rx.tick = Half THEN bit_rx ELSE @,
                         !.word = IF rx.tick = Half /\ RxIdx <= B THEN Append(Tail(@), bit_rx) ELSE @,
                         !.parity = IF rx.tick = Half /\ RxIdx <= B THEN (@ + bit_rx) % 2 ELSE @]
    BY <2>1, <2>2, <2>3 DEF RxTick, Types
  <2>5. rx'.state = rx.state /\ rx'.pos = rx.pos
    BY <2>4 DEF Types
  <2>6. RxIdx' = RxIdx /\ RxIdx >= 0
    <3>1. RxIdx' = RxIdx
      BY <1>2, <1>3, <2>5 DEF RxIdx, States
    <3>2. RxIdx # -1 /\ RxIdx \in -1 .. RxLast /\ RxLast \in 6 .. 10
      BY <1>1, <1>6, ReceiverStates DEF Ranges
    <3> QED
      BY <3>1, <3>2
  <2>7. RxTicks
    BY <1>6, <2>4, <2>6 DEF RxTicks
  <2> QED
    BY <1>3, <1>6, <2>5, <2>7 DEF RxMove, Control, RxControl
<1>7. CASE rx.state = "Start" /\ rx.tick = P
  <2>1. rx' = RxData
    BY <1>1, <1>7 DEF do_rx, P, Ranges, Ticks
  <2>2. RxIdx = rx.pos /\ rx.pos \in 0 .. B
    BY <1>1, <1>2, <1>7 DEF RxIdx, Control, Ranges
  <2>3. CASE rx.pos < B
    <3>1. ~RxEnds
      BY <1>1, <1>2, <2>2, <2>3 DEF RxEnds, B, Ranges
    <3>2. rx' = [rx EXCEPT !.tick = 0, !.pos = @ + 1]
      BY <2>1, <3>1 DEF RxData, Types
    <3>3. rx'.state = "Start" /\ rx'.pos = rx.pos + 1
      BY <1>7, <3>2 DEF Types
    <3>4. RxIdx' = RxIdx + 1
      BY <2>2, <3>3 DEF RxIdx
    <3> QED
      BY <1>1, <1>3, <1>7, <2>2, <2>3, <3>2, <3>3, <3>4 DEF RxMove, RxShifts, RxControl, Ranges
  <2>4. CASE rx.pos = B
    <3>1. RxEnds
      BY <1>7, <2>2, <2>4, ReceiverStates
    <3>2. rx' = [rx EXCEPT !.tick = 0, !.pos = 0, !.state = IF Par = 0 THEN "Stop" ELSE "Parity"]
      <4>1. Par = 0 <=> setting.parity = 0
        BY DEF Par
      <4> QED
        BY <1>7, <2>1, <3>1, <4>1 DEF RxData, Types
    <3>3. rx'.state = (IF Par = 0 THEN "Stop" ELSE "Parity") /\ rx'.pos = 0
      BY <3>2 DEF Types
    <3>4. RxIdx' = RxIdx + 1
      BY <1>1, <1>3, <1>7, <2>2, <2>4, <3>3 DEF RxIdx, Ranges
    <3> QED
      BY <1>1, <1>3, <1>7, <2>2, <2>4, <3>2, <3>3, <3>4 DEF RxMove, RxFills, RxControl, Ranges
  <2> QED
    BY <1>1, <2>2, <2>3, <2>4 DEF Ranges
<1>8. CASE rx.state = "Parity" /\ rx.tick = P
  <2>1. rx' = RxParity
    BY <1>1, <1>8 DEF do_rx, P, Ranges, Ticks
  <2>2. rx.pos = 0 /\ Par = 1 /\ RxIdx = B + 1
    BY <1>8 DEF Control, RxIdx
  <2>3. rx' = [rx EXCEPT !.tick = 0, !.state = "Stop", !.pos = 1,
                      !.error = @ \/ parity_bit(rx.parity) # rx.samp]
    BY <2>1, <2>2 DEF RxParity, Types
  <2>4. rx'.state = "Stop" /\ rx'.pos = 1
    BY <2>3 DEF Types
  <2>5. RxIdx' = RxIdx + 1
    BY <1>1, <1>3, <2>2, <2>4 DEF RxIdx, Ranges
  <2> QED
    BY <1>3, <1>8, <2>2, <2>3, <2>4, <2>5 DEF RxMove, RxJudges, RxControl
<1>9. CASE rx.state = "Stop" /\ rx.tick = P
  <2>1. rx' = RxStop
    BY <1>1, <1>9 DEF do_rx, P, Ranges, Ticks
  <2>2. RxIdx = RxLast /\ RxIdx # -1
    BY <1>1, <1>9, ReceiverStates DEF Ranges
  <2>3. CASE bit_rx = 0
    <3>1. rx' = [rx EXCEPT !.state = "Start", !.word = Blank, !.pos = 0, !.parity = 0, !.tick = 0,
                      !.error = IF RxIdx = -1 THEN rx.error ELSE RxFault]
      BY <2>1, <2>2, <2>3 DEF RxStop, RxStart, Blank, RxFault, Types
    <3>2. rx'.state = "Start" /\ rx'.pos = 0
      BY <3>1 DEF Types
    <3>3. RxIdx' = 0
      BY <3>2 DEF RxIdx
    <3> QED
      BY <1>1, <1>3, <1>9, <2>2, <2>3, <3>1, <3>2, <3>3 DEF RxMove, RxBegins, RxControl, Ranges
  <2>4. CASE bit_rx # 0
    <3>1. rx' = [rx EXCEPT !.tick = 0, !.state = "Idle", !.error = RxFault]
      BY <2>1, <2>4 DEF RxStop, RxFault, Types
    <3>2. rx'.state = "Idle" /\ rx'.tick = 0 /\ rx'.pos = Par
      BY <1>9, <3>1 DEF Types, Control
    <3>3. RxIdx' = -1
      BY <3>2 DEF RxIdx
    <3> QED
      BY <1>1, <1>3, <1>9, <2>2, <2>4, <3>1, <3>2, <3>3 DEF RxMove, RxIdles, RxControl, Ranges
  <2> QED
    BY <2>3, <2>4
<1> QED
  BY <1>1, <1>2, <1>4, <1>5, <1>6, <1>7, <1>8, <1>9 DEF States, Ranges, Ticks

-----------------------------------------------------------------------------
(* The wire between frames, and the distance of the two ends *)

Wires(flip) ==
  /\ flip \in BOOLEAN
  /\ wire' = <<IF flip THEN 1 - tx'.bit ELSE tx'.bit, wire[1]>>
  /\ flip => TxIdx \in 1 .. RxLast - 1

LEMMA SendsRange ==
  ASSUME Types, Control
  PROVE  SendsData <=> TxIdx \in 1 .. RxLast - 1
<1>1. Ranges
  BY IndexRanges
<1>2. tx.state \in States /\ tx.pos \in 0 .. 8
  BY DEF Types
<1> QED
  BY <1>1, <1>2 DEF Control, SendsData, TxIdx, States, Ranges

LEMMA SameFrame ==
  ASSUME setting' = setting
  PROVE  P' = P /\ B' = B /\ Par' = Par /\ RxLast' = RxLast /\ TxLast' = TxLast /\ Half' = Half
  BY DEF P, B, Par, RxLast, TxLast, Half

LEMMA EdgesKept ==
  ASSUME Types, Control, Edges, TxMove, setting' = setting, NEW flip, Wires(flip)
  PROVE  Edges'
<1>1. Ticks /\ Ranges
  BY PeriodTicks, IndexRanges
<1>2. P' = P /\ B' = B /\ Par' = Par /\ RxLast' = RxLast /\ TxLast' = TxLast
  BY SameFrame
<1>3. wire'[1] = (IF flip THEN 1 - tx'.bit ELSE tx'.bit) /\ wire'[2] = wire[1] /\ wire' = <<wire'[1], wire'[2]>>
  BY DEF Wires
<1>4. wire[1] \in Bit /\ wire = <<wire[1], wire[2]>>
  BY DEF Types
<1>5. tx.tick \in 0 .. P
  BY <1>1 DEF Ranges
<1>6. CASE TxWaits
  <2>1. ~flip /\ tx'.tick = tx.tick /\ tx'.bit = 1
    BY <1>1, <1>6 DEF Wires, TxWaits, Edges
  <2> QED
    BY <1>1, <1>2, <1>3, <1>4, <1>6, <2>1 DEF TxWaits, Edges, Ranges
<1>7. CASE TxBegins
  <2>1. ~flip /\ tx'.tick = 0 /\ tx'.bit = 0 /\ wire[1] = 1
    <3>1. tx'.tick = 0 /\ tx'.bit = 0
      BY <1>7 DEF TxBegins, Types
    <3>2. ~flip
      BY <1>1, <1>7 DEF Wires, TxBegins, Ranges
    <3>3. wire[1] = 1
      BY <1>1, <1>7 DEF TxBegins, Edges, Ranges, Ticks
    <3> QED
      BY <3>1, <3>2, <3>3
  <2> QED
    BY <1>1, <1>2, <1>3, <2>1, <1>7 DEF TxBegins, Edges, Ranges
<1>8. CASE TxTicks
  <2>1. tx'.tick = tx.tick + 1 /\ tx'.bit = tx.bit
    BY <1>8 DEF TxTicks, Types
  <2> QED
    BY <1>1, <1>2, <1>3, <1>4, <1>5, <1>8, <2>1 DEF TxTicks, Edges, Ranges, Wires
<1>9. CASE TxShifts
  <2>1. tx'.tick = 0
    BY <1>9 DEF TxShifts, TxData, Types
  <2> QED
    BY <1>1, <1>2, <1>3, <1>9, <2>1 DEF TxShifts, Edges, Ranges, Wires, Ticks
<1>10. CASE TxNexts
  <2>1. tx'.tick = 0 /\ (TxIdx' >= RxLast => tx'.bit = 1)
    BY <1>1, <1>10, SMTT(30) DEF TxNexts, Types, Ranges
  <2> QED
    BY <1>1, <1>2, <1>3, <1>10, <2>1 DEF TxNexts, Edges, Ranges, Wires, Ticks
<1>11. CASE TxIdles
  <2>1. ~flip /\ tx'.tick = 0 /\ tx'.bit = 1 /\ wire[1] = 1
    <3>1. tx'.tick = 0 /\ tx'.bit = 1
      BY <1>11 DEF TxIdles, Types
    <3>2. ~flip
      BY <1>1, <1>11 DEF Wires, TxIdles, Ranges
    <3>3. wire[1] = 1
      BY <1>1, <1>11 DEF TxIdles, Edges, Ranges, Ticks
    <3> QED
      BY <3>1, <3>2, <3>3
  <2> QED
    BY <1>1, <1>2, <1>3, <2>1, <1>11 DEF TxIdles, Edges, Ranges
<1> QED
  BY <1>6, <1>7, <1>8, <1>9, <1>10, <1>11 DEF TxMove

\* Ticks and bits after a move.
TxPlace ==
  \/ TxIdx = -1 /\ TxIdx' = -1 /\ tx'.tick = tx.tick
  \/ (TxIdx = -1 \/ (TxIdx = TxLast /\ tx.tick = P)) /\ TxIdx' = 0 /\ tx'.tick = 0
  \/ TxIdx >= 0 /\ tx.tick < P /\ TxIdx' = TxIdx /\ tx'.tick = tx.tick + 1
  \/ TxIdx \in 0 .. TxLast - 1 /\ tx.tick = P /\ TxIdx' = TxIdx + 1 /\ tx'.tick = 0
  \/ TxIdx = TxLast /\ tx.tick = P /\ TxIdx' = -1 /\ tx'.tick = 0
RxPlace ==
  \/ RxIdx = -1 /\ bit_rx # 0 /\ RxIdx' = -1
  \/ bit_rx = 0 /\ (RxIdx = -1 \/ (RxIdx = RxLast /\ rx.tick = P)) /\ RxIdx' = 0 /\ rx'.tick = 0
  \/ RxIdx >= 0 /\ rx.tick < P /\ RxIdx' = RxIdx /\ rx'.tick = rx.tick + 1
  \/ RxIdx \in 0 .. RxLast - 1 /\ rx.tick = P /\ RxIdx' = RxIdx + 1 /\ rx'.tick = 0
  \/ RxIdx = RxLast /\ rx.tick = P /\ bit_rx # 0 /\ RxIdx' = -1

LEMMA Places ==
  ASSUME Types, Control, TxMove, RxMove
  PROVE  TxPlace /\ RxPlace
<1>1. Ranges
  BY IndexRanges
<1>2. TxPlace
  <2>1. CASE TxShifts
    <3>1. tx'.tick = 0
      BY <2>1 DEF TxShifts, TxData, Types
    <3>2. TxIdx \in 0 .. B - 1 /\ tx.tick = P /\ TxIdx' = TxIdx + 1
      BY <2>1 DEF TxShifts
    <3> QED
      BY <1>1, <3>1, <3>2 DEF TxPlace, Ranges
  <2>2. CASE TxNexts
    BY <1>1, <2>2, SMTT(30) DEF TxNexts, TxPlace, Types, Ranges
  <2>3. CASE TxWaits \/ TxBegins \/ TxTicks \/ TxIdles
    BY <2>3 DEF TxWaits, TxBegins, TxTicks, TxIdles, TxPlace, Types
  <2> QED
    BY <2>1, <2>2, <2>3 DEF TxMove
<1>3. RxPlace
  <2>1. CASE RxWaits \/ RxIdles
    BY <2>1 DEF RxWaits, RxIdles, RxPlace
  <2>2. CASE RxBegins
    BY <2>2 DEF RxBegins, RxPlace, Types
  <2>3. CASE RxTicks
    BY <2>3 DEF RxTicks, RxPlace, Types
  <2>4. ASSUME RxShifts \/ RxFills \/ RxJudges
        PROVE  rx'.tick = 0
    BY <2>4 DEF RxShifts, RxFills, RxJudges, Types
  <2>5. CASE RxShifts \/ RxFills \/ RxJudges
    BY <1>1, <2>4, <2>5 DEF RxShifts, RxFills, RxJudges, RxPlace, Ranges
  <2> QED
    BY <2>1, <2>2, <2>3, <2>5 DEF RxMove
<1> QED
  BY <1>2, <1>3

LEMMA LagKept ==
  ASSUME Types, Control, Lag, Edges, TxMove, RxMove, setting' = setting
  PROVE  Lag'
<1>1. Ticks /\ Ranges
  BY PeriodTicks, IndexRanges
<1>2. P' = P /\ RxLast' = RxLast /\ TxLast' = TxLast
  BY SameFrame
<1>3. TxPlace /\ RxPlace
  BY Places
<1>4. /\ TxIdx = -1 => bit_rx = 1
      /\ TxIdx = 0 => bit_rx = IF tx.tick = 0 THEN 1 ELSE 0
      /\ TxIdx = RxLast /\ tx.tick >= 2 => bit_rx = 1
      /\ TxIdx > RxLast => bit_rx = 1
  BY DEF Edges, bit_rx
<1>5. P \in Nat /\ P >= 1 /\ tx.tick \in 0 .. P /\ rx.tick \in 0 .. P
  BY <1>1 DEF Ticks, Ranges
<1>6. /\ RxLast \in 6 .. 10 /\ (TxLast = RxLast \/ TxLast = RxLast + 1)
      /\ TxIdx \in -1 .. TxLast /\ RxIdx \in -1 .. RxLast
  BY <1>1 DEF Ranges
<1> QED
  BY <1>2, <1>3, <1>4, <1>5, <1>6 DEF Lag, TxPlace, RxPlace

-----------------------------------------------------------------------------
(* The word under way *)

FlightMove ==
  flight' = (IF RxEnds /\ flight # <<>> THEN Tail(flight) ELSE flight)
            \o (IF TxLoads THEN <<Head(txbuf)>> ELSE <<>>)
FlightStep ==
  /\ TxLoads => flight' = <<Head(txbuf)>>
  /\ ~TxLoads /\ ~RxEnds => flight' = flight
  /\ RxEnds => Len(flight) = 1

LEMMA Loading ==
  ASSUME TxMove
  PROVE  TxLoads <=> TxBegins
  BY DEF TxMove, TxWaits, TxBegins, TxTicks, TxShifts, TxNexts, TxIdles

LEMMA FlightKept ==
  ASSUME Types, Control, Lag, Lag', OneWord, TxMove, RxMove, setting' = setting, FlightMove
  PROVE  FlightStep /\ OneWord'
<1>1. Ticks /\ Ranges /\ TxPlace /\ RxPlace
  BY PeriodTicks, IndexRanges, Places
<1>2. P' = P /\ B' = B /\ Par' = Par /\ RxLast' = RxLast /\ TxLast' = TxLast
  BY SameFrame
<1>3. RxEnds <=> RxIdx = B /\ rx.tick = P
  BY ReceiverStates
<1>4. TxLoads => /\ TxIdx = -1 \/ (TxIdx = TxLast /\ tx.tick = P)
                 /\ TxIdx' = 0 /\ tx'.tick = 0
  BY Loading DEF TxBegins, Types
<1>5. ~TxLoads => ~(TxIdx' = 0 /\ tx'.tick = 0)
  <2>1. CASE TxWaits \/ TxIdles
    BY <2>1 DEF TxWaits, TxIdles
  <2>2. CASE TxTicks
    BY <1>1, <2>2, SMTT(30) DEF TxTicks, Types, Ranges
  <2>3. CASE TxShifts \/ TxNexts
    BY <1>1, <2>3 DEF TxShifts, TxNexts, Ranges
  <2> QED
    BY <2>1, <2>2, <2>3, Loading DEF TxMove
<1>6. flight \in Seq(Payload(B))
  BY DEF Types
<1>7. RxEnds => Awaited
  BY <1>1, <1>3 DEF Awaited, Ranges
<1>8. RxEnds => Len(flight) = 1 /\ Tail(flight) = <<>> /\ flight # <<>>
  <2> SUFFICES ASSUME RxEnds
               PROVE  Len(flight) = 1 /\ Tail(flight) = <<>> /\ flight # <<>>
    OBVIOUS
  <2>1. Len(flight) = 1 /\ flight # <<>>
    BY <1>7 DEF OneWord
  <2>2. Tail(flight) \in Seq(Payload(B)) /\ Len(Tail(flight)) = 0
    BY <1>6, <2>1
  <2> QED
    BY <2>1, <2>2
<1>9. TxLoads /\ ~RxEnds => ~Awaited
  BY <1>1, <1>3, <1>4 DEF Awaited, Lag, Ranges, Ticks
<1>10. TxLoads => flight' = <<Head(txbuf)>>
  <2> SUFFICES ASSUME TxLoads PROVE flight' = <<Head(txbuf)>>
    OBVIOUS
  <2>1. flight' = <<>> \o <<Head(txbuf)>>
    BY <1>8, <1>9 DEF FlightMove, OneWord
  <2> QED
    BY <2>1
<1>11. ~TxLoads /\ ~RxEnds => flight' = flight
  BY <1>6 DEF FlightMove
<1>12. ~TxLoads /\ RxEnds => flight' = <<>>
  BY <1>6, <1>8 DEF FlightMove
<1>13. TxLoads => Awaited'
  BY <1>4 DEF Awaited
<1>14. ~TxLoads /\ RxEnds => ~Awaited'
  BY <1>1, <1>2, <1>3, <1>5 DEF Awaited, Lag, TxPlace, RxPlace, Ranges, Ticks
<1>15. ~TxLoads /\ ~RxEnds => (Awaited' <=> Awaited)
  BY <1>1, <1>2, <1>3, <1>5 DEF Awaited, Lag, TxPlace, RxPlace, Ranges, Ticks
<1> QED
  BY <1>8, <1>10, <1>11, <1>12, <1>13, <1>14, <1>15 DEF FlightStep, OneWord

\* The parities of the beginnings of a word.
LEMMA ParitiesExist ==
  ASSUME NEW n \in 5 .. 8, NEW w \in [1 .. n -> Bit]
  PROVE  \E f \in [0 .. n -> Bit] : f[0] = 0 /\ \A k \in 1 .. n : f[k] = (f[k - 1] + w[k]) % 2
<1> DEFINE Upto(m) ==
      \E f \in [0 .. m -> Bit] : f[0] = 0 /\ \A k \in 1 .. m : f[k] = (f[k - 1] + w[k]) % 2
<1>1. Upto(0)
  <2> DEFINE f == [k \in 0 .. 0 |-> 0]
  <2>1. f \in [0 .. 0 -> Bit] /\ f[0] = 0 /\ \A k \in 1 .. 0 : f[k] = (f[k - 1] + w[k]) % 2
    BY DEF Bit
  <2> HIDE DEF f
  <2> QED
    BY <2>1
<1>2. ASSUME NEW m \in 0 .. n - 1, Upto(m)
      PROVE  Upto(m + 1)
  <2>1. PICK f \in [0 .. m -> Bit] :
          f[0] = 0 /\ \A k \in 1 .. m : f[k] = (f[k - 1] + w[k]) % 2
    BY <1>2
  <2> DEFINE g == [k \in 0 .. m + 1 |-> IF k = m + 1 THEN (f[m] + w[m + 1]) % 2 ELSE f[k]]
  <2>2. f[m] \in Bit /\ w[m + 1] \in Bit
    OBVIOUS
  <2>3. (f[m] + w[m + 1]) % 2 \in Bit
    BY <2>2 DEF Bit
  <2>4. g \in [0 .. m + 1 -> Bit]
    BY <2>3
  <2>5. g[0] = 0
    BY <2>1
  <2>6. ASSUME NEW k \in 1 .. m + 1
        PROVE  g[k] = (g[k - 1] + w[k]) % 2
    <3>1. CASE k = m + 1
      BY <3>1
    <3>2. CASE k \in 1 .. m
      BY <2>1, <3>2
    <3> QED
      BY <3>1, <3>2
  <2> QED
    BY <2>4, <2>5, <2>6
<1> HIDE DEF Upto
<1>3. Upto(1) /\ Upto(2) /\ Upto(3) /\ Upto(4) /\ Upto(5)
  <2>1. Upto(1)
    BY <1>1, <1>2
  <2>2. Upto(2)
    BY <2>1, <1>2
  <2>3. Upto(3)
    BY <2>2, <1>2
  <2>4. Upto(4)
    BY <2>3, <1>2
  <2> QED
    BY <2>1, <2>2, <2>3, <2>4, <1>2
<1>4. n >= 6 => Upto(6)
  BY <1>2, <1>3
<1>5. n >= 7 => Upto(7)
  BY <1>2, <1>4
<1>6. n >= 8 => Upto(8)
  BY <1>2, <1>5
<1>7. Upto(n)
  BY <1>3, <1>4, <1>5, <1>6
<1> QED
  BY <1>7 DEF Upto

WordFacts(w) ==
  /\ w \in Seq(Bit) /\ w \in [1 .. B -> Bit] /\ Len(w) = B
  /\ PrefixParity(w) \in [0 .. B -> Bit]
  /\ PrefixParity(w)[0] = 0
  /\ \A k \in 1 .. B : PrefixParity(w)[k] = (PrefixParity(w)[k - 1] + w[k]) % 2

LEMMA PayloadWords ==
  ASSUME Types, NEW w \in Payload(B)
  PROVE  WordFacts(w)
<1>1. B \in 5 .. 8
  BY DEF Types, B
<1>2. w \in [1 .. B -> Bit]
  BY <1>1, PayloadAssumption DEF Bit
<1>3. w \in Seq(Bit) /\ Len(w) = B
  BY <1>1, <1>2
<1>4. \E f \in [0 .. Len(w) -> Bit] : IsPrefixParity(f, w)
  BY <1>1, <1>2, <1>3, ParitiesExist DEF IsPrefixParity
<1>5. PrefixParity(w) \in [0 .. Len(w) -> Bit] /\ IsPrefixParity(PrefixParity(w), w)
  BY <1>4 DEF PrefixParity
<1> QED
  BY <1>2, <1>3, <1>5 DEF WordFacts, IsPrefixParity

LEMMA AwaitedWord ==
  ASSUME Types, OneWord, Awaited
  PROVE  flight[1] \in Payload(B) /\ WordFacts(flight[1])
<1>1. flight \in Seq(Payload(B)) /\ Len(flight) = 1
  BY DEF Types, OneWord
<1>2. flight[1] \in Payload(B)
  <2> DEFINE W == Payload(B)
  <2>1. flight \in Seq(W) /\ Len(flight) = 1
    BY <1>1
  <2> HIDE DEF W
  <2>2. flight[1] \in W
    BY <2>1
  <2> QED
    BY <2>2 DEF W
<1> QED
  BY <1>2, PayloadWords

\* While bits of the word are sent it is the one awaited.
LEMMA SentIsAwaited ==
  ASSUME Types, Control, Lag
  PROVE  /\ TxIdx \in 0 .. B => Awaited
         /\ TxIdx = B + 1 /\ tx.tick < 2 => Awaited
         /\ RxEnds => TxIdx = B + 1
<1>1. Ticks /\ Ranges
  BY PeriodTicks, IndexRanges
<1>2. RxEnds <=> RxIdx = B /\ rx.tick = P
  BY ReceiverStates
<1> QED
  BY <1>1, <1>2 DEF Lag, Awaited, Ranges, Ticks

LEMMA SendingKept ==
  ASSUME Types, Control, Lag, Control', Lag', Types', Edges, OneWord, Sending,
         TxMove, RxMove, setting' = setting, FlightStep
  PROVE  Sending'
<1>1. Ticks /\ Ranges
  BY PeriodTicks, IndexRanges
<1>2. P' = P /\ B' = B /\ Par' = Par /\ RxLast' = RxLast /\ TxLast' = TxLast
  BY SameFrame
<1>3. ~TxLoads /\ ~RxEnds => flight' = flight
  BY DEF FlightStep
<1>4. TxLoads <=> TxBegins
  BY Loading
<1>5. RxEnds => TxIdx = B + 1
  BY SentIsAwaited
<1>6. TxIdx \in 0 .. B => Awaited /\ WordFacts(flight[1])
  BY SentIsAwaited, AwaitedWord
<1>7. tx'.parity = tx.parity => parity_bit(tx.parity)' = parity_bit(tx.parity)
  BY DEF parity_bit
<1>8. B \in 5 .. 8 /\ Par \in {0, 1} /\ TxLast >= B + Par + 1
  BY <1>1 DEF Ranges
<1>9. CASE TxBegins
  <2>1. /\ TxIdx' = 0 /\ tx'.tick = 0 /\ tx'.word = Head(txbuf) /\ tx'.bit = 0
        /\ tx'.parity = 0 /\ flight' = <<Head(txbuf)>>
    BY <1>4, <1>9 DEF TxBegins, Types, FlightStep
  <2>2. Head(txbuf) \in Payload(B)
    <3>1. txbuf \in Seq(Payload(B)) /\ txbuf # <<>>
      BY <1>4, <1>9 DEF Types, TxLoads
    <3> QED
      BY <3>1
  <2>3. WordFacts(Head(txbuf)) /\ flight'[1] = Head(txbuf)
    BY <2>1, <2>2, PayloadWords
  <2>4. FrameBit(TxIdx)' = 0
    BY <1>2, <1>8, <2>1 DEF FrameBit
  <2> QED
    BY <1>2, <1>8, <2>1, <2>3, <2>4 DEF Sending, WordFacts
<1>10. CASE TxTicks
  <2>1. /\ TxIdx' = TxIdx /\ tx'.bit = tx.bit /\ tx'.word = tx.word /\ tx'.parity = tx.parity
        /\ ~TxLoads /\ tx'.tick = tx.tick + 1 /\ TxIdx >= 0
    BY <1>10 DEF TxTicks, Types
  <2>2. TxIdx \in 0 .. B => flight' = flight
    BY <1>3, <1>5, <1>8, <2>1
  <2>3. FrameBit(TxIdx)' = FrameBit(TxIdx)
    BY <1>1, <1>2, <1>7, <1>8, <2>1, <2>2 DEF FrameBit, Ranges
  <2>4. Awaited' => Awaited /\ flight' = flight
    <3>1. RxEnds <=> RxIdx = B /\ rx.tick = P
      BY ReceiverStates
    <3>2. Awaited' => ~RxEnds
      BY <1>1, <1>2, <2>1, <3>1, Places DEF Awaited, RxPlace, Ranges, Lag
    <3>3. Awaited' => Awaited
      BY <1>1, <1>2, <2>1, <3>1, Places DEF Awaited, RxPlace, Ranges, Lag
    <3> QED
      BY <1>3, <2>1, <3>2, <3>3
  <2> QED
    BY <1>2, <1>8, <2>1, <2>2, <2>3, <2>4 DEF Sending
<1>11. CASE TxShifts
  <2>1. TxIdx \in 0 .. B - 1 /\ TxIdx' = TxIdx + 1 /\ ~TxLoads /\ tx' = TxData
    BY <1>11 DEF TxShifts
  <2>2. /\ flight' = flight /\ WordFacts(flight[1]) /\ Awaited
    BY <1>3, <1>5, <1>6, <1>8, <2>1
  <2>3. /\ tx.word \in Seq(Bit) /\ Len(tx.word) = B - TxIdx
        /\ \A j \in 1 .. B - TxIdx : tx.word[j] = flight[1][TxIdx + j]
    BY <2>1 DEF Sending, Types
  <2>4. /\ tx'.bit = Head(tx.word) /\ tx'.word = Tail(tx.word)
        /\ tx'.parity = (tx.parity + Head(tx.word)) % 2
    BY <2>1 DEF TxData, Types
  <2>5. Head(tx.word) = flight[1][TxIdx + 1]
    BY <1>8, <2>1, <2>3
  <2>6. FrameBit(TxIdx)' = tx'.bit
    BY <1>2, <1>8, <2>1, <2>2, <2>4, <2>5 DEF FrameBit
  <2>7. /\ Len(tx'.word) = B - TxIdx'
        /\ \A j \in 1 .. B - TxIdx' : tx'.word[j] = flight[1][TxIdx' + j]
    BY <1>8, <2>1, <2>3, <2>4
  <2>8. tx.parity = PrefixParity(flight[1])[TxIdx]
    BY <1>8, <2>1, <2>2 DEF Sending
  <2>9. tx'.parity = PrefixParity(flight[1])[TxIdx + 1]
    BY <1>8, <2>1, <2>2, <2>4, <2>5, <2>8 DEF WordFacts
  <2>10. TxIdx' \in 1 .. B /\ B' = B /\ flight'[1] = flight[1] /\ tx'.bit = FrameBit(TxIdx)'
    BY <1>2, <1>8, <2>1, <2>2, <2>6
  <2>11. (TxIdx + 1) = TxIdx' /\ (TxIdx' <= B)
    BY <2>1, <2>10
  <2> QED
    BY <2>2, <2>7, <2>9, <2>10, <2>11 DEF Sending
<1>12. CASE TxNexts
  <2>1. /\ TxIdx \in B .. TxLast - 1 /\ TxIdx' = TxIdx + 1 /\ ~TxLoads /\ tx'.parity = tx.parity
        /\ tx'.bit = IF TxIdx = B /\ Par = 1 THEN parity_bit(tx.parity) ELSE 1
    BY <1>12 DEF TxNexts, Types
  <2>2. FrameBit(TxIdx)' = tx'.bit
    BY <1>2, <1>7, <1>8, <2>1 DEF FrameBit
  <2>3. Awaited' => Awaited /\ flight' = flight
    <3>1. RxEnds <=> RxIdx = B /\ rx.tick = P
      BY ReceiverStates
    <3>2. Awaited' => ~RxEnds
      BY <1>1, <1>2, <1>8, <2>1, <3>1, Places DEF Awaited, RxPlace, Ranges, Lag
    <3>3. Awaited' => Awaited
      BY <1>1, <1>2, <1>8, <2>1, <3>1, Places DEF Awaited, RxPlace, Ranges, Lag
    <3> QED
      BY <1>3, <2>1, <3>2, <3>3
  <2>4. TxIdx' > B /\ ~(TxIdx' \in 0 .. B - 1) /\ (TxIdx <= B => TxIdx = B)
    BY <1>8, <2>1
  <2> QED
    BY <1>2, <1>8, <2>1, <2>2, <2>3, <2>4 DEF Sending
<1>13. CASE TxWaits \/ TxIdles
  <2>1. TxIdx' = -1 /\ tx'.bit = 1
    BY <1>1, <1>13 DEF TxWaits, TxIdles, Types, Edges, Ranges
  <2>2. FrameBit(TxIdx)' = 1
    BY <1>2, <1>8, <2>1 DEF FrameBit
  <2>3. ~Awaited'
    BY <1>1, <1>2, <1>8, <2>1 DEF Lag, Awaited, Ranges
  <2> QED
    BY <1>2, <1>8, <2>1, <2>2, <2>3 DEF Sending
<1> QED
  BY <1>9, <1>10, <1>11, <1>12, <1>13 DEF TxMove

\* The bit sent in the clock before is the one that has been passed on.
LEMMA PrevBitIsPassed ==
  ASSUME Types, Control, Lag, Edges, OneWord, Sending, Sending',
         TxMove, RxMove, setting' = setting, FlightStep
  PROVE  PrevBit' = tx.bit
<1>1. Ticks /\ Ranges
  BY PeriodTicks, IndexRanges
<1>2. P' = P /\ B' = B /\ Par' = Par /\ RxLast' = RxLast /\ TxLast' = TxLast
  BY SameFrame
<1>3. TxLoads <=> TxBegins
  BY Loading
<1>4. RxEnds => TxIdx = B + 1
  BY SentIsAwaited
<1>5. B \in 5 .. 8 /\ Par \in {0, 1} /\ TxLast >= B + Par + 1
  BY <1>1 DEF Ranges
<1>6. tx'.parity = tx.parity => parity_bit(tx.parity)' = parity_bit(tx.parity)
  BY DEF parity_bit
<1>7. CASE TxWaits \/ TxBegins \/ TxIdles
  <2>1. tx.bit = 1
    BY <1>1, <1>7 DEF TxWaits, TxBegins, TxIdles, Edges, Ranges
  <2>2. TxIdx' \in {-1, 0} /\ tx'.tick = 0
    <3>1. TxIdx = -1 => tx.state = "Idle"
      <4>1. tx.state \in States /\ tx.pos \in 0 .. 8
        BY DEF Types
      <4> QED
        BY <1>5, <4>1 DEF TxIdx, States
    <3>2. TxWaits => tx'.tick = 0
      BY <3>1 DEF TxWaits, Control
    <3>3. TxBegins \/ TxIdles => tx'.tick = 0
      BY DEF TxBegins, TxIdles, Types
    <3> QED
      BY <1>7, <3>2, <3>3 DEF TxWaits, TxBegins, TxIdles
  <2>3. FrameBit(TxIdx - 1)' = 1
    BY <1>2, <1>5, <2>2 DEF FrameBit
  <2> QED
    BY <2>1, <2>2, <2>3 DEF PrevBit
<1>8. CASE TxTicks
  <2>1. tx'.bit = tx.bit /\ tx'.tick # 0
    BY <1>1, <1>8, SMTT(30) DEF TxTicks, Types, Ranges
  <2> QED
    BY <2>1 DEF PrevBit, Sending
<1>9. CASE TxShifts
  <2>1. TxIdx \in 0 .. B - 1 /\ TxIdx' = TxIdx + 1 /\ tx'.tick = 0 /\ ~TxLoads
    BY <1>9 DEF TxShifts, TxData, Types
  <2>2. flight' = flight
    BY <1>4, <1>5, <2>1 DEF FlightStep
  <2>3. FrameBit(TxIdx - 1)' = FrameBit(TxIdx)
    BY <1>2, <1>5, <2>1, <2>2 DEF FrameBit
  <2> QED
    BY <2>1, <2>3 DEF PrevBit, Sending
<1>10. CASE TxNexts
  <2>1. /\ TxIdx \in B .. TxLast - 1 /\ TxIdx' = TxIdx + 1 /\ tx'.tick = 0 /\ ~TxLoads
        /\ tx'.parity = tx.parity
    BY <1>10 DEF TxNexts, Types
  <2>2. TxIdx = B => flight' = flight
    BY <1>4, <1>5, <2>1 DEF FlightStep
  <2>3. FrameBit(TxIdx - 1)' = FrameBit(TxIdx)
    BY <1>2, <1>5, <1>6, <2>1, <2>2 DEF FrameBit
  <2> QED
    BY <2>1, <2>3 DEF PrevBit, Sending
<1> QED
  BY <1>7, <1>8, <1>9, <1>10 DEF TxMove

-----------------------------------------------------------------------------
(* Bits inverted on their way, and the word received so far *)

LEMMA DirtyMoves ==
  ASSUME Types, PrevBit' = tx.bit, NEW flip, Wires(flip), tx'.bit \in Bit
  PROVE  (Dirty1' <=> flip) /\ (Dirty2' <=> Dirty1)
<1>1. wire'[1] = (IF flip THEN 1 - tx'.bit ELSE tx'.bit) /\ wire'[2] = wire[1]
  BY DEF Wires
<1>2. Dirty1' <=> flip
  BY <1>1 DEF Wires, Dirty1, Bit
<1>3. Dirty2' <=> Dirty1
  BY <1>1 DEF Dirty1, Dirty2
<1> QED
  BY <1>2, <1>3

\* Before the end of a bit, the receiver sees the bit it is at.
LEMMA BitSeen ==
  ASSUME Types, Control, Lag, RxIdx >= 0, rx.tick < P
  PROVE  /\ PrevBit = FrameBit(RxIdx)
         /\ RxIdx = 0 => (TxIdx = 0 /\ tx.tick # 0) \/ (TxIdx = 1 /\ tx.tick = 0)
<1>1. Ticks /\ Ranges
  BY PeriodTicks, IndexRanges
<1>2. B \in 5 .. 8 /\ Par \in {0, 1} /\ RxLast = B + Par + 1
  BY <1>1 DEF Ranges
<1>3. FrameBit(-1) = 1 /\ FrameBit(-2) = 1 /\ FrameBit(RxLast) = 1
  BY <1>2 DEF FrameBit
<1>4. CASE TxIdx >= 0 /\ tx.tick >= 2
  <2>1. RxIdx = TxIdx /\ tx.tick # 0
    BY <1>1, <1>4 DEF Lag, Ranges
  <2> QED
    BY <2>1 DEF PrevBit
<1>5. CASE TxIdx >= 1 /\ tx.tick < 2
  <2>1. RxIdx = TxIdx - 1 /\ tx.tick = 0
    BY <1>1, <1>5 DEF Lag, Ranges, Ticks
  <2> QED
    BY <1>1, <2>1 DEF PrevBit, Ranges
<1>6. CASE TxIdx = 0 /\ tx.tick < 2
  <2>1. RxIdx = RxLast /\ tx.tick = 0
    BY <1>1, <1>6 DEF Lag, Ranges, Ticks
  <2> QED
    BY <1>1, <1>3, <1>6, <2>1 DEF PrevBit, Ranges
<1>7. CASE TxIdx = -1
  <2>1. RxIdx = RxLast
    BY <1>1, <1>7 DEF Lag, Ranges, Ticks
  <2> QED
    BY <1>1, <1>3, <1>7, <2>1 DEF PrevBit, Ranges
<1> QED
  BY <1>1, <1>4, <1>5, <1>6, <1>7 DEF Ranges

LEMMA NoOtherWord ==
  ASSUME Types, Control, Lag, OneWord, TxMove, FlightStep, RxIdx \in 0 .. B,
         ~(RxIdx = B /\ rx.tick = P)
  PROVE  Awaited /\ ~TxLoads /\ flight' = flight /\ WordFacts(flight[1])
<1>1. Ticks /\ Ranges
  BY PeriodTicks, IndexRanges
<1>2. ~RxEnds
  BY ReceiverStates
<1>3. Awaited
  BY DEF Awaited
<1>4. TxLoads => TxIdx = -1 \/ (TxIdx = TxLast /\ tx.tick = P)
  BY Loading DEF TxBegins
<1>5. ~TxLoads
  BY <1>1, <1>4 DEF Lag, Ranges, Ticks
<1> QED
  BY <1>2, <1>3, <1>5, AwaitedWord DEF FlightStep

LEMMA ShiftedIn ==
  ASSUME NEW S, NEW n \in Nat \ {0}, NEW q \in [1 .. n -> S], NEW b \in S
  PROVE  /\ Append(Tail(q), b) \in [1 .. n -> S] /\ Append(Tail(q), b)[n] = b
         /\ \A j \in 1 .. n - 1 : Append(Tail(q), b)[j] = q[j + 1]
<1>1. q \in Seq(S) /\ Len(q) = n
  OBVIOUS
<1>2. /\ Tail(q) \in Seq(S) /\ Len(Tail(q)) = n - 1
      /\ \A j \in 1 .. n - 1 : Tail(q)[j] = q[j + 1]
  BY <1>1
<1> DEFINE t == Tail(q)
<1> HIDE DEF t
<1>3. /\ t \in Seq(S) /\ Len(t) = n - 1
      /\ \A j \in 1 .. n - 1 : t[j] = q[j + 1]
  BY <1>2 DEF t
<1>4. Append(t, b) \in Seq(S) /\ Len(Append(t, b)) = n
  <2>1. Append(t, b) \in Seq(S) /\ Len(Append(t, b)) = Len(t) + 1
    BY <1>3
  <2> QED
    BY <1>3, <2>1
<1>5. Append(t, b) \in [1 .. n -> S]
  <2> DEFINE a == Append(t, b)
  <2>1. a \in Seq(S) /\ Len(a) = n
    BY <1>4
  <2> HIDE DEF a
  <2>2. a \in [1 .. n -> S]
    BY <2>1
  <2> QED
    BY <2>2 DEF a
<1>6. Append(t, b)[n] = b /\ \A j \in 1 .. n - 1 : Append(t, b)[j] = t[j]
  BY <1>3
<1> QED
  BY <1>3, <1>5, <1>6 DEF t

\* A bit that is not the one sent changes the parity.
LEMMA ParityFlips ==
  ASSUME NEW p \in Bit, NEW w \in Bit, NEW b \in Bit, NEW r \in Bit, NEW d \in BOOLEAN,
         r = IF d THEN 1 - p ELSE p, d => b = w
  PROVE  (r + b) % 2 = IF d \/ b # w THEN 1 - ((p + w) % 2) ELSE (p + w) % 2
<1>1. CASE d
  <2>1. b = w /\ r = 1 - p
    BY <1>1
  <2> QED
    BY <1>1, <2>1 DEF Bit
<1>2. CASE ~d
  <2>1. r = p
    BY <1>2
  <2> QED
    BY <1>2, <2>1 DEF Bit
<1> QED
  BY <1>1, <1>2

LEMMA ReceivingKept ==
  ASSUME Types, Control, Lag, Edges, OneWord, OneFlip, Receiving,
         TxMove, RxMove, setting' = setting, FlightStep
  PROVE  Receiving' /\ (Damaged' => Damaged \/ Dirty2)
<1>1. Ticks /\ Ranges
  BY PeriodTicks, IndexRanges
<1>2. P' = P /\ B' = B /\ Par' = Par /\ RxLast' = RxLast /\ TxLast' = TxLast /\ Half' = Half
  BY SameFrame
<1>3. B \in 5 .. 8 /\ Par \in {0, 1} /\ Half \in Nat /\ Half < P /\ P \in Nat
  BY <1>1 DEF Ranges, Ticks
<1>4. CASE ~(RxIdx' \in 0 .. B)
  BY <1>2, <1>4 DEF Receiving, Damaged
<1>5. CASE RxBegins
  <2>1. RxIdx' = 0 /\ rx'.tick = 0 /\ rx'.parity = 0
    BY <1>5 DEF RxBegins, Types
  <2>2. Sampled' = -1
    BY <1>2, <1>3, <2>1 DEF Sampled
  <2> QED
    BY <2>1, <2>2 DEF Receiving, Damaged
<1>6. CASE RxShifts
  <2>1. /\ RxIdx \in 0 .. B - 1 /\ rx.tick = P /\ RxIdx' = RxIdx + 1 /\ rx'.tick = 0
        /\ rx'.word = rx.word /\ rx'.parity = rx.parity
    BY <1>6 DEF RxShifts, Types
  <2>2. flight' = flight
    BY <1>3, <2>1, NoOtherWord
  <2>3. Sampled' = Sampled /\ Sampled = RxIdx
    BY <1>2, <1>3, <2>1 DEF Sampled
  <2>4. RxIdx \in 0 .. B /\ RxIdx' \in 0 .. B
    BY <1>3, <2>1
  <2>5. Damaged' <=> Damaged
    BY <1>2, <2>1, <2>2, <2>3, <2>4 DEF Damaged
  <2> QED
    BY <1>2, <2>1, <2>2, <2>3, <2>4, <2>5 DEF Receiving
<1>7. CASE RxTicks /\ RxIdx <= B
  <2>1. /\ RxIdx \in 0 .. B /\ rx.tick < P /\ RxIdx' = RxIdx /\ rx'.tick = rx.tick + 1
    BY <1>1, <1>7 DEF RxTicks, Types, Ranges
  <2>2. Awaited /\ flight' = flight /\ WordFacts(flight[1])
    BY <1>3, <2>1, NoOtherWord
  <2>3. rx.tick \in Nat
    BY <1>1 DEF Ranges
  <2>4. CASE rx.tick # Half
    <3>1. rx'.word = rx.word /\ rx'.parity = rx.parity
      BY <1>7, <2>4 DEF RxTicks, Types
    <3>2. Sampled' = Sampled
      BY <1>2, <1>3, <2>1, <2>3, <2>4 DEF Sampled
    <3>3. Damaged' <=> Damaged
      BY <1>2, <2>1, <2>2, <3>1, <3>2 DEF Damaged
    <3> QED
      BY <1>2, <2>1, <2>2, <3>1, <3>2, <3>3 DEF Receiving
  <2>5. CASE rx.tick = Half
    <3> DEFINE k == RxIdx
               w == flight[1]
               b == bit_rx
    <3>1. /\ rx'.word = Append(Tail(rx.word), b)
          /\ rx'.parity = (rx.parity + b) % 2
      BY <1>7, <2>5 DEF RxTicks, Types
    <3>2. Sampled = k - 1 /\ Sampled' = k
      BY <1>2, <1>3, <2>1, <2>3, <2>5 DEF Sampled
    <3>3. b \in Bit /\ rx.word \in [1 .. 8 -> Bit] /\ rx.parity \in Bit
      BY DEF Types, bit_rx
    <3>4. /\ \A j \in 1 .. 7 : rx'.word[j] = rx.word[j + 1]
          /\ rx'.word[8] = b
      <4> HIDE DEF b
      <4>1. /\ Append(Tail(rx.word), b)[8] = b
            /\ \A j \in 1 .. 8 - 1 : Append(Tail(rx.word), b)[j] = rx.word[j + 1]
        BY <3>3, ShiftedIn, SMTT(30)
      <4>2. \A j \in 1 .. 7 : j \in 1 .. 8 - 1
        OBVIOUS
      <4>3. rx'.word = Append(Tail(rx.word), b)
        BY <3>1
      <4> QED
        BY <4>1, <4>2, <4>3, Zenon
    <3>5. CASE k = 0
      <4>1. b = 0
        BY <1>1, <2>1, <3>5, BitSeen DEF Edges, bit_rx, Ranges
      <4>2. Receiving => rx.parity = 0
        BY <2>1, <3>2, <3>5 DEF Receiving
      <4>3. ~Damaged'
        BY <3>2, <3>5 DEF Damaged
      <4>4. PrefixParity(flight[1])[0] = 0
        BY <2>2 DEF WordFacts
      <4> QED
        BY <2>1, <2>2, <3>1, <3>2, <3>5, <4>1, <4>2, <4>3, <4>4 DEF Receiving
    <3>6. CASE k >= 1
      <4>1. /\ k \in 1 .. B /\ k \in 1 .. 8 /\ k - 1 \in 0 .. B
        BY <1>3, <2>1, <3>6
      <4>2. /\ w[k] \in Bit /\ PrefixParity(w)[k - 1] \in Bit
            /\ PrefixParity(w)[k] = (PrefixParity(w)[k - 1] + w[k]) % 2
        BY <2>2, <4>1 DEF WordFacts
      <4>3. Dirty2 <=> b # w[k]
        <5>1. PrevBit = FrameBit(k)
          BY <2>1, BitSeen
        <5>2. FrameBit(k) = w[k]
          BY <1>3, <4>1 DEF FrameBit
        <5> QED
          BY <5>1, <5>2 DEF Dirty2, bit_rx
      <4>4. Damaged <=> \E j \in 1 .. k - 1 : rx.word[8 - (k - 1) + j] # w[j]
        BY <2>1, <3>2 DEF Damaged
      <4>5. Damaged' <=> \E j \in 1 .. k : rx'.word[8 - k + j] # w[j]
        BY <1>2, <2>1, <2>2, <3>2 DEF Damaged
      <4>6. \A j \in 1 .. k - 1 : rx'.word[8 - k + j] = rx.word[8 - (k - 1) + j]
        <5> TAKE j \in 1 .. k - 1
        <5>1. 8 - k + j \in 1 .. 7 /\ 8 - k + j + 1 = 8 - (k - 1) + j
          BY <4>1
        <5> QED
          BY <3>4, <5>1
      <4>7. rx'.word[8 - k + k] = b
        BY <3>4, <4>1
      <4>8. Damaged' <=> Damaged \/ Dirty2
        <5>1. \A j : j \in 1 .. k <=> j \in 1 .. k - 1 \/ j = k
          BY <4>1
        <5>2. Damaged' <=> \/ \E j \in 1 .. k - 1 : rx'.word[8 - k + j] # w[j]
                          \/ rx'.word[8 - k + k] # w[k]
          BY <4>5, <5>1, Zenon
        <5>3. (\E j \in 1 .. k - 1 : rx'.word[8 - k + j] # w[j])
                <=> \E j \in 1 .. k - 1 : rx.word[8 - (k - 1) + j] # w[j]
          BY <4>6
        <5> QED
          BY <4>3, <4>4, <4>7, <5>2, <5>3
      <4>9. rx.parity = IF Damaged THEN 1 - PrefixParity(w)[k - 1] ELSE PrefixParity(w)[k - 1]
        BY <2>1, <3>2, <4>1 DEF Receiving
      <4>10. ~(Dirty2 /\ Damaged)
        BY DEF OneFlip
      <4>11. rx'.parity = IF Damaged \/ Dirty2 THEN 1 - PrefixParity(w)[k] ELSE PrefixParity(w)[k]
        <5>1. Damaged \in BOOLEAN /\ (Damaged => b = w[k])
          BY <4>3, <4>10 DEF Damaged
        <5>2. (rx.parity + b) % 2 = IF Damaged \/ b # w[k]
                                    THEN 1 - ((PrefixParity(w)[k - 1] + w[k]) % 2)
                                    ELSE (PrefixParity(w)[k - 1] + w[k]) % 2
          <6> DEFINE p == PrefixParity(w)[k - 1]
                     d == Damaged
          <6>1. /\ p \in Bit /\ w[k] \in Bit /\ b \in Bit /\ rx.parity \in Bit /\ d \in BOOLEAN
                /\ rx.parity = (IF d THEN 1 - p ELSE p) /\ (d => b = w[k])
            BY <3>3, <4>2, <4>9, <5>1
          <6> HIDE DEF p, d, b, w, k
          <6>2. (rx.parity + b) % 2 = IF d \/ b # w[k] THEN 1 - ((p + w[k]) % 2) ELSE (p + w[k]) % 2
            BY <6>1, ParityFlips
          <6> QED
            BY <6>2 DEF p, d
        <5>3. CASE Damaged \/ Dirty2
          <6>1. Damaged \/ b # w[k]
            BY <4>3, <5>3
          <6>2. (rx.parity + b) % 2 = 1 - ((PrefixParity(w)[k - 1] + w[k]) % 2)
            BY <5>2, <6>1
          <6>3. rx'.parity = 1 - ((PrefixParity(w)[k - 1] + w[k]) % 2)
            BY <3>1, <6>2
          <6>4. rx'.parity = 1 - PrefixParity(w)[k]
            BY <4>2, <6>3
          <6> QED
            BY <5>3, <6>4
        <5>4. CASE ~(Damaged \/ Dirty2)
          <6>1. ~(Damaged \/ b # w[k])
            BY <4>3, <5>4
          <6> QED
            BY <3>1, <4>2, <5>2, <5>4, <6>1
        <5> QED
          BY <5>3, <5>4
      <4> QED
        BY <1>2, <2>1, <2>2, <3>2, <4>1, <4>8, <4>11 DEF Receiving
    <3> QED
      BY <2>1, <3>5, <3>6
  <2> QED
    BY <2>4, <2>5
<1>8. RxIdx' \in 0 .. B => RxBegins \/ RxShifts \/ (RxTicks /\ RxIdx <= B)
  BY <1>1, <1>3 DEF RxMove, RxWaits, RxTicks, RxFills, RxJudges, RxIdles, Ranges
<1> QED
  BY <1>4, <1>5, <1>6, <1>7, <1>8

-----------------------------------------------------------------------------
(* What the receiver makes of a word *)

NoiseMove(flip) ==
  /\ flip \in BOOLEAN /\ (flip => noise)
  /\ noise' = (noise /\ ~flip) /\ noisy' = (noisy \/ flip)
WrongMove == wrong' = (wrong \/ (RxEnds /\ (flight = <<>> \/ adjust_word # Head(flight))))
OverrunMove == overrun' = (overrun \/ (RxStops /\ Full))

LEMMA OneFlipKept ==
  ASSUME OneFlip, NEW flip, NoiseMove(flip), Dirty1' <=> flip, Dirty2' <=> Dirty1,
         Damaged' => Damaged \/ Dirty2
  PROVE  OneFlip'
  BY DEF OneFlip, NoiseMove

LEMMA LastOfWord ==
  ASSUME NEW S, NEW n \in Nat, NEW b \in 0 .. n, NEW q \in [1 .. n -> S]
  PROVE  SubSeq(q, n + 1 - b, n) = [k \in 1 .. b |-> q[n - b + k]]
<1>1. q \in Seq(S) /\ Len(q) = n
  OBVIOUS
<1>2. SubSeq(q, n + 1 - b, n) \in Seq(S) /\ Len(SubSeq(q, n + 1 - b, n)) = b
  BY <1>1
<1>3. \A k \in 1 .. b : SubSeq(q, n + 1 - b, n)[k] = q[n - b + k]
  BY <1>1
<1> DEFINE a == SubSeq(q, n + 1 - b, n)
<1>4. a \in Seq(S) /\ Len(a) = b /\ \A k \in 1 .. b : a[k] = q[n - b + k]
  BY <1>2, <1>3
<1> HIDE DEF a
<1>5. a = [k \in 1 .. b |-> a[k]]
  BY <1>4
<1>6. a = [k \in 1 .. b |-> q[n - b + k]]
  BY <1>4, <1>5
<1> QED
  BY <1>6 DEF a

\* The whole word has been sampled: it is the one sent unless a bit was inverted.
LEMMA WordReceived ==
  ASSUME Types, Control, Lag, OneWord, Sending, Receiving, RxIdx = B, rx.tick = P
  PROVE  /\ flight # <<>> /\ Head(flight) = flight[1] /\ flight[1] \in Payload(B)
         /\ (adjust_word # Head(flight)) <=> Damaged
         /\ rx.parity = IF Damaged THEN 1 - tx.parity ELSE tx.parity
<1>1. Ticks /\ Ranges
  BY PeriodTicks, IndexRanges
<1>2. B \in 5 .. 8 /\ Half \in Nat /\ Half < P /\ P \in Nat /\ B = setting.bits
  BY <1>1 DEF Ranges, Ticks, B
<1>3. Awaited
  BY <1>2 DEF Awaited
<1>4. flight[1] \in Payload(B) /\ WordFacts(flight[1])
  BY <1>3, AwaitedWord
<1>5. Len(flight) = 1 /\ flight # <<>> /\ Head(flight) = flight[1]
  <2>1. flight \in Seq(Payload(B))
    BY DEF Types
  <2> QED
    BY <1>3, <2>1, SMTT(30) DEF OneWord
<1>6. Sampled = B
  BY <1>2 DEF Sampled
<1>7. (adjust_word # flight[1]) <=> Damaged
  <2> DEFINE a == adjust_word
             w == flight[1]
  <2>1. rx.word \in [1 .. 8 -> Bit]
    BY DEF Types
  <2>2. /\ a = [k \in 1 .. B |-> rx.word[8 - B + k]]
    <3>1. SubSeq(rx.word, 8 + 1 - B, 8) = [k \in 1 .. B |-> rx.word[8 - B + k]]
      <4>1. B \in 0 .. 8 /\ 8 \in Nat
        BY <1>2
      <4> QED
        BY <2>1, <4>1, LastOfWord
    <3>2. 8 + 1 - B = 9 - B
      BY <1>2
    <3> QED
      BY <1>2, <3>1, <3>2 DEF adjust_word
  <2>3. w = [k \in 1 .. B |-> w[k]]
    BY <1>4 DEF WordFacts
  <2>4. a = w <=> \A k \in 1 .. B : rx.word[8 - B + k] = w[k]
    BY <2>2, <2>3
  <2>5. Damaged <=> \E k \in 1 .. B : rx.word[8 - B + k] # w[k]
    BY <1>2, <1>6 DEF Damaged
  <2> QED
    BY <2>4, <2>5
<1>8. TxIdx = B + 1
  BY <1>1, <1>2 DEF Lag, Ranges, Ticks
<1>9. tx.parity = PrefixParity(flight[1])[B]
  BY <1>2, <1>3, <1>8 DEF Sending
<1>10. rx.parity = IF Damaged THEN 1 - PrefixParity(flight[1])[B] ELSE PrefixParity(flight[1])[B]
  BY <1>2, <1>6 DEF Receiving
<1> QED
  BY <1>4, <1>5, <1>7, <1>9, <1>10

\* The transmitter keeps the parity until the receiver has compared it.
LEMMA ParityWaits ==
  ASSUME Types, Control, Lag, TxMove, Par = 1,
         (RxIdx = B /\ rx.tick = P) \/ (RxIdx = B + 1 /\ rx.tick < P)
  PROVE  tx'.parity = tx.parity
<1>1. Ticks /\ Ranges
  BY PeriodTicks, IndexRanges
<1>2. /\ TxIdx = B + 1 \/ (TxIdx = B + 2 /\ tx.tick = 0)
      /\ B + 2 <= TxLast /\ B \in 5 .. 8
  BY <1>1 DEF Lag, Ranges, Ticks
<1>3. ~TxBegins /\ ~TxShifts
  BY <1>1, <1>2 DEF TxBegins, TxShifts, Ranges, Ticks
<1> QED
  BY <1>3 DEF TxMove, TxWaits, TxTicks, TxNexts, TxIdles, Types

\* What has been sampled of a parity or stop bit.
LEMMA SampleTaken ==
  ASSUME Types, Control, Lag, RxTicks, RxIdx > B, setting' = setting
  PROVE  /\ rx'.samp = IF rx.tick = Half THEN bit_rx ELSE rx.samp
         /\ rx'.parity = rx.parity /\ rx'.error = rx.error /\ rx'.state = rx.state
         /\ rx'.tick > Half' <=> rx.tick = Half \/ rx.tick > Half
         /\ rx.tick = Half /\ ~Dirty2 =>
              bit_rx = IF rx.state = "Parity" THEN parity_bit(tx.parity) ELSE 1
<1>1. Ticks /\ Ranges
  BY PeriodTicks, IndexRanges
<1>2. /\ B \in 5 .. 8 /\ Par \in {0, 1} /\ RxLast = B + Par + 1
      /\ Half \in Nat /\ rx.tick \in Nat /\ RxIdx \in -1 .. RxLast
  BY <1>1 DEF Ranges, Ticks
<1>3. Half' = Half
  BY SameFrame
<1>4. /\ rx'.tick = rx.tick + 1 /\ rx'.parity = rx.parity /\ rx'.error = rx.error
      /\ rx'.state = rx.state /\ rx'.samp = IF rx.tick = Half THEN bit_rx ELSE rx.samp
  <2>1. ~(RxIdx <= B)
    BY <1>2
  <2> QED
    BY <2>1 DEF RxTicks, Types
<1>5. PrevBit = FrameBit(RxIdx)
  BY BitSeen DEF RxTicks
<1>6. FrameBit(RxIdx) = IF rx.state = "Parity" THEN parity_bit(tx.parity) ELSE 1
  <2>1. rx.state = "Parity" <=> RxIdx = B + 1 /\ Par = 1
    BY ReceiverStates
  <2>2. CASE RxIdx = B + 1 /\ Par = 1
    BY <1>2, <2>1, <2>2 DEF FrameBit
  <2>3. CASE ~(RxIdx = B + 1 /\ Par = 1)
    BY <1>2, <2>1, <2>3 DEF FrameBit
  <2> QED
    BY <2>2, <2>3
<1>7. ~Dirty2 => bit_rx = PrevBit
  BY DEF Dirty2, bit_rx
<1>8. rx'.tick > Half' <=> rx.tick = Half \/ rx.tick > Half
  BY <1>2, <1>3, <1>4
<1> QED
  BY <1>4, <1>5, <1>6, <1>7, <1>8

\* The state of the receiver after a move.
LEMMA StateMoves ==
  ASSUME Types, Control, RxMove, setting' = setting
  PROVE  /\ rx'.state = "Parity" => \/ RxFills /\ Par = 1 /\ rx'.tick = 0
                                    \/ RxTicks /\ rx.state = "Parity" /\ RxIdx = B + 1 /\ Par = 1
         /\ rx'.state = "Stop" => \/ (RxFills \/ RxJudges) /\ rx'.tick = 0
                                  \/ RxTicks /\ rx.state = "Stop" /\ RxIdx > B
<1>1. Ranges
  BY IndexRanges
<1>2. /\ rx.state = "Start" <=> RxIdx \in 0 .. B
      /\ rx.state = "Parity" <=> RxIdx = B + 1 /\ Par = 1
      /\ rx.state = "Stop" <=> RxIdx = RxLast
      /\ rx.state = "Idle" <=> RxIdx = -1
  BY ReceiverStates
<1>3. CASE RxWaits \/ RxIdles \/ RxBegins
  <2>1. rx'.state \in {"Idle", "Start"}
    BY <1>2, <1>3 DEF RxWaits, RxIdles, RxBegins, Types
  <2> QED
    BY <2>1
<1>4. CASE RxShifts
  <2>1. rx.state = "Start"
    BY <1>2, <1>4, <1>1 DEF RxShifts, Ranges
  <2>2. rx'.state = rx.state
    BY <1>4 DEF RxShifts, Types
  <2> QED
    BY <2>1, <2>2
<1>5. CASE RxTicks
  <2>1. rx'.state = rx.state
    BY <1>5 DEF RxTicks, Types
  <2> QED
    BY <1>1, <1>2, <1>5, <2>1 DEF Ranges
<1>6. CASE RxFills
  <2>1. rx'.state = (IF Par = 0 THEN "Stop" ELSE "Parity") /\ rx'.tick = 0
    BY <1>6 DEF RxFills, Types
  <2> QED
    BY <1>1, <1>6, <2>1 DEF Ranges
<1>7. CASE RxJudges
  <2>1. rx'.state = "Stop" /\ rx'.tick = 0
    BY <1>7 DEF RxJudges, Types
  <2> QED
    BY <1>7, <2>1
<1> QED
  BY <1>3, <1>4, <1>5, <1>6, <1>7 DEF RxMove

LEMMA JudgingKept ==
  ASSUME Types, Control, Lag, OneWord, Sending, OneFlip, Receiving, Judging,
         TxMove, RxMove, setting' = setting,
         NEW flip, NoiseMove(flip), WrongMove, OverrunMove
  PROVE  Judging'
<1>1. Ticks /\ Ranges
  BY PeriodTicks, IndexRanges
<1>2. B \in 5 .. 8 /\ Half \in Nat /\ Half < P /\ Half' = Half
  BY <1>1, SameFrame DEF Ranges, Ticks
<1>3. noisy => noisy'
  BY DEF NoiseMove
<1>4. RxEnds <=> RxIdx = B /\ rx.tick = P
  BY ReceiverStates
<1>5. wrong' => noisy'
  <2>1. RxEnds /\ (flight = <<>> \/ adjust_word # Head(flight)) => Damaged
    BY <1>4, WordReceived
  <2> QED
    BY <1>3, <2>1 DEF WrongMove, Judging, OneFlip
<1>6. rx'.error => noisy' \/ overrun'
  <2>1. rx.error => noisy' \/ overrun'
    BY <1>3 DEF Judging, OverrunMove
  <2>2. CASE RxBegins \/ RxIdles
    <3>1. rx'.error => rx.error \/ (RxIdx = RxLast /\ rx.tick = P /\ (rx.samp # 1 \/ Full))
      BY <1>1, <2>2 DEF RxBegins, RxIdles, RxFault, Types, Ranges
    <3>2. RxIdx = RxLast /\ rx.tick = P /\ rx.samp # 1 => noisy
      BY <1>2, ReceiverStates DEF Judging
    <3>3. RxIdx = RxLast /\ rx.tick = P /\ Full => overrun'
      BY ReceiverStates DEF OverrunMove
    <3> QED
      BY <1>3, <2>1, <3>1, <3>2, <3>3
  <2>3. CASE RxJudges
    <3>1. rx'.error => rx.error \/ parity_bit(rx.parity) # rx.samp
      BY <2>3 DEF RxJudges, Types
    <3>2. ~noisy => rx.parity = tx.parity /\ rx.samp = parity_bit(tx.parity)
      BY <1>2, <2>3 DEF RxJudges, Judging
    <3> QED
      BY <1>3, <2>1, <3>1, <3>2
  <2>4. CASE RxWaits \/ RxTicks \/ RxShifts \/ RxFills
    <3>1. rx'.error = rx.error
      BY <2>4 DEF RxWaits, RxTicks, RxShifts, RxFills, Types
    <3> QED
      BY <2>1, <3>1
  <2> QED
    BY <2>2, <2>3, <2>4 DEF RxMove
<1>7. ASSUME ~noisy', rx'.state = "Parity"
      PROVE  rx'.parity = tx'.parity /\ (rx'.tick > Half' => rx'.samp = parity_bit(tx.parity)')
  <2>1. ~noisy /\ ~Dirty2 /\ ~Damaged
    BY <1>3, <1>7 DEF OneFlip
  <2>2. CASE RxFills /\ Par = 1 /\ rx'.tick = 0
    <3>1. rx.parity = tx.parity /\ tx'.parity = tx.parity
      BY <2>1, <2>2, WordReceived, ParityWaits DEF RxFills
    <3>2. rx'.parity = rx.parity
      BY <2>2 DEF RxFills, Types
    <3> QED
      BY <1>2, <2>2, <3>1, <3>2
  <2>3. CASE RxTicks /\ rx.state = "Parity" /\ RxIdx = B + 1 /\ Par = 1
    <3>1. tx'.parity = tx.parity
      BY <2>3, ParityWaits DEF RxTicks
    <3>2. parity_bit(tx.parity)' = parity_bit(tx.parity)
      BY <3>1 DEF parity_bit
    <3>3. RxIdx > B
      BY <1>2, <2>3
    <3> QED
      BY <2>1, <2>3, <3>1, <3>2, <3>3, SampleTaken DEF Judging
  <2> QED
    BY <1>7, <2>2, <2>3, StateMoves
<1>8. ASSUME ~noisy', rx'.state = "Stop", rx'.tick > Half'
      PROVE  rx'.samp = 1
  <2>1. ~noisy /\ ~Dirty2
    BY <1>3, <1>8 DEF OneFlip
  <2>2. RxTicks /\ rx.state = "Stop" /\ RxIdx > B
    BY <1>2, <1>8, StateMoves
  <2> QED
    BY <1>8, <2>1, <2>2, SampleTaken DEF Judging
<1> QED
  BY <1>5, <1>6, <1>7, <1>8 DEF Judging

LEMMA CatchingKept ==
  ASSUME Types, Control, Lag, OneWord, Sending, OneFlip, Receiving, Judging, Catching,
         TxMove, RxMove, setting' = setting,
         NEW flip, NoiseMove(flip), WrongMove, Dirty1' <=> flip, Dirty2' <=> Dirty1
  PROVE  Catching'
<1> SUFFICES ASSUME setting.parity \in {1, 3}, wrong', ~rx'.error
             PROVE  /\ rx'.state = "Parity" /\ rx'.parity # tx'.parity /\ ~Dirty1' /\ ~Dirty2'
                    /\ rx'.tick > Half' => rx'.samp = parity_bit(tx.parity)'
  BY DEF Catching
<1>1. Ticks /\ Ranges
  BY PeriodTicks, IndexRanges
<1>2. B \in 5 .. 8 /\ Half \in Nat /\ Half < P /\ Half' = Half /\ Par = 1
  BY <1>1, SameFrame DEF Ranges, Ticks, Par
<1>3. RxEnds <=> RxIdx = B /\ rx.tick = P
  BY ReceiverStates
<1>4. rx.error => rx'.error
  BY DEF RxMove, RxWaits, RxBegins, RxTicks, RxShifts, RxFills, RxJudges, RxIdles, RxFault, Types
<1>5. tx.parity \in Bit /\ rx.parity \in Bit
  BY DEF Types
<1>6. CASE RxEnds /\ Damaged
  <2>1. /\ rx.parity = 1 - tx.parity /\ tx'.parity = tx.parity
    BY <1>2, <1>3, <1>6, WordReceived, ParityWaits
  <2>2. RxFills
    BY <1>1, <1>2, <1>3, <1>6 DEF RxMove, RxWaits, RxBegins, RxTicks, RxShifts, RxFills,
       RxJudges, RxIdles, Ranges
  <2>3. rx'.state = "Parity" /\ rx'.parity = rx.parity /\ rx'.tick = 0
    BY <1>2, <2>2 DEF RxFills, Types
  <2>4. ~Dirty1 /\ ~flip
    BY <1>6 DEF OneFlip, NoiseMove
  <2> QED
    BY <1>2, <1>5, <2>1, <2>3, <2>4 DEF Bit
<1>7. CASE wrong
  <2>1. /\ rx.state = "Parity" /\ rx.parity # tx.parity /\ ~Dirty1 /\ ~Dirty2
        /\ rx.tick > Half => rx.samp = parity_bit(tx.parity)
    BY <1>4, <1>7 DEF Catching
  <2>2. ~flip
    BY <1>7 DEF Judging, OneFlip, NoiseMove
  <2>3. RxIdx = B + 1
    BY <2>1, ReceiverStates
  <2>4. CASE rx.tick = P
    <3>1. RxJudges
      BY <1>1, <1>2, <2>3, <2>4 DEF RxMove, RxWaits, RxBegins, RxTicks, RxShifts, RxFills,
         RxJudges, RxIdles, Ranges
    <3>2. parity_bit(rx.parity) # parity_bit(tx.parity)
      BY <1>5, <2>1 DEF parity_bit, Bit
    <3>3. rx'.error
      BY <1>2, <2>1, <2>4, <3>1, <3>2 DEF RxJudges, Types
    <3> QED
      BY <3>3
  <2>5. CASE rx.tick # P
    <3>1. RxTicks
      BY <1>1, <1>2, <2>3, <2>5 DEF RxMove, RxWaits, RxBegins, RxTicks, RxShifts, RxFills,
         RxJudges, RxIdles, Ranges
    <3>2. tx'.parity = tx.parity
      BY <1>2, <2>3, <3>1, ParityWaits DEF RxTicks
    <3>3. parity_bit(tx.parity)' = parity_bit(tx.parity)
      BY <3>2 DEF parity_bit
    <3>4. RxIdx > B
      BY <1>2, <2>3
    <3> QED
      BY <2>1, <2>2, <3>1, <3>2, <3>3, <3>4, SampleTaken
  <2> QED
    BY <2>4, <2>5
<1>8. wrong \/ (RxEnds /\ Damaged)
  BY <1>3, WordReceived DEF WrongMove
<1> QED
  BY <1>6, <1>7, <1>8

-----------------------------------------------------------------------------
(* The inductive invariant *)

IInv == /\ Types /\ Control /\ Lag /\ Edges /\ OneWord /\ Sending
        /\ OneFlip /\ Receiving /\ Judging /\ Catching

LEMMA TxTypes ==
  ASSUME Types, Control, Lag, Sending, TxMove, setting' = setting
  PROVE  tx' \in [state : States, bit : Bit, word : Seq(Bit), parity : Bit, pos : 0 .. 8,
                  tick : 0 .. P']
<1> DEFINE N == 0 .. 8
           T == 0 .. P
           W == Seq(Bit)
<1>1. Ticks /\ Ranges /\ P' = P
  BY PeriodTicks, IndexRanges, SameFrame
<1>2. tx \in [state : States, bit : Bit, word : W, parity : Bit, pos : N, tick : T]
  BY DEF Types
<1>3. P \in Nat /\ tx.tick \in 0 .. P /\ B \in 5 .. 8 /\ B = setting.bits
  BY <1>1 DEF Ticks, Ranges, B
<1>4. 0 \in N /\ 0 \in T /\ 0 \in Bit /\ 1 \in Bit /\ \A s \in {"Idle", "Start", "Parity", "Stop"} : s \in States
  BY <1>3 DEF Bit, States
<1> SUFFICES tx' \in [state : States, bit : Bit, word : W, parity : Bit, pos : N, tick : T]
  BY <1>1
<1>5. CASE TxBegins
  <2>1. txbuf # <<>>
    BY <1>5, Loading DEF TxLoads
  <2>2. Head(txbuf) \in Payload(B)
    BY <2>1 DEF Types
  <2>3. Head(txbuf) \in W
    BY <2>2, PayloadWords DEF WordFacts
  <2> HIDE DEF N, T, W
  <2> QED
    BY <1>2, <1>4, <1>5, <2>3 DEF TxBegins
<1>6. CASE TxTicks
  <2>1. tx.tick + 1 \in T
    BY <1>3, <1>6 DEF TxTicks
  <2> HIDE DEF N, T, W
  <2> QED
    BY <1>2, <1>6, <2>1 DEF TxTicks
<1>7. CASE TxShifts
  <2>1. TxIdx \in 0 .. B - 1 /\ Len(tx.word) = B - TxIdx /\ tx.word \in Seq(Bit)
    BY <1>2, <1>7 DEF TxShifts, Sending
  <2>2. Head(tx.word) \in Bit /\ Tail(tx.word) \in W
    BY <1>3, <2>1
  <2>3. (tx.parity + Head(tx.word)) % 2 \in Bit
    BY <1>2, <2>2 DEF Bit
  <2>4. tx.state = "Start" /\ tx.pos < B /\ tx.pos \in 0 .. 8
    BY <1>2, <1>7 DEF TxShifts, Control
  <2>5. tx.pos + 1 \in N
    BY <1>3, <2>4
  <2>6. tx' = TxData
    BY <1>7 DEF TxShifts
  <2> HIDE DEF N, T, W
  <2>7. (IF tx.pos = setting.bits - 1 THEN 0 ELSE tx.pos + 1) \in N
    BY <1>4, <2>5
  <2>8. (IF ~(tx.pos = setting.bits - 1) THEN tx.state ELSE IF setting.parity = 0 THEN "Stop"
         ELSE "Parity") \in States
    BY <1>2, <1>4
  <2> QED
    BY <1>2, <1>4, <2>2, <2>3, <2>6, <2>7, <2>8 DEF TxData
<1>8. CASE TxNexts
  <2>1. parity_bit(tx.parity) \in Bit
    BY <1>2 DEF parity_bit, Bit
  <2>2. PICK s \in {"Stop"}, p \in N :
          tx' = [tx EXCEPT !.state = s, !.pos = p, !.tick = 0,
                           !.bit = IF TxIdx = B /\ Par = 1 THEN parity_bit(tx.parity) ELSE 1]
    BY <1>8 DEF TxNexts
  <2>3. (IF TxIdx = B /\ Par = 1 THEN parity_bit(tx.parity) ELSE 1) \in Bit
    BY <1>4, <2>1
  <2>4. s \in States
    BY <1>4
  <2> HIDE DEF N, T, W
  <2> QED
    BY <1>2, <1>4, <2>2, <2>3, <2>4
<1>9. CASE TxIdles
  <2> HIDE DEF N, T, W
  <2> QED
    BY <1>2, <1>4, <1>9 DEF TxIdles
<1>10. CASE TxWaits
  BY <1>2, <1>10 DEF TxWaits
<1> QED
  BY <1>5, <1>6, <1>7, <1>8, <1>9, <1>10 DEF TxMove

LEMMA RxTypes ==
  ASSUME Types, Control, RxMove, setting' = setting
  PROVE  rx' \in [state : States, word : [1 .. 8 -> Bit], parity : Bit, pos : 0 .. 9,
                  tick : 0 .. P', samp : Bit, error : BOOLEAN]
<1> DEFINE N == 0 .. 9
           T == 0 .. P
           W == [1 .. 8 -> Bit]
<1>1. Ticks /\ Ranges /\ P' = P
  BY PeriodTicks, IndexRanges, SameFrame
<1>2. rx \in [state : States, word : W, parity : Bit, pos : N, tick : T, samp : Bit,
              error : BOOLEAN]
  BY DEF Types
<1>3. P \in Nat /\ rx.tick \in 0 .. P /\ B \in 5 .. 8
  BY <1>1 DEF Ticks, Ranges
<1>4. bit_rx \in Bit
  BY DEF Types, bit_rx
<1>5. 0 \in N /\ 1 \in N /\ 0 \in T /\ 0 \in Bit /\ \A s \in {"Idle", "Start", "Parity", "Stop"} : s \in States
  BY <1>3 DEF Bit, States
<1>6. RxFault \in BOOLEAN
  BY DEF RxFault
<1> SUFFICES rx' \in [state : States, word : W, parity : Bit, pos : N, tick : T, samp : Bit,
                      error : BOOLEAN]
  BY <1>1
<1>7. CASE RxBegins
  <2>1. Blank \in W
    BY DEF Blank, Bit
  <2>2. (IF RxIdx = -1 THEN rx.error ELSE RxFault) \in BOOLEAN
    BY <1>2, <1>6
  <2> HIDE DEF N, T, W
  <2> QED
    BY <1>2, <1>5, <1>7, <2>1, <2>2 DEF RxBegins
<1>8. CASE RxTicks
  <2>1. Append(Tail(rx.word), bit_rx) \in W
    <3>1. 8 \in Nat \ {0} /\ rx.word \in [1 .. 8 -> Bit]
      BY <1>2
    <3> QED
      BY <1>4, <3>1, ShiftedIn
  <2>2. (rx.parity + bit_rx) % 2 \in Bit
    BY <1>2, <1>4 DEF Bit
  <2>3. rx.tick + 1 \in T
    BY <1>3, <1>8 DEF RxTicks
  <2> HIDE DEF N, T, W
  <2> QED
    BY <1>2, <1>4, <1>8, <2>1, <2>2, <2>3 DEF RxTicks
<1>9. CASE RxShifts
  <2>1. rx.pos + 1 \in N
    <3>1. rx.state = "Start" /\ rx.pos \in 0 .. 9 /\ rx.pos <= B
      BY <1>2, <1>3, <1>9, ReceiverStates DEF RxShifts, Control
    <3> QED
      BY <1>3, <3>1
  <2> HIDE DEF N, T, W
  <2> QED
    BY <1>2, <1>5, <1>9, <2>1 DEF RxShifts
<1>10. CASE RxFills
  <2>1. (IF Par = 0 THEN "Stop" ELSE "Parity") \in States
    BY <1>5
  <2> HIDE DEF N, T, W
  <2> QED
    BY <1>2, <1>5, <1>10, <2>1 DEF RxFills
<1>11. CASE RxJudges
  <2>1. (rx.error \/ parity_bit(rx.parity) # rx.samp) \in BOOLEAN
    OBVIOUS
  <2> HIDE DEF N, T, W
  <2> QED
    BY <1>2, <1>5, <1>11, <2>1 DEF RxJudges
<1>12. CASE RxIdles
  <2> HIDE DEF N, T, W
  <2> QED
    BY <1>2, <1>5, <1>6, <1>12 DEF RxIdles
<1>13. CASE RxWaits
  BY <1>2, <1>13 DEF RxWaits
<1> QED
  BY <1>7, <1>8, <1>9, <1>10, <1>11, <1>12, <1>13 DEF RxMove

\* The two buffers and the word under way after a clock.
LEMMA Appended ==
  ASSUME NEW S, NEW q \in Seq(S), NEW r \in Seq(S), NEW n \in Nat, NEW take \in BOOLEAN,
         take => q # <<>>, Len(q) + Len(r) <= n
  PROVE  LET s == (IF take THEN Tail(q) ELSE q) \o r
         IN s \in Seq(S) /\ Len(s) <= n
<1>1. CASE take
  <2>1. q # <<>>
    BY <1>1
  <2>2. Tail(q) \in Seq(S) /\ Len(Tail(q)) = Len(q) - 1
    BY <2>1
  <2>3. Tail(q) \o r \in Seq(S) /\ Len(Tail(q) \o r) = Len(q) - 1 + Len(r)
    BY <2>2
  <2> QED
    BY <1>1, <2>3
<1>2. CASE ~take
  <2>1. q \o r \in Seq(S) /\ Len(q \o r) = Len(q) + Len(r)
    OBVIOUS
  <2> QED
    BY <1>2, <2>1
<1> QED
  BY <1>1, <1>2

LEMMA BufferTypes ==
  ASSUME Types, Control, NEW put \in Puts, NEW read \in BOOLEAN, read => rxbuf # <<>>,
         NEW flip \in BOOLEAN, Clock(put, read, flip)
  PROVE  /\ txbuf' \in Seq(Payload(B)) /\ flight' \in Seq(Payload(B))
         /\ rxbuf' \in Seq(Seq(Bit)) /\ Len(txbuf') <= BufSize /\ Len(rxbuf') <= BufSize
         /\ puts' \in Nat
<1> DEFINE S == Payload(B)
           W == Seq(Bit)
<1>1. /\ txbuf \in Seq(S) /\ flight \in Seq(S) /\ rxbuf \in Seq(W)
      /\ Len(txbuf) <= BufSize /\ Len(rxbuf) <= BufSize /\ puts \in Nat
  BY DEF Types
<1>2. BufSize \in Nat
  BY LineAssumption
<1>3. put \in Seq(S) /\ Len(put) \in Nat /\ Len(txbuf) + Len(put) <= BufSize
  <2>1. CASE put = <<>>
    BY <1>1, <1>2, <2>1
  <2>2. CASE put # <<>>
    <3>1. Len(txbuf) < BufSize /\ \E w \in S : put = <<w>>
      BY <2>2 DEF Puts, B
    <3>2. put \in Seq(S) /\ Len(put) = 1
      BY <3>1
    <3> QED
      BY <1>1, <1>2, <3>1, <3>2
  <2> QED
    BY <2>1, <2>2
<1>4. txbuf' \in Seq(S) /\ Len(txbuf') <= BufSize
  <2>1. txbuf' = (IF TxLoads THEN Tail(txbuf) ELSE txbuf) \o put
    BY DEF Clock
  <2>2. TxLoads \in BOOLEAN /\ (TxLoads => txbuf # <<>>)
    BY DEF TxLoads
  <2> HIDE DEF S
  <2> QED
    BY <1>1, <1>2, <1>3, <2>1, <2>2, Appended
<1>5. flight' \in Seq(S)
  <2>1. flight' = (IF RxEnds /\ flight # <<>> THEN Tail(flight) ELSE flight)
                  \o (IF TxLoads THEN <<Head(txbuf)>> ELSE <<>>)
    BY DEF Clock
  <2>2. TxLoads => Head(txbuf) \in S
    BY <1>1 DEF TxLoads
  <2> HIDE DEF S
  <2>3. (IF TxLoads THEN <<Head(txbuf)>> ELSE <<>>) \in Seq(S)
    BY <2>2
  <2>4. (IF RxEnds /\ flight # <<>> THEN Tail(flight) ELSE flight) \in Seq(S)
    BY <1>1
  <2> QED
    BY <2>1, <2>3, <2>4
<1>6. rxbuf' \in Seq(W) /\ Len(rxbuf') <= BufSize
  <2> DEFINE stored == IF RxEnds /\ ~Full THEN <<adjust_word>> ELSE <<>>
  <2>1. rxbuf' = (IF read THEN Tail(rxbuf) ELSE rxbuf) \o stored
    BY DEF Clock
  <2>2. adjust_word \in W
    <3>1. rx.word \in [1 .. 8 -> Bit] /\ B \in 0 .. 8 /\ 8 \in Nat /\ B = setting.bits
      BY DEF Types, B
    <3>2. SubSeq(rx.word, 8 + 1 - B, 8) = [k \in 1 .. B |-> rx.word[8 - B + k]]
      <4>1. B \in 0 .. 8 /\ 8 \in Nat
        BY <3>1
      <4>2. rx.word \in [1 .. 8 -> Bit]
        BY <3>1
      <4> QED
        BY <4>1, <4>2, LastOfWord
    <3>3. [k \in 1 .. B |-> rx.word[8 - B + k]] \in [1 .. B -> Bit] /\ 8 + 1 - B = 9 - B
      <4>1. B \in 0 .. 8 /\ rx.word \in [1 .. 8 -> Bit]
        BY <3>1
      <4>2. \A k \in 1 .. B : 8 - B + k \in 1 .. 8
        BY <4>1
      <4>3. \A k \in 1 .. B : rx.word[8 - B + k] \in Bit
        BY <4>1, <4>2
      <4>4. 8 + 1 - B = 9 - B
        BY <4>1
      <4> QED
        BY <4>3, <4>4
    <3>4. adjust_word \in [1 .. B -> Bit]
      BY <3>1, <3>2, <3>3 DEF adjust_word
    <3>5. B \in Nat
      BY <3>1
    <3> QED
      BY <3>4, <3>5
  <2> HIDE DEF W
  <2>3. stored \in Seq(W) /\ Len(stored) \in Nat /\ Len(rxbuf) + Len(stored) <= BufSize
    <3>1. CASE RxEnds /\ ~Full
      <4>1. Len(rxbuf) < BufSize
        BY <1>1, <1>2, <3>1 DEF Full
      <4>2. stored \in Seq(W) /\ Len(stored) = 1
        BY <2>2, <3>1
      <4> QED
        BY <1>1, <1>2, <4>1, <4>2
    <3>2. CASE ~(RxEnds /\ ~Full)
      <4>1. stored = <<>>
        BY <3>2
      <4> QED
        BY <1>1, <1>2, <4>1
    <3> QED
      BY <3>1, <3>2
  <2> HIDE DEF stored
  <2> QED
    BY <1>1, <1>2, <2>1, <2>3, Appended
<1>7. puts' \in Nat
  BY <1>1, <1>3 DEF Clock
<1> QED
  BY <1>4, <1>5, <1>6, <1>7

LEMMA ClockKept ==
  ASSUME IInv, NEW put \in Puts, NEW read \in BOOLEAN, read => rxbuf # <<>>,
         NEW flip \in BOOLEAN, flip => noise /\ SendsData, Clock(put, read, flip)
  PROVE  IInv'
<1>1. /\ Types /\ Control /\ Lag /\ Edges /\ OneWord /\ Sending
      /\ OneFlip /\ Receiving /\ Judging /\ Catching
  BY DEF IInv
<1>2. setting' = setting /\ tx' = do_tx /\ rx' = do_rx
  BY DEF Clock
<1>3. TxMove /\ RxMove /\ TxControl' /\ RxControl'
  BY <1>1, <1>2, TxMoves, RxMoves
<1>4. Wires(flip) /\ NoiseMove(flip)
  BY <1>1, <1>2, SendsRange DEF Clock, Wires, NoiseMove
<1>5. FlightMove /\ WrongMove /\ OverrunMove
  BY DEF Clock, FlightMove, WrongMove, OverrunMove
<1>6. Control'
  BY <1>3 DEF Control, TxControl, RxControl
<1>7. Types'
  <2>1. tx' \in [state : States, bit : Bit, word : Seq(Bit), parity : Bit, pos : 0 .. 8, tick : 0 .. P']
    BY <1>1, <1>2, <1>3, TxTypes
  <2>2. rx' \in [state : States, word : [1 .. 8 -> Bit], parity : Bit, pos : 0 .. 9,
                 tick : 0 .. P', samp : Bit, error : BOOLEAN]
    BY <1>1, <1>2, <1>3, RxTypes
  <2>3. wire' \in Bit \X Bit
    <3>1. tx'.bit \in Bit /\ wire[1] \in Bit
      BY <1>1, <2>1 DEF Types
    <3> QED
      BY <1>4, <3>1 DEF Wires, Bit
  <2>4. /\ txbuf' \in Seq(Payload(B)) /\ flight' \in Seq(Payload(B))
        /\ rxbuf' \in Seq(Seq(Bit)) /\ Len(txbuf') <= BufSize /\ Len(rxbuf') <= BufSize
        /\ puts' \in Nat
    BY <1>1, BufferTypes
  <2>5. B' = B
    BY <1>2, SameFrame
  <2>6. noise' \in BOOLEAN /\ noisy' \in BOOLEAN /\ wrong' \in BOOLEAN /\ overrun' \in BOOLEAN
    BY <1>4, <1>5 DEF NoiseMove, WrongMove, OverrunMove
  <2>7. setting' \in [period : {1, SlowPeriod}, bits : 5 .. 8, stop : {1, 2}, parity : Parities]
    BY <1>1, <1>2 DEF Types
  <2> QED
    BY <2>1, <2>2, <2>3, <2>4, <2>5, <2>6, <2>7 DEF Types
<1>8. Lag'
  BY <1>1, <1>2, <1>3, LagKept
<1>9. Edges'
  BY <1>1, <1>2, <1>3, <1>4, EdgesKept
<1>10. FlightStep /\ OneWord'
  BY <1>1, <1>2, <1>3, <1>5, <1>8, FlightKept
<1>11. Sending'
  BY <1>1, <1>2, <1>3, <1>6, <1>7, <1>8, <1>10, SendingKept
<1>12. PrevBit' = tx.bit
  BY <1>1, <1>2, <1>3, <1>10, <1>11, PrevBitIsPassed
<1>13. (Dirty1' <=> flip) /\ (Dirty2' <=> Dirty1)
  <2>1. tx'.bit \in Bit
    BY <1>7 DEF Types
  <2> QED
    BY <1>1, <1>4, <1>12, <2>1, DirtyMoves
<1>14. Receiving' /\ (Damaged' => Damaged \/ Dirty2)
  BY <1>1, <1>2, <1>3, <1>10, ReceivingKept
<1>15. OneFlip'
  BY <1>1, <1>4, <1>13, <1>14, OneFlipKept
<1>16. Judging'
  BY <1>1, <1>2, <1>3, <1>4, <1>5, JudgingKept
<1>17. Catching'
  BY <1>1, <1>2, <1>3, <1>4, <1>5, <1>13, CatchingKept
<1> QED
  BY <1>6, <1>7, <1>8, <1>9, <1>10, <1>11, <1>14, <1>15, <1>16, <1>17 DEF IInv

LEMMA InitInv == Init /\ WholeStops => IInv
<1> SUFFICES ASSUME Init, WholeStops PROVE IInv
  OBVIOUS
<1>1. /\ tx = [state |-> "Idle", bit |-> 1, word |-> <<>>, parity |-> 0, pos |-> 0, tick |-> 0]
      /\ rx = [state |-> "Idle", word |-> [i \in 1 .. 8 |-> 0], parity |-> 0,
               pos |-> 0, tick |-> 0, samp |-> 0, error |-> FALSE]
      /\ wire = <<1, 1>> /\ txbuf = <<>> /\ flight = <<>> /\ rxbuf = <<>> /\ puts = 0
      /\ noisy = FALSE /\ wrong = FALSE /\ overrun = FALSE /\ noise \in BOOLEAN
  BY DEF Init
<1>2. setting \in [period : {1, SlowPeriod}, bits : 5 .. 8, stop : {1, 2}, parity : Parities]
  <2>1. PICK c \in Commands : setting = write_command(c.baud, c.length, c.stop, c.parity)
    BY DEF Init
  <2>2. c.length \in 0 .. 3 /\ c.stop \in {0, 1} /\ c.parity \in 0 .. 7
    BY CommandsAssumption
  <2>3. (IF c.baud = 15 THEN 1 ELSE SlowPeriod) \in {1, SlowPeriod}
    OBVIOUS
  <2>4. c.length + 5 \in 5 .. 8
    BY <2>2
  <2>5. (IF c.stop = 0 THEN 1 ELSE IF c.length = 0 THEN 3 ELSE 2) \in {1, 2}
    BY <2>1 DEF write_command, WholeStops
  <2>6. (IF c.parity % 2 = 0 THEN 0 ELSE c.parity) \in Parities
    BY <2>2 DEF Parities
  <2> QED
    BY <2>1, <2>3, <2>4, <2>5, <2>6 DEF write_command
<1>3. P \in Nat /\ P >= 1 /\ B \in 5 .. 8 /\ Par \in {0, 1} /\ setting.stop \in {1, 2}
  BY <1>2, LineAssumption DEF P, B, Par
<1>4. TxIdx = -1 /\ RxIdx = -1
  BY <1>1 DEF TxIdx, RxIdx
<1>5. RxLast \in Nat /\ 0 \in 0 .. P /\ BufSize \in Nat
  BY <1>3, LineAssumption DEF RxLast
<1>6. Types
  <2>1. tx \in [state : States, bit : Bit, word : Seq(Bit), parity : Bit, pos : 0 .. 8, tick : 0 .. P]
    BY <1>1, <1>5 DEF States, Bit
  <2>2. rx \in [state : States, word : [1 .. 8 -> Bit], parity : Bit, pos : 0 .. 9,
                tick : 0 .. P, samp : Bit, error : BOOLEAN]
    BY <1>1, <1>5 DEF States, Bit
  <2>3. wire \in Bit \X Bit
    BY <1>1 DEF Bit
  <2>4. /\ txbuf \in Seq(Payload(B)) /\ flight \in Seq(Payload(B)) /\ rxbuf \in Seq(Seq(Bit))
        /\ Len(txbuf) <= BufSize /\ Len(rxbuf) <= BufSize
    BY <1>1, <1>5
  <2> QED
    BY <1>1, <1>2, <2>1, <2>2, <2>3, <2>4 DEF Types
<1>7. Control
  BY <1>1, <1>3 DEF Control
<1>8. Lag
  BY <1>4 DEF Lag
<1>9. Edges
  BY <1>1, <1>4, <1>5 DEF Edges
<1>10. ~Awaited
  BY <1>4 DEF Awaited
<1>11. FrameBit(-1) = 1 /\ FrameBit(-2) = 1
  BY <1>3 DEF FrameBit
<1>12. Sending
  BY <1>1, <1>4, <1>10, <1>11 DEF Sending
<1>13. ~Dirty1 /\ ~Dirty2 /\ ~Damaged
  <2>1. PrevBit = 1
    BY <1>1, <1>4, <1>11 DEF PrevBit
  <2> QED
    BY <1>1, <1>4, <2>1 DEF Dirty1, Dirty2, Damaged
<1>14. OneWord /\ OneFlip /\ Receiving
  BY <1>1, <1>4, <1>10, <1>13 DEF OneWord, OneFlip, Receiving
<1>15. Judging /\ Catching
  BY <1>1 DEF Judging, Catching
<1> QED
  BY <1>6, <1>7, <1>8, <1>9, <1>12, <1>14, <1>15 DEF IInv

\* Every step is a clock, in which the program at either end may do something.
LEMMA StepsAreClocks ==
  ASSUME Types, Next
  PROVE  \E put \in Puts, read, flip \in BOOLEAN :
           /\ Clock(put, read, flip)
           /\ read => rxbuf # <<>>
           /\ flip => noise /\ SendsData
<1>1. <<>> \in Puts
  BY DEF Puts
<1>2. CASE Tick
  BY <1>1, <1>2 DEF Tick
<1>3. CASE Put
  BY <1>3 DEF Put
<1>4. CASE Read
  BY <1>4 DEF Read
<1>5. CASE Disturbance
  BY <1>1, <1>5 DEF Disturbance
<1> QED
  BY <1>2, <1>3, <1>4, <1>5 DEF Next

LEMMA StutterInv == IInv /\ UNCHANGED vars => IInv'
<1> SUFFICES ASSUME IInv, UNCHANGED vars PROVE IInv'
  OBVIOUS
<1>1. /\ setting' = setting /\ tx' = tx /\ rx' = rx /\ wire' = wire /\ flight' = flight
      /\ txbuf' = txbuf /\ rxbuf' = rxbuf /\ puts' = puts /\ noise' = noise
      /\ noisy' = noisy /\ wrong' = wrong /\ overrun' = overrun
  BY DEF vars, bufs
<1>2. Types' /\ Control'
  BY <1>1 DEF IInv, Types, Control, P, B, Par
<1>3. P' = P /\ B' = B /\ Par' = Par /\ RxLast' = RxLast /\ TxLast' = TxLast /\ Half' = Half
  BY <1>1, SameFrame
<1>4. TxIdx' = TxIdx /\ RxIdx' = RxIdx
  BY <1>1, <1>3 DEF TxIdx, RxIdx
<1>a. Lag'
  BY <1>1, <1>3, <1>4 DEF IInv, Lag
<1>b. Edges'
  BY <1>1, <1>3, <1>4 DEF IInv, Edges
<1>c. /\ FrameBit(TxIdx)' = FrameBit(TxIdx) /\ FrameBit(TxIdx - 1)' = FrameBit(TxIdx - 1)
      /\ parity_bit(tx.parity)' = parity_bit(tx.parity)
  <2>1. parity_bit(tx.parity)' = parity_bit(tx.parity)
    BY <1>1 DEF parity_bit
  <2>2. FrameBit(TxIdx)' = FrameBit(TxIdx)
    BY <1>1, <1>3, <1>4, <2>1, Zenon DEF FrameBit
  <2>3. FrameBit(TxIdx - 1)' = FrameBit(TxIdx - 1)
    BY <1>1, <1>3, <1>4, <2>1, Zenon DEF FrameBit
  <2> QED
    BY <2>1, <2>2, <2>3
<1>d. (Awaited' <=> Awaited) /\ OneWord' /\ Sending'
  <2>1. Awaited' <=> Awaited
    BY <1>1, <1>3, <1>4 DEF Awaited
  <2>2. OneWord'
    BY <1>1, <2>1 DEF IInv, OneWord
  <2>3. Sending'
    BY <1>1, <1>3, <1>4, <1>c, <2>1 DEF IInv, Sending
  <2> QED
    BY <2>1, <2>2, <2>3
<1>5. Dirty1' = Dirty1 /\ Dirty2' = Dirty2 /\ Damaged' = Damaged /\ Sampled' = Sampled
  BY <1>1, <1>3, <1>4, <1>c DEF Dirty1, Dirty2, Damaged, Sampled, PrevBit
<1>6. OneFlip' /\ Receiving'
  BY <1>1, <1>3, <1>4, <1>5 DEF IInv, OneFlip, Receiving
<1>7. Judging' /\ Catching'
  BY <1>1, <1>5 DEF IInv, Judging, Catching, parity_bit, Half
<1> QED
  BY <1>2, <1>a, <1>b, <1>d, <1>6, <1>7 DEF IInv

LEMMA NextInv == IInv /\ [Next]_vars => IInv'
<1> SUFFICES ASSUME IInv, [Next]_vars PROVE IInv'
  OBVIOUS
<1>1. CASE Next
  <2>1. PICK put \in Puts, read \in BOOLEAN, flip \in BOOLEAN :
          /\ Clock(put, read, flip)
          /\ read => rxbuf # <<>>
          /\ flip => noise /\ SendsData
    BY <1>1, StepsAreClocks DEF IInv
  <2> QED
    BY <2>1, ClockKept
<1>2. CASE UNCHANGED vars
  BY <1>2, StutterInv
<1> QED
  BY <1>1, <1>2

\* The inductive invariant holds in every state.
LEMMA Invariance == Spec /\ []WholeStops => []IInv
  BY InitInv, NextInv, PTL DEF Spec

-----------------------------------------------------------------------------
(* What follows from it *)

\* With whole stop bits, transmitter and receiver keep their types, and no buffer ever holds more words than
\* its size (do_tx, do_rx).
THEOREM TypeCorrect == Spec /\ []WholeStops => []TypeOK
<1>1. IInv => TypeOK
  <2> SUFFICES ASSUME IInv PROVE TypeOK
    OBVIOUS
  <2>1. Types /\ Control
    BY DEF IInv
  <2>2. B \in 5 .. 8 /\ Par \in {0, 1} /\ setting.stop \in {1, 2} /\ B = setting.bits
    BY <2>1 DEF Types, B, Par
  <2>3. tx.state \in States /\ tx.pos \in 0 .. 8 /\ rx.state \in States /\ rx.pos \in 0 .. 9
    BY <2>1 DEF Types
  <2>4. tx.pos \in 0 .. setting.bits
    BY <2>1, <2>2, <2>3 DEF Control, States
  <2>5. rx.pos \in 0 .. setting.bits + 1
    BY <2>1, <2>2, <2>3 DEF Control, States
  <2>6. Len(rx.word) = 8
    BY <2>1 DEF Types
  <2> QED
    BY <2>1, <2>3, <2>4, <2>5, <2>6 DEF TypeOK, Types, States, P
<1> QED
  BY <1>1, Invariance, PTL

\* With whole stop bits and on an undisturbed line, only a full buffer makes the receiver
\* report an error (do_rx, parity and stop bit).
THEOREM ErrorCorrect == Spec /\ []WholeStops => []ErrorMeansFull
<1>1. IInv => ErrorMeansFull
  BY DEF IInv, Judging, ErrorMeansFull
<1> QED
  BY <1>1, Invariance, PTL

\* With odd or even parity and whole stop bits, every word that one disturbance has
\* changed has raised rx.error once its parity bit is in; by then it has been stored
\* (do_rx, parity_bit).
THEOREM ParityCorrect == Spec /\ []WholeStops => []ParityCatches
<1>1. IInv => ParityCatches
  BY DEF IInv, Catching, ParityCatches
<1> QED
  BY <1>1, Invariance, PTL

\* A clock on an undisturbed line is a step of WordLine.
LEMMA ClockMovesWords ==
  ASSUME IInv, NEW put \in Puts, NEW read \in BOOLEAN, read => rxbuf # <<>>,
         NEW flip \in BOOLEAN, Clock(put, read, flip), ~noisy'
  PROVE  Words!Next
<1>1. /\ Types /\ Control /\ Lag /\ OneWord /\ Sending /\ OneFlip /\ Receiving
  BY DEF IInv
<1>2. B \in 5 .. 8 /\ B = setting.bits
  BY <1>1 DEF Types, B
<1>3. ~noisy
  BY DEF Clock
<1>4. RxEnds => flight # <<>> /\ adjust_word = Head(flight)
  BY <1>1, <1>3, ReceiverStates, WordReceived DEF OneFlip
<1>5. put \in {<<>>} \cup {<<w>> : w \in Word} /\ (put # <<>> => Len(txbuf) < BufSize)
  <2>1. Payload(B) \subseteq Word
    BY <1>2 DEF Word
  <2> QED
    BY <1>2, <2>1 DEF Puts
<1>6. TxLoads \in BOOLEAN /\ RxEnds \in BOOLEAN
  BY DEF TxLoads, RxEnds
<1>7. TxLoads => txbuf # <<>>
  BY DEF TxLoads
<1>8. txbuf' = Words!Rest(TxLoads, txbuf) \o put
  BY DEF Clock, Words!Rest
<1>9. flight' = Words!Rest(RxEnds, flight) \o Words!One(TxLoads, txbuf)
  BY <1>4 DEF Clock, Words!Rest, Words!One
<1>10. rxbuf' = Words!Rest(read, rxbuf) \o Words!One(RxEnds /\ Len(rxbuf) < BufSize, flight)
  <2>1. Full <=> ~(Len(rxbuf) < BufSize)
    BY <1>1, LineAssumption, SMTT(30) DEF Full, Types
  <2> QED
    BY <1>4, <2>1 DEF Clock, Words!Rest, Words!One
<1> QED
  BY <1>4, <1>5, <1>6, <1>7, <1>8, <1>9, <1>10 DEF Words!Next

\* With whole stop bits and on an undisturbed line the transmitter and the receiver, bit
\* by bit and for every period, length, parity and distance between words, move words as
\* WordLine says: in order, each once, unchanged (do_tx, do_rx).
THEOREM LineCorrect == Spec /\ []WholeStops => ImplementsWordLine
<1>1. Init => Words!Init
  BY DEF Init, Words!Init
<1>2. IInv /\ [Next]_vars => [Words!Next \/ noisy']_bufs
  <2> SUFFICES ASSUME IInv, [Next]_vars PROVE [Words!Next \/ noisy']_bufs
    OBVIOUS
  <2>1. CASE Next
    <3>1. PICK put \in Puts, read \in BOOLEAN, flip \in BOOLEAN :
            /\ Clock(put, read, flip)
            /\ read => rxbuf # <<>>
            /\ flip => noise /\ SendsData
      BY <2>1, StepsAreClocks DEF IInv
    <3> QED
      BY <3>1, ClockMovesWords
  <2>2. CASE UNCHANGED vars
    BY <2>2 DEF vars, bufs
  <2> QED
    BY <2>1, <2>2
<1> QED
  BY <1>1, <1>2, Invariance, PTL DEF Spec, ImplementsWordLine
=============================================================================
