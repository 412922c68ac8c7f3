---------------------------- MODULE UartIrqProofs ----------------------------
(***************************************************************************)
(* Proofs about interrupt-driven serial I/O, for every size of the         *)
(* hardware buffers and of the firmware's rings, every set of ports and    *)
(* every load: main and the interrupt handler, which both move words       *)
(* through the same rings and registers, neither lose, repeat nor reorder  *)
(* one.                                                                    *)
(***************************************************************************)
EXTENDS UartIrq, SequenceTheorems, TLAPS

-----------------------------------------------------------------------------
(* Sequences *)

\* A sequence that is not empty is its first element and the rest.
LEMMA HeadThenTail ==
  ASSUME NEW S, NEW s \in Seq(S), s # <<>>
  PROVE  /\ Head(s) \in S /\ Tail(s) \in Seq(S) /\ <<Head(s)>> \in Seq(S)
         /\ Len(Tail(s)) = Len(s) - 1
         /\ <<Head(s)>> \o Tail(s) = s
  <1>1. Head(s) \in S /\ Tail(s) \in Seq(S) /\ Len(Tail(s)) = Len(s) - 1
    OBVIOUS
  <1>2. \A i \in 1 .. Len(s) - 1 : Tail(s)[i] = s[i + 1]
    OBVIOUS
  <1>3. <<Head(s)>> \in Seq(S) /\ Len(<<Head(s)>>) = 1 /\ <<Head(s)>>[1] = s[1]
    BY <1>1
  <1> DEFINE t == <<Head(s)>> \o Tail(s)
  <1>4. /\ t \in Seq(S) /\ Len(t) = 1 + (Len(s) - 1)
        /\ \A i \in 1 .. 1 + (Len(s) - 1) :
             t[i] = IF i <= 1 THEN <<Head(s)>>[i] ELSE Tail(s)[i - 1]
    BY <1>1, <1>3, ConcatProperties
  <1>5. Len(t) = Len(s) /\ \A i \in 1 .. Len(s) : t[i] = s[i]
    BY <1>2, <1>3, <1>4
  <1>6. t = s
    BY <1>4, <1>5, SeqEqual, Zenon
  <1> QED BY <1>1, <1>3, <1>6

LEMMA Singleton ==
  ASSUME NEW S, NEW x \in S
  PROVE  <<x>> \in Seq(S) /\ Len(<<x>>) = 1 /\ <<>> \in Seq(S) /\ Len(<<>>) = 0
  OBVIOUS

LEMMA AppendCat ==
  ASSUME NEW S, NEW s \in Seq(S), NEW x \in S
  PROVE  Append(s, x) = s \o <<x>> /\ Append(s, x) \in Seq(S)
  BY AppendIsConcat, AppendProperties

LEMMA Cat ==
  ASSUME NEW S, NEW s \in Seq(S), NEW t \in Seq(S)
  PROVE  s \o t \in Seq(S) /\ Len(s \o t) = Len(s) + Len(t)
  BY ConcatProperties

\* The numbers up to n + 1.
LEMMA CountUp ==
  ASSUME NEW S, NEW n \in Nat, 1 .. n + 1 \subseteq S
  PROVE  [k \in 1 .. n + 1 |-> k] = [k \in 1 .. n |-> k] \o <<n + 1>>
  <1> DEFINE a == [k \in 1 .. n |-> k]
             b == [k \in 1 .. n + 1 |-> k]
             c == a \o <<n + 1>>
  <1>1. a \in Seq(S) /\ Len(a) = n
    OBVIOUS
  <1>2. b \in Seq(S) /\ Len(b) = n + 1
    OBVIOUS
  <1>3. <<n + 1>> \in Seq(S) /\ Len(<<n + 1>>) = 1 /\ <<n + 1>>[1] = n + 1
    OBVIOUS
  <1>4. /\ c \in Seq(S) /\ Len(c) = n + 1
        /\ \A i \in 1 .. n + 1 : c[i] = IF i <= n THEN a[i] ELSE <<n + 1>>[i - n]
    BY <1>1, <1>3, ConcatProperties
  <1>5. \A i \in 1 .. n + 1 : b[i] = c[i]
    BY <1>3, <1>4
  <1> QED BY <1>2, <1>4, <1>5, SeqEqual, Zenon

-----------------------------------------------------------------------------
(* The firmware's rings, as records *)

\* The pointers and flags agree, and the words between the pointers, oldest
\* first: IOBuf's definitions, for a ring that is a value.
WellFormed(ub) ==
  /\ ub \in RingType
  /\ ub.full => ub.rp = ub.wp /\ ub.not_empty
  /\ ub.rp = ub.wp => (ub.full <=> ub.not_empty)
  /\ ub.rp # ub.wp => ub.not_empty
Count(ub) == IF ub.full THEN UBSize
             ELSE IF ub.rp <= ub.wp THEN ub.wp - ub.rp ELSE ub.wp - ub.rp + UBSize
Slot(ub, i) == IF ub.rp + i < UBSize THEN ub.rp + i ELSE ub.rp + i - UBSize
Stored(ub) == [i \in 1 .. Count(ub) |-> ub.buf[Slot(ub, i - 1)]]

\* The sizes and pointers of a well-formed ring, and what its flags mean.
LEMMA RingFacts ==
  ASSUME NEW ub, WellFormed(ub)
  PROVE  /\ UBSize \in Nat /\ UBSize > 0
         /\ ub.rp \in 0 .. UBSize - 1 /\ ub.wp \in 0 .. UBSize - 1
         /\ ub.full \in BOOLEAN /\ ub.not_empty \in BOOLEAN
         /\ ub.buf \in [0 .. UBSize - 1 -> Word]
         /\ ub.full => ub.rp = ub.wp /\ ub.not_empty
         /\ ub.rp = ub.wp => (ub.full <=> ub.not_empty)
         /\ ub.rp # ub.wp => ub.not_empty
  BY SizeAssumption DEF WellFormed, RingType

LEMMA RingCount ==
  ASSUME NEW ub, WellFormed(ub)
  PROVE  /\ Count(ub) \in 0 .. UBSize
         /\ ub.full <=> Count(ub) = UBSize
         /\ ub.not_empty <=> Count(ub) > 0
         /\ \A i \in 0 .. UBSize - 1 : Slot(ub, i) \in 0 .. UBSize - 1
  <1>1. Count(ub) \in 0 .. UBSize /\ (ub.full <=> Count(ub) = UBSize)
    BY RingFacts DEF Count
  <1>2. ub.not_empty <=> Count(ub) > 0
    BY RingFacts DEF Count
  <1>3. ASSUME NEW i \in 0 .. UBSize - 1
        PROVE  Slot(ub, i) \in 0 .. UBSize - 1
    BY RingFacts DEF Slot
  <1> QED BY <1>1, <1>2, <1>3

\* The words a ring holds: as many as lie between its pointers, the oldest at
\* the read pointer.
LEMMA HeldFacts ==
  ASSUME NEW ub, WellFormed(ub)
  PROVE  /\ Stored(ub) \in Seq(Word) /\ Len(Stored(ub)) = Count(ub)
         /\ \A i \in 1 .. Count(ub) : Stored(ub)[i] = ub.buf[Slot(ub, i - 1)]
         /\ ub.not_empty => /\ Stored(ub) # <<>> /\ Oldest(ub) = Head(Stored(ub))
                            /\ Oldest(ub) \in Word
  <1> DEFINE n == Count(ub)
  <1>1. n \in Nat /\ n <= UBSize
    BY RingCount, RingFacts
  <1>2. \A i \in 1 .. n : ub.buf[Slot(ub, i - 1)] \in Word
    <2> SUFFICES ASSUME NEW i \in 1 .. n PROVE ub.buf[Slot(ub, i - 1)] \in Word
      OBVIOUS
    <2>1. i - 1 \in 0 .. UBSize - 1
      BY <1>1, RingFacts
    <2> QED BY <2>1, RingFacts, RingCount
  <1>3. Stored(ub) = [i \in 1 .. n |-> ub.buf[Slot(ub, i - 1)]]
    BY DEF Stored
  <1> HIDE DEF n
  <1>4. Stored(ub) \in Seq(Word) /\ Len(Stored(ub)) = n
        /\ \A i \in 1 .. n : Stored(ub)[i] = ub.buf[Slot(ub, i - 1)]
    BY <1>1, <1>2, <1>3
  <1>5. ASSUME ub.not_empty
        PROVE  /\ Stored(ub) # <<>> /\ Oldest(ub) = Head(Stored(ub))
               /\ Oldest(ub) \in Word
    <2>1. n > 0
      BY <1>5, RingCount DEF n
    <2>2. Slot(ub, 0) = ub.rp
      BY RingFacts DEF Slot
    <2>3. Stored(ub)[1] = ub.buf[ub.rp]
      BY <1>1, <1>4, <2>1, <2>2
    <2>4. Stored(ub) # <<>> /\ Head(Stored(ub)) = Stored(ub)[1]
      BY <1>1, <1>4, <2>1
    <2> QED BY <1>5, <2>3, <2>4, RingFacts DEF Oldest
  <1> QED BY <1>4, <1>5 DEF n

\* UARTBuf_read of a ring that is not empty takes the oldest word away.
LEMMA ReadRingTakes ==
  ASSUME NEW ub, WellFormed(ub), ub.not_empty
  PROVE  /\ WellFormed(ReadRing(ub, ub))
         /\ Stored(ReadRing(ub, ub)) = Tail(Stored(ub))
         /\ ~ReadRing(ub, ub).full
  <1> DEFINE r == ReadRing(ub, ub)
             next == IF ub.rp = UBSize - 1 THEN 0 ELSE ub.rp + 1
             n == Count(ub)
  <1>1. /\ r.rp = next /\ r.wp = ub.wp /\ r.buf = ub.buf
        /\ r.full = FALSE /\ r.not_empty = (next # ub.wp)
        /\ r \in [rp : 0 .. UBSize - 1, wp : 0 .. UBSize - 1, full : BOOLEAN,
                  not_empty : BOOLEAN, buf : [0 .. UBSize - 1 -> Word]]
    <2>1. ub \in RingType
      BY DEF WellFormed
    <2>2. Ring(ub)!nxt_pnt(ub.rp) = next
      BY DEF Ring!nxt_pnt
    <2>3. next \in 0 .. UBSize - 1
      BY RingFacts
    <2>4. r = [ub EXCEPT !.rp = next, !.wp = ub.wp, !.not_empty = (next # ub.wp),
                         !.full = FALSE, !.buf = ub.buf]
      BY <2>1, <2>2 DEF ReadRing, UARTBuf_update, RingType
    <2> QED BY <2>1, <2>3, <2>4 DEF RingType
  <1> HIDE DEF r
  <1>r. /\ UBSize \in Nat /\ UBSize > 0
        /\ ub.rp \in 0 .. UBSize - 1 /\ ub.wp \in 0 .. UBSize - 1
        /\ ub.full => ub.rp = ub.wp
        /\ ub.rp = ub.wp => ub.full
    BY RingFacts
  <1>2. WellFormed(r)
    BY <1>1, RingFacts DEF WellFormed, RingType
  <1>3. Count(r) = n - 1
    <2>1. Count(r) = IF next <= ub.wp THEN ub.wp - next ELSE ub.wp - next + UBSize
      BY <1>1 DEF Count
    <2>2. n = IF ub.full THEN UBSize
              ELSE IF ub.rp <= ub.wp THEN ub.wp - ub.rp ELSE ub.wp - ub.rp + UBSize
      BY DEF Count
    <2> QED BY <1>r, <2>1, <2>2
  <1>4. \A i \in 0 .. UBSize - 2 : Slot(r, i) = Slot(ub, i + 1)
    <2> SUFFICES ASSUME NEW i \in 0 .. UBSize - 2
                 PROVE  Slot(r, i) = Slot(ub, i + 1)
      OBVIOUS
    <2>1. Slot(r, i) = IF next + i < UBSize THEN next + i ELSE next + i - UBSize
      BY <1>1 DEF Slot
    <2>2. Slot(ub, i + 1) = IF ub.rp + (i + 1) < UBSize THEN ub.rp + (i + 1)
                                 ELSE ub.rp + (i + 1) - UBSize
      BY DEF Slot
    <2> QED BY <1>r, <2>1, <2>2
  <1>5. Stored(r) = Tail(Stored(ub))
    <2>1. n \in 1 .. UBSize
      BY RingCount, RingFacts
    <2>2. Stored(ub) \in Seq(Word) /\ Stored(ub) # <<>> /\ Len(Stored(ub)) = n
          /\ \A i \in 1 .. n : Stored(ub)[i] = ub.buf[Slot(ub, i - 1)]
      BY HeldFacts
    <2>3. Stored(r) \in Seq(Word) /\ Len(Stored(r)) = n - 1
          /\ \A i \in 1 .. n - 1 : Stored(r)[i] = ub.buf[Slot(r, i - 1)]
      BY <1>1, <1>2, <1>3, HeldFacts
    <2> DEFINE t == Tail(Stored(ub))
    <2>4. t \in Seq(Word) /\ Len(t) = n - 1
          /\ \A i \in 1 .. n - 1 : t[i] = Stored(ub)[i + 1]
      BY <2>2
    <2>5. ASSUME NEW i \in 1 .. n - 1 PROVE Stored(r)[i] = t[i]
      <3>1. Stored(r)[i] = ub.buf[Slot(r, i - 1)]
        BY <2>3
      <3>2. Slot(r, i - 1) = Slot(ub, i)
        <4>1. i - 1 \in 0 .. UBSize - 2 /\ (i - 1) + 1 = i
          BY <2>1, RingFacts
        <4> QED BY <1>4, <4>1
      <3>3. t[i] = ub.buf[Slot(ub, i)]
        <4>1. i + 1 \in 1 .. n /\ (i + 1) - 1 = i
          BY <2>1, RingFacts
        <4> QED BY <2>2, <2>4, <4>1
      <3> QED BY <3>1, <3>2, <3>3
    <2> QED BY <2>3, <2>4, <2>5, SeqEqual, Zenon
  <1> QED BY <1>1, <1>2, <1>5 DEF r

\* UARTBuf_write of a ring that is not full adds a word behind the others.
LEMMA WriteRingAdds ==
  ASSUME NEW ub, WellFormed(ub), ~ub.full, NEW c \in Word
  PROVE  /\ WellFormed(WriteRing(ub, ub, c))
         /\ Stored(WriteRing(ub, ub, c)) = Append(Stored(ub), c)
         /\ WriteRing(ub, ub, c).not_empty
  <1> DEFINE r == WriteRing(ub, ub, c)
             next == IF ub.wp = UBSize - 1 THEN 0 ELSE ub.wp + 1
             n == Count(ub)
  <1>1. /\ r.rp = ub.rp /\ r.wp = next /\ r.buf = [ub.buf EXCEPT ![ub.wp] = c]
        /\ r.full = (ub.rp = next) /\ r.not_empty = TRUE
        /\ r \in [rp : 0 .. UBSize - 1, wp : 0 .. UBSize - 1, full : BOOLEAN,
                  not_empty : BOOLEAN, buf : [0 .. UBSize - 1 -> Word]]
    <2>1. ub \in RingType
      BY DEF WellFormed
    <2>2. Ring(ub)!nxt_pnt(ub.wp) = next
      BY DEF Ring!nxt_pnt
    <2>3. next \in 0 .. UBSize - 1
      BY RingFacts
    <2>4. r = [ub EXCEPT !.rp = ub.rp, !.wp = next, !.not_empty = TRUE,
                         !.full = (ub.rp = next),
                         !.buf = [ub.buf EXCEPT ![ub.wp] = c]]
      BY <2>1, <2>2 DEF WriteRing, UARTBuf_update, RingType
    <2>5. [ub.buf EXCEPT ![ub.wp] = c] \in [0 .. UBSize - 1 -> Word]
      BY RingFacts
    <2> QED BY <2>1, <2>3, <2>4, <2>5 DEF RingType
  <1> HIDE DEF r
  <1>2. WellFormed(r)
    BY <1>1, RingFacts DEF WellFormed, RingType
  <1>3. Count(r) = n + 1
    BY <1>1, RingFacts DEF Count
  <1>4. \A i \in 0 .. UBSize - 1 : Slot(r, i) = Slot(ub, i)
    BY <1>1, RingFacts DEF Slot
  <1>5. n \in 0 .. UBSize - 1 /\ Slot(ub, n) = ub.wp
    BY RingFacts DEF Slot, Count
  <1>6. \A i \in 0 .. n - 1 : Slot(ub, i) # ub.wp
    BY RingFacts DEF Slot, Count
  <1>7. Stored(r) = Append(Stored(ub), c)
    <2>2. Stored(ub) \in Seq(Word) /\ Len(Stored(ub)) = n
          /\ \A i \in 1 .. n : Stored(ub)[i] = ub.buf[Slot(ub, i - 1)]
      BY HeldFacts
    <2>3. Stored(r) \in Seq(Word) /\ Len(Stored(r)) = n + 1
          /\ \A i \in 1 .. n + 1 : Stored(r)[i] = r.buf[Slot(r, i - 1)]
      BY <1>2, <1>3, HeldFacts
    <2> DEFINE t == Append(Stored(ub), c)
    <2>4. t \in Seq(Word) /\ Len(t) = n + 1 /\ t[n + 1] = c
          /\ \A i \in 1 .. n : t[i] = Stored(ub)[i]
      BY <2>2, AppendProperties
    <2>5. ASSUME NEW i \in 1 .. n + 1 PROVE Stored(r)[i] = t[i]
      <3>1. /\ i - 1 \in 0 .. UBSize - 1
            /\ Slot(r, i - 1) = Slot(ub, i - 1)
            /\ Slot(ub, i - 1) \in 0 .. UBSize - 1
        BY <1>4, <1>5, RingFacts, RingCount
      <3>2. Stored(r)[i] = [ub.buf EXCEPT ![ub.wp] = c][Slot(ub, i - 1)]
        BY <1>1, <2>3, <3>1
      <3>3. CASE i = n + 1
        BY <1>5, <2>4, <3>1, <3>2, <3>3, RingFacts
      <3>4. CASE i \in 1 .. n
        <4>1. Slot(ub, i - 1) # ub.wp
          BY <1>5, <1>6, <3>4
        <4>2. Stored(r)[i] = ub.buf[Slot(ub, i - 1)]
          BY <3>1, <3>2, <4>1, RingFacts
        <4> QED BY <2>2, <2>4, <3>4, <4>2
      <3>5. n \in Nat
        BY <1>5, RingFacts
      <3> HIDE DEF n, t
      <3>6. i = n + 1 \/ i \in 1 .. n
        BY <3>5
      <3> QED BY <3>3, <3>4, <3>6
    <2> QED BY <2>3, <2>4, <2>5, SeqEqual, Zenon
  <1> QED BY <1>1, <1>2, <1>7 DEF r

-----------------------------------------------------------------------------
(* The inductive invariant *)

MainPoints == {"ready", "g_wait", "g_enter", "g_mask", "g_load", "g_store", "g_leave",
               "p_wait", "p_enter", "p_mask", "p_load", "p_store", "p_status",
               "p_load2", "p_pop", "p_data", "p_leave"}
HandlerPoints == {"off", "irq", "tx", "txdata", "rx", "rxdata", "clear", "mret"}

\* The hardware's state.
Hardware ==
  /\ rxbuf \in [Uarts -> Seq(Word)] /\ \A u \in Uarts : Len(rxbuf[u]) <= BufSize
  /\ txbuf \in [Uarts -> Seq(Word)] /\ \A u \in Uarts : Len(txbuf[u]) <= BufSize
  /\ shifting \in [Uarts -> Word \cup {None}]
  /\ intr \in [Uarts -> BOOLEAN] /\ d_intr \in [Uarts -> [1 .. 3 -> BOOLEAN]]
  /\ arrived \in [Uarts -> Nat] /\ \A u \in Uarts : arrived[u] <= work.rx
  /\ accepted \in [Uarts -> Seq(Word)] /\ sent \in [Uarts -> Seq(Word)]
  /\ pending \subseteq Uarts /\ mip \in BOOLEAN
  /\ work \in Workloads

\* The state of main and of the handler.
Program ==
  /\ main \in MainPoints /\ hpc \in HandlerPoints
  /\ mie \in BOOLEAN /\ prv_mstatus \in BOOLEAN
  /\ chan \in Uarts /\ loaded \in RingType /\ ch \in Word
  /\ irq \subseteq Uarts
  /\ ub_rx \in [Uarts -> RingType] /\ ub_tx \in [Uarts -> RingType]
  /\ \A u \in Uarts : WellFormed(ub_rx[u]) /\ WellFormed(ub_tx[u])
  /\ delivered \in [Uarts -> Seq(Word)]
  /\ put \in [Uarts -> Nat] /\ \A u \in Uarts : put[u] <= work.tx

\* Where main runs with interrupts off.
Closed == {"g_load", "g_store", "g_leave", "p_load", "p_store", "p_status",
           "p_load2", "p_pop", "p_data", "p_leave"}

\* Main and the handler exclude each other: interrupts are off in the handler
\* and in the critical section and nowhere else, and no trap lies in a section.
Exclusion ==
  /\ mie <=> hpc = "off" /\ main \notin Closed
  /\ main \in Closed => hpc = "off"
  /\ main \in Closed \cup {"g_mask", "p_mask"} => prv_mstatus = TRUE

\* What main has seen holds until it acts on it, though the handler may run
\* before the section and the hardware always does.
MainKnows ==
  /\ main \in {"g_enter", "g_mask", "g_load", "g_store"} => ub_rx[chan].not_empty
  /\ main = "g_store" => loaded = ub_rx[chan] /\ ch = Oldest(ub_rx[chan])
  /\ main \in {"p_wait", "p_enter", "p_mask", "p_load", "p_store"} => put[chan] < work.tx
  /\ main \in {"p_enter", "p_mask", "p_load", "p_store"} => ~ub_tx[chan].full
  /\ main = "p_store" => loaded = ub_tx[chan]
  /\ main \in {"p_status", "p_load2", "p_pop"} => ub_tx[chan].not_empty
  /\ main \in {"p_load2", "p_pop", "p_data"} => Len(txbuf[chan]) < BufSize
  /\ main = "p_pop" => loaded = ub_tx[chan] /\ ch = Oldest(ub_tx[chan])

\* The same of the handler.
HandlerKnows ==
  /\ hpc \in {"tx", "txdata", "rx", "rxdata"} => irq # {}
  /\ hpc = "txdata" => /\ ub_tx[Serving].not_empty
                       /\ Len(txbuf[Serving]) < BufSize
  /\ hpc = "rxdata" => ~ub_rx[Serving].full /\ rxbuf[Serving] # <<>>

\* RxInOrder and TxInOrder, with the words of a ring as a value of the ring.
RxKept == \A u \in Uarts : delivered[u] \o Stored(ub_rx[u]) \o rxbuf[u] = accepted[u]
TxKept ==
  \A u \in Uarts :
    sent[u] \o InShifter(u) \o txbuf[u] \o InHand(u) \o Stored(ub_tx[u])
      = [k \in 1 .. put[u] |-> k]

IInv == /\ Hardware /\ Program /\ Exclusion /\ MainKnows /\ HandlerKnows
        /\ RxKept /\ TxKept

-----------------------------------------------------------------------------
(* One clock of the hardware *)

\* What has left the firmware for the line of port u, oldest first.
Front(u) == sent[u] \o InShifter(u) \o txbuf[u]

\* In a clock new words go to the end of the receive buffer, the word being read
\* leaves its front, and the words sent, in the shifter and in the transmit
\* buffer together grow by the word being written.
RxClock(u, rd) ==
  \E x \in Seq(Word) :
    /\ rxbuf'[u] = (IF u = rd THEN Tail(rxbuf[u]) ELSE rxbuf[u]) \o x
    /\ accepted'[u] = accepted[u] \o x
TxClock(u, wr, w) ==
  Front(u)' = Front(u) \o (IF u = wr THEN <<w>> ELSE <<>>)

LEMMA Numbers ==
  ASSUME Hardware
  PROVE  /\ work.rx \in Nat /\ work.tx \in Nat
         /\ 0 \in Word /\ 0 .. work.rx \subseteq Word /\ 0 .. work.tx \subseteq Word
         /\ None \notin Uarts /\ None \notin Word
         /\ BufSize \in Nat /\ BufSize > 0
  <1>1. work \in Workloads /\ work.rx \in Nat /\ work.tx \in Nat
    BY LoadAssumption DEF Hardware
  <1>2. 0 .. (work.rx + work.tx) \subseteq Word
    BY <1>1 DEF Word
  <1>3. \A w \in Workloads : w.rx \in Nat /\ w.tx \in Nat
    BY LoadAssumption
  <1>4. Word \subseteq Nat
    BY <1>3 DEF Word
  <1>5. 0 \in Word /\ 0 .. work.rx \subseteq Word /\ 0 .. work.tx \subseteq Word
    BY <1>1, <1>2
  <1>6. None \notin Word
    BY <1>4, NoneAssumption
  <1>7. None \notin Uarts
    <2>1. 0 \in Nat /\ 1 \in Nat
      OBVIOUS
    <2>2. None # 0 /\ None # 1
      BY <2>1, NoneAssumption, Zenon
    <2> QED BY <2>2, PortAssumption, Zenon
  <1> QED BY <1>1, <1>5, <1>6, <1>7, SizeAssumption

LEMMA ClockRx ==
  ASSUME Hardware, work' = work,
         NEW rd \in Uarts \cup {None}, NEW wr, NEW w, NEW clr,
         rd # None => rxbuf[rd] # <<>>,
         Clock(rd, wr, w, clr)
  PROVE  /\ arrived' \in [Uarts -> Nat] /\ \A u \in Uarts : arrived'[u] <= work.rx
         /\ rxbuf' \in [Uarts -> Seq(Word)]
         /\ accepted' \in [Uarts -> Seq(Word)]
         /\ \A u \in Uarts : /\ Len(rxbuf'[u]) <= BufSize
                             /\ RxClock(u, rd)
                             /\ rxbuf[u] # <<>> /\ u # rd => rxbuf'[u] # <<>>
  <1>1. PICK arr \in SUBSET {u \in Uarts : MayArrive(u)},
             fin \in SUBSET {u \in Uarts : MayFinish(u)} :
          /\ arrived' = [u \in Uarts |-> arrived[u] + IF u \in arr THEN 1 ELSE 0]
          /\ accepted' = [u \in Uarts |->
               accepted[u] \o (IF u \in {v \in arr : Len(rxbuf[v]) < BufSize}
                               THEN <<arrived[u] + 1>> ELSE <<>>)]
          /\ rxbuf' = [u \in Uarts |->
               (IF u = rd THEN Tail(rxbuf[u]) ELSE rxbuf[u])
               \o (IF u \in {v \in arr : Len(rxbuf[v]) < BufSize}
                   THEN <<arrived[u] + 1>> ELSE <<>>)]
    BY Zenon DEF Clock
  <1> DEFINE x(u) == IF u \in {v \in arr : Len(rxbuf[v]) < BufSize}
                     THEN <<arrived[u] + 1>> ELSE <<>>
             r(u) == IF u = rd THEN Tail(rxbuf[u]) ELSE rxbuf[u]
  <1>2. \A u \in arr : u \in Uarts /\ arrived[u] < work.rx
    BY DEF MayArrive
  <1>n. /\ work.rx \in Nat /\ 0 .. work.rx \subseteq Word
        /\ arrived \in [Uarts -> Nat] /\ \A u \in Uarts : arrived[u] <= work.rx
    BY Numbers DEF Hardware
  <1>3. arrived' \in [Uarts -> Nat] /\ \A u \in Uarts : arrived'[u] <= work.rx
    <2>1. ASSUME NEW u \in Uarts
          PROVE  /\ arrived[u] + (IF u \in arr THEN 1 ELSE 0) \in Nat
                 /\ arrived[u] + (IF u \in arr THEN 1 ELSE 0) <= work.rx
      BY <1>2, <1>n
    <2> QED BY <1>1, <2>1
  <1>4. ASSUME NEW u \in Uarts
        PROVE  /\ x(u) \in Seq(Word) /\ r(u) \in Seq(Word)
               /\ rxbuf'[u] = r(u) \o x(u) /\ accepted'[u] = accepted[u] \o x(u)
               /\ rxbuf'[u] \in Seq(Word) /\ accepted'[u] \in Seq(Word)
               /\ Len(rxbuf'[u]) <= BufSize
               /\ rxbuf[u] # <<>> /\ u # rd => rxbuf'[u] # <<>>
    <2>1. arrived[u] + 1 \in Word \/ u \notin arr
      <3>1. ASSUME u \in arr PROVE arrived[u] + 1 \in 0 .. work.rx
        BY <1>2, <1>n, <3>1
      <3> QED BY <1>n, <3>1
    <2>2. x(u) \in Seq(Word) /\ Len(x(u)) <= 1
          /\ (Len(rxbuf[u]) >= BufSize => Len(x(u)) = 0)
      BY <2>1, Singleton, Numbers DEF Hardware
    <2>3. /\ r(u) \in Seq(Word) /\ Len(r(u)) <= Len(rxbuf[u])
          /\ u # rd => r(u) = rxbuf[u]
      BY HeadThenTail, Numbers DEF Hardware
    <2>4. rxbuf'[u] = r(u) \o x(u) /\ accepted'[u] = accepted[u] \o x(u)
      BY <1>1, Zenon
    <2>5. rxbuf[u] \in Seq(Word) /\ Len(rxbuf[u]) <= BufSize /\ accepted[u] \in Seq(Word)
      BY DEF Hardware
    <2> HIDE DEF x, r
    <2>6. /\ rxbuf'[u] \in Seq(Word) /\ Len(rxbuf'[u]) = Len(r(u)) + Len(x(u))
          /\ accepted'[u] \in Seq(Word)
      BY <2>2, <2>3, <2>4, <2>5, Cat
    <2>7. Len(rxbuf'[u]) <= BufSize
      BY <2>2, <2>3, <2>5, <2>6, Numbers
    <2>8. ASSUME rxbuf[u] # <<>>, u # rd PROVE rxbuf'[u] # <<>>
      <3>1. Len(rxbuf[u]) > 0
        BY <2>5, <2>8
      <3>2. Len(rxbuf'[u]) > 0
        BY <2>2, <2>3, <2>5, <2>6, <2>8, <3>1
      <3> QED BY <3>2
    <2> QED BY <2>2, <2>3, <2>4, <2>6, <2>7, <2>8
  <1>5. \A u \in Uarts : RxClock(u, rd)
    <2> SUFFICES ASSUME NEW u \in Uarts PROVE RxClock(u, rd)
      OBVIOUS
    <2>1. /\ x(u) \in Seq(Word)
          /\ rxbuf'[u] = (IF u = rd THEN Tail(rxbuf[u]) ELSE rxbuf[u]) \o x(u)
          /\ accepted'[u] = accepted[u] \o x(u)
      BY <1>4
    <2> HIDE DEF x
    <2> QED BY <2>1, Zenon DEF RxClock
  <1>6. rxbuf' \in [Uarts -> Seq(Word)] /\ accepted' \in [Uarts -> Seq(Word)]
    <2>1. rxbuf' = [u \in Uarts |-> rxbuf'[u]] /\ accepted' = [u \in Uarts |-> accepted'[u]]
      BY <1>1
    <2> QED BY <1>4, <2>1
  <1> QED BY <1>3, <1>4, <1>5, <1>6

\* Concatenation as an operator without a definition: the provers regroup it by
\* these two facts alone.
Join(a, b) == a \o b

LEMMA JoinFacts ==
  /\ \A a, b \in Seq(Word) : Join(a, b) \in Seq(Word)
  /\ \A a, b, c \in Seq(Word) : Join(a, Join(b, c)) = Join(Join(a, b), c)
  <1>1. ASSUME NEW a \in Seq(Word), NEW b \in Seq(Word)
        PROVE  a \o b \in Seq(Word)
    BY ConcatProperties, Zenon
  <1>2. ASSUME NEW a \in Seq(Word), NEW b \in Seq(Word), NEW c \in Seq(Word)
        PROVE  a \o (b \o c) = (a \o b) \o c
    <2>1. (a \o b) \o c = a \o (b \o c)
      BY ConcatAssociative, SMTT(60)
    <2> QED BY <2>1
  <1> QED BY <1>1, <1>2 DEF Join

\* How a concatenation may be regrouped, as operators that the provers need not open.
Regroups(a, b, c) == a \o (b \o c) = a \o b \o c
LEMMA Assoc ==
  ASSUME NEW a \in Seq(Word), NEW b \in Seq(Word), NEW c \in Seq(Word)
  PROVE  Regroups(a, b, c)
  <1>1. Join(a, Join(b, c)) = Join(Join(a, b), c)
    BY JoinFacts
  <1> QED BY <1>1, Zenon DEF Join, Regroups

Regroups5(s, f, k, l, r, y) ==
  s \o f \o (k \o l) \o (r \o y) = s \o (f \o k) \o (l \o r) \o y
LEMMA Assoc5 ==
  ASSUME NEW s \in Seq(Word), NEW f \in Seq(Word), NEW k \in Seq(Word),
         NEW l \in Seq(Word), NEW r \in Seq(Word), NEW y \in Seq(Word)
  PROVE  Regroups5(s, f, k, l, r, y)
  <1> DEFINE a == Join(s, f)  b == Join(s, Join(f, k))  c == Join(b, l)
  <1>1. a \in Seq(Word) /\ b \in Seq(Word) /\ c \in Seq(Word)
    BY JoinFacts
  <1>2. Join(a, k) = b
    BY JoinFacts
  <1> HIDE DEF a, b, c
  <1>3. Join(a, Join(k, l)) = c
    BY <1>1, <1>2, JoinFacts DEF c
  <1>4. Join(c, r) = Join(b, Join(l, r))
    BY <1>1, JoinFacts DEF c
  <1>5. Join(c, Join(r, y)) = Join(Join(b, Join(l, r)), y)
    BY <1>1, <1>4, JoinFacts
  <1> QED BY <1>3, <1>5, Zenon DEF a, b, c, Join, Regroups5

LEMMA Regroup ==
  ASSUME NEW S, NEW a \in Seq(S), NEW b \in Seq(S)
  PROVE  a \o b \in Seq(S) /\ a \o <<>> = a /\ <<>> \o a = a
  BY Cat, ConcatEmptySeq

LEMMA ClockTx ==
  ASSUME Hardware, NEW rd, NEW wr \in Uarts \cup {None}, NEW w \in Word, NEW clr,
         wr # None => Len(txbuf[wr]) < BufSize,
         Clock(rd, wr, w, clr)
  PROVE  /\ txbuf' \in [Uarts -> Seq(Word)]
         /\ shifting' \in [Uarts -> Word \cup {None}]
         /\ sent' \in [Uarts -> Seq(Word)]
         /\ \A u \in Uarts :
              /\ Len(txbuf'[u]) <= BufSize
              /\ u # wr => Len(txbuf'[u]) <= Len(txbuf[u])
              /\ TxClock(u, wr, w)
  <1>1. PICK fin \in SUBSET {u \in Uarts : MayFinish(u)} :
          /\ txbuf' = [u \in Uarts |->
               (IF Loads(u, fin) THEN Tail(txbuf[u]) ELSE txbuf[u])
               \o (IF u = wr THEN <<w>> ELSE <<>>)]
          /\ shifting' = [u \in Uarts |->
               IF Loads(u, fin) THEN Head(txbuf[u])
               ELSE IF u \in fin THEN None ELSE shifting[u]]
          /\ sent' = [u \in Uarts |->
               IF u \in fin THEN Append(sent[u], shifting[u]) ELSE sent[u]]
    BY Zenon DEF Clock
  <1> DEFINE y(u) == IF u = wr THEN <<w>> ELSE <<>>
  <1>2. \A u \in fin : u \in Uarts /\ shifting[u] # None
    BY DEF MayFinish
  <1>3. ASSUME NEW u \in Uarts
        PROVE  /\ txbuf'[u] \in Seq(Word) /\ shifting'[u] \in Word \cup {None}
               /\ sent'[u] \in Seq(Word)
               /\ Len(txbuf'[u]) <= BufSize
               /\ u # wr => Len(txbuf'[u]) <= Len(txbuf[u])
               /\ TxClock(u, wr, w)
    <2> DEFINE t == txbuf[u]
               s == sent[u]
               f == IF u \in fin THEN <<shifting[u]>> ELSE <<>>
               k == IF u \in fin \/ shifting[u] = None THEN <<>> ELSE <<shifting[u]>>
               l == IF Loads(u, fin) THEN <<Head(t)>> ELSE <<>>
               r == IF Loads(u, fin) THEN Tail(t) ELSE t
    <2>1. /\ t \in Seq(Word) /\ s \in Seq(Word) /\ Len(t) <= BufSize
          /\ shifting[u] \in Word \cup {None} /\ None \notin Word
          /\ BufSize \in Nat
      BY Numbers DEF Hardware
    <2>2. /\ y(u) \in Seq(Word) /\ Len(y(u)) <= 1
          /\ u # wr => Len(y(u)) = 0
          /\ u = wr => Len(t) < BufSize
      BY Singleton, Numbers
    <2>3. f \in Seq(Word) /\ k \in Seq(Word)
      BY <1>2, <2>1, Singleton
    <2>4. /\ l \in Seq(Word) /\ r \in Seq(Word) /\ Len(r) <= Len(t)
          /\ l \o r = t
          /\ Loads(u, fin) => Head(t) \in Word
      <3>1. CASE Loads(u, fin)
        <4>1. t # <<>>
          BY <3>1 DEF Loads
        <4>2. /\ Head(t) \in Word /\ Tail(t) \in Seq(Word) /\ <<Head(t)>> \in Seq(Word)
              /\ Len(Tail(t)) = Len(t) - 1 /\ <<Head(t)>> \o Tail(t) = t
          BY <2>1, <4>1, HeadThenTail
        <4>3. Len(t) \in Nat
          BY <2>1
        <4> QED BY <3>1, <4>2, <4>3
      <3>2. CASE ~Loads(u, fin)
        BY <2>1, <3>2, Singleton, Regroup
      <3> QED BY <3>1, <3>2
    <2>5. txbuf'[u] = r \o y(u)
      BY <1>1, Zenon
    <2>6. sent'[u] = s \o f /\ sent'[u] \in Seq(Word)
      <3>1. sent'[u] = IF u \in fin THEN Append(s, shifting[u]) ELSE s
        BY <1>1, Zenon
      <3>2. CASE u \in fin
        BY <1>2, <2>1, <3>1, <3>2, AppendCat
      <3>3. CASE u \notin fin
        BY <2>1, <3>1, <3>3, Regroup
      <3> QED BY <3>2, <3>3
    <2>7. InShifter(u) = f \o k
      BY <1>2, <2>1, <2>3, Regroup DEF InShifter
    <2>8. shifting'[u] \in Word \cup {None} /\ InShifter(u)' = k \o l
      <3>0. Loads(u, fin) => shifting[u] = None \/ u \in fin
        BY DEF Loads
      <3>1. shifting'[u] = IF Loads(u, fin) THEN Head(t)
                           ELSE IF u \in fin THEN None ELSE shifting[u]
        BY <1>1
      <3>2. InShifter(u)' = IF shifting'[u] = None THEN <<>> ELSE <<shifting'[u]>>
        BY DEF InShifter
      <3>3. k \o <<>> = k /\ <<>> \o l = l
        BY <2>3, <2>4, Regroup
      <3> QED BY <2>1, <2>4, <3>0, <3>1, <3>2, <3>3
    <2> HIDE DEF f, k, l, r, y, t, s
    <2>9. txbuf'[u] \in Seq(Word) /\ Len(txbuf'[u]) = Len(r) + Len(y(u))
      BY <2>2, <2>4, <2>5, Cat
    <2>10. Len(txbuf'[u]) <= BufSize /\ (u # wr => Len(txbuf'[u]) <= Len(t))
      BY <2>1, <2>2, <2>4, <2>9
    <2>11. TxClock(u, wr, w)
      <3>1. Front(u)' = s \o f \o (k \o l) \o (r \o y(u))
        BY <2>5, <2>6, <2>8 DEF Front
      <3>2. Front(u) = s \o (f \o k) \o (l \o r)
        BY <2>4, <2>7 DEF Front, s, t
      <3>3. s \o f \o (k \o l) \o (r \o y(u)) = s \o (f \o k) \o (l \o r) \o y(u)
        <4>1. /\ s \in Seq(Word) /\ f \in Seq(Word) /\ k \in Seq(Word)
              /\ l \in Seq(Word) /\ r \in Seq(Word) /\ y(u) \in Seq(Word)
          BY <2>1, <2>2, <2>3, <2>4 DEF s
        <4> HIDE DEF s
        <4> DEFINE z == y(u)
        <4>2. Regroups5(s, f, k, l, r, z)
          <5> HIDE DEF z
          <5>1. z \in Seq(Word)
            BY <4>1 DEF z
          <5> QED BY <4>1, <5>1, Assoc5, Zenon
        <4> QED BY <4>2, Zenon DEF Regroups5
      <3> QED BY <3>1, <3>2, <3>3 DEF TxClock, y
    <2> QED BY <2>6, <2>8, <2>9, <2>10, <2>11 DEF t
  <1>4. /\ txbuf' \in [Uarts -> Seq(Word)] /\ shifting' \in [Uarts -> Word \cup {None}]
        /\ sent' \in [Uarts -> Seq(Word)]
    <2>1. txbuf' = [u \in Uarts |-> txbuf'[u]] /\ shifting' = [u \in Uarts |-> shifting'[u]]
          /\ sent' = [u \in Uarts |-> sent'[u]]
      BY <1>1
    <2> QED BY <1>3, <2>1
  <1> QED BY <1>3, <1>4

\* The hardware's invariant is kept by every clock in which the processor reads
\* only a buffer that holds a word and writes only one that has room.
LEMMA ClockKeeps ==
  ASSUME Hardware, work' = work,
         NEW rd \in Uarts \cup {None}, NEW wr \in Uarts \cup {None},
         NEW w \in Word, NEW clr,
         rd # None => rxbuf[rd] # <<>>,
         wr # None => Len(txbuf[wr]) < BufSize,
         Clock(rd, wr, w, clr)
  PROVE  /\ Hardware'
         /\ \A u \in Uarts : /\ RxClock(u, rd)
                             /\ rxbuf[u] # <<>> /\ u # rd => rxbuf'[u] # <<>>
                             /\ u # wr => Len(txbuf'[u]) <= Len(txbuf[u])
                             /\ TxClock(u, wr, w)
  <1>1. PICK fin \in SUBSET {u \in Uarts : MayFinish(u)} :
          /\ intr' = [u \in Uarts |-> rxbuf[u] # <<>> \/ Loads(u, fin)]
          /\ d_intr' = [u \in Uarts |-> <<d_intr[u][2], d_intr[u][3], intr[u]>>]
          /\ pending' = IF clr THEN {} ELSE Pending
          /\ mip' = (Pending # {})
    BY Zenon DEF Clock
  <1>2. intr' \in [Uarts -> BOOLEAN] /\ mip' \in BOOLEAN
    BY <1>1 DEF Loads
  <1>3. d_intr' \in [Uarts -> [1 .. 3 -> BOOLEAN]]
    <2>1. ASSUME NEW u \in Uarts
          PROVE  <<d_intr[u][2], d_intr[u][3], intr[u]>> \in [1 .. 3 -> BOOLEAN]
      BY DEF Hardware
    <2> QED BY <1>1, <2>1
  <1>4. Pending \subseteq Uarts
    BY DEF Pending, Raised, Hardware
  <1>5. pending' \subseteq Uarts
    BY <1>1, <1>4
  <1>6. work' \in Workloads /\ work'.rx = work.rx
    BY DEF Hardware
  <1>7. /\ arrived' \in [Uarts -> Nat] /\ \A u \in Uarts : arrived'[u] <= work.rx
        /\ rxbuf' \in [Uarts -> Seq(Word)]
        /\ accepted' \in [Uarts -> Seq(Word)]
        /\ \A u \in Uarts : /\ Len(rxbuf'[u]) <= BufSize
                            /\ RxClock(u, rd)
                            /\ rxbuf[u] # <<>> /\ u # rd => rxbuf'[u] # <<>>
    BY ClockRx
  <1>8. /\ txbuf' \in [Uarts -> Seq(Word)]
        /\ shifting' \in [Uarts -> Word \cup {None}]
        /\ sent' \in [Uarts -> Seq(Word)]
        /\ \A u \in Uarts :
             /\ Len(txbuf'[u]) <= BufSize
             /\ u # wr => Len(txbuf'[u]) <= Len(txbuf[u])
             /\ TxClock(u, wr, w)
    BY ClockTx
  <1>9. Hardware'
    BY <1>2, <1>3, <1>5, <1>6, <1>7, <1>8 DEF Hardware
  <1> QED BY <1>7, <1>8, <1>9

-----------------------------------------------------------------------------
(* What a step does to the words on their way *)

\* What reception on port u has come to: the ring's words between those
\* delivered and those in the hardware.
LEMMA RxTypes ==
  ASSUME Hardware, Program, NEW u \in Uarts
  PROVE  /\ delivered[u] \in Seq(Word) /\ Stored(ub_rx[u]) \in Seq(Word)
         /\ rxbuf[u] \in Seq(Word) /\ accepted[u] \in Seq(Word)
         /\ WellFormed(ub_rx[u])
  BY HeldFacts DEF Hardware, Program

\* A port whose ring the processor leaves alone.
LEMMA RxFrame ==
  ASSUME Hardware, Program, RxKept, NEW u \in Uarts, NEW rd, u # rd,
         RxClock(u, rd), ub_rx'[u] = ub_rx[u], delivered'[u] = delivered[u]
  PROVE  delivered'[u] \o Stored(ub_rx'[u]) \o rxbuf'[u] = accepted'[u]
  <1>1. PICK x \in Seq(Word) : /\ rxbuf'[u] = rxbuf[u] \o x
                               /\ accepted'[u] = accepted[u] \o x
    BY DEF RxClock
  <1> DEFINE p == delivered[u] \o Stored(ub_rx[u])
  <1>2. p \in Seq(Word) /\ rxbuf[u] \in Seq(Word) /\ p \o rxbuf[u] = accepted[u]
    BY RxTypes, Cat DEF RxKept
  <1> HIDE DEF p
  <1>3. p \o (rxbuf[u] \o x) = (p \o rxbuf[u]) \o x
    <2>1. Regroups(p, rxbuf[u], x)
      BY <1>2, Assoc, SMTT(30)
    <2> QED BY <2>1, Zenon DEF Regroups
  <1> QED BY <1>1, <1>2, <1>3 DEF p

\* The handler moves a word from the hardware to the ring.
LEMMA RxMoves ==
  ASSUME Hardware, Program, RxKept, NEW u \in Uarts,
         RxClock(u, u), rxbuf[u] # <<>>, ~ub_rx[u].full,
         ub_rx'[u] = WriteRing(ub_rx[u], ub_rx[u], Head(rxbuf[u])),
         delivered'[u] = delivered[u]
  PROVE  delivered'[u] \o Stored(ub_rx'[u]) \o rxbuf'[u] = accepted'[u]
  <1>1. PICK x \in Seq(Word) : /\ rxbuf'[u] = Tail(rxbuf[u]) \o x
                               /\ accepted'[u] = accepted[u] \o x
    BY DEF RxClock
  <1> DEFINE d == delivered[u]  h == Stored(ub_rx[u])
             c == <<Head(rxbuf[u])>>  t == Tail(rxbuf[u])
  <1>2. /\ d \in Seq(Word) /\ h \in Seq(Word) /\ WellFormed(ub_rx[u])
        /\ Head(rxbuf[u]) \in Word /\ t \in Seq(Word) /\ c \in Seq(Word)
        /\ c \o t = rxbuf[u] /\ d \o h \o (c \o t) = accepted[u]
    BY RxTypes, HeadThenTail DEF RxKept
  <1>3. Stored(ub_rx'[u]) = h \o c
    BY <1>2, WriteRingAdds, AppendCat
  <1> HIDE DEF d, h, c, t
  <1>4. d \o h \in Seq(Word) /\ d \o h \o c \in Seq(Word)
    <2>1. d \o h \in Seq(Word)
      BY <1>2, Cat
    <2> QED BY <1>2, <2>1, Cat
  <1>5. d \o (h \o c) = d \o h \o c
    <2>1. d \in Seq(Word) /\ h \in Seq(Word) /\ c \in Seq(Word)
      BY <1>2
    <2>2. Regroups(d, h, c)
      BY <2>1, Assoc
    <2> QED BY <2>2, Zenon DEF Regroups
  <1>6. d \o h \o c \o (t \o x) = d \o h \o c \o t \o x
    <2> DEFINE p == d \o h \o c
    <2>1. p \in Seq(Word)
      BY <1>4
    <2> HIDE DEF p
    <2>2. p \o (t \o x) = p \o t \o x
      <3>1. Regroups(p, t, x)
        BY <1>2, <2>1, Assoc
      <3> QED BY <3>1, Zenon DEF Regroups
    <2> QED BY <2>2, Zenon DEF p
  <1>7. d \o h \o (c \o t) = d \o h \o c \o t
    <2> DEFINE p == d \o h
    <2>1. p \in Seq(Word)
      BY <1>4
    <2> HIDE DEF p
    <2>2. p \o (c \o t) = p \o c \o t
      <3>1. Regroups(p, c, t)
        BY <1>2, <2>1, Assoc
      <3> QED BY <3>1, Zenon DEF Regroups
    <2> QED BY <2>2, Zenon DEF p
  <1>8. delivered'[u] \o Stored(ub_rx'[u]) \o rxbuf'[u] = d \o (h \o c) \o (t \o x)
    BY <1>1, <1>3 DEF d, t
  <1> QED BY <1>1, <1>2, <1>5, <1>6, <1>7, <1>8

\* getch takes the oldest word of the ring.
LEMMA RxDelivers ==
  ASSUME Hardware, Program, RxKept, NEW u \in Uarts, NEW rd, u # rd,
         RxClock(u, rd), ub_rx[u].not_empty,
         ub_rx'[u] = ReadRing(ub_rx[u], ub_rx[u]),
         delivered'[u] = Append(delivered[u], Oldest(ub_rx[u]))
  PROVE  delivered'[u] \o Stored(ub_rx'[u]) \o rxbuf'[u] = accepted'[u]
  <1>1. PICK x \in Seq(Word) : /\ rxbuf'[u] = rxbuf[u] \o x
                               /\ accepted'[u] = accepted[u] \o x
    BY DEF RxClock
  <1> DEFINE d == delivered[u]  h == Stored(ub_rx[u])
             c == <<Head(h)>>  t == Tail(h)  b == rxbuf[u]
  <1>2. /\ d \in Seq(Word) /\ h \in Seq(Word) /\ WellFormed(ub_rx[u]) /\ h # <<>>
        /\ Oldest(ub_rx[u]) = Head(h) /\ Oldest(ub_rx[u]) \in Word
        /\ b \in Seq(Word)
    BY RxTypes, HeldFacts
  <1>3. /\ t \in Seq(Word) /\ c \in Seq(Word) /\ c \o t = h
        /\ d \o (c \o t) \o b = accepted[u]
    BY <1>2, HeadThenTail DEF RxKept
  <1>4. Stored(ub_rx'[u]) = t /\ delivered'[u] = d \o c
    BY <1>2, ReadRingTakes, AppendCat
  <1> HIDE DEF d, h, c, t, b
  <1>5. d \o (c \o t) = d \o c \o t
    <2>1. d \in Seq(Word) /\ c \in Seq(Word) /\ t \in Seq(Word)
      BY <1>2, <1>3
    <2>2. Regroups(d, c, t)
      BY <2>1, Assoc
    <2> QED BY <2>2, Zenon DEF Regroups
  <1>6. d \o c \o t \o (b \o x) = d \o c \o t \o b \o x
    <2> DEFINE p == d \o c \o t
    <2>1. p \in Seq(Word)
      BY <1>2, <1>3, Cat
    <2>2. b \in Seq(Word) /\ x \in Seq(Word)
      BY <1>1, <1>2
    <2> HIDE DEF p
    <2>3. p \o (b \o x) = p \o b \o x
      <3>1. Regroups(p, b, x)
        BY <2>1, <2>2, Assoc
      <3> QED BY <3>1, Zenon DEF Regroups
    <2> QED BY <2>3, Zenon DEF p
  <1>7. delivered'[u] \o Stored(ub_rx'[u]) \o rxbuf'[u] = d \o c \o t \o (b \o x)
    BY <1>1, <1>4 DEF b
  <1> QED BY <1>1, <1>3, <1>5, <1>6, <1>7

\* What transmission on port u has come to.
LEMMA TxTypes ==
  ASSUME Hardware, Program, NEW u \in Uarts
  PROVE  /\ Front(u) \in Seq(Word) /\ InHand(u) \in Seq(Word)
         /\ Stored(ub_tx[u]) \in Seq(Word) /\ WellFormed(ub_tx[u])
         /\ put[u] \in Nat /\ 1 .. put[u] \subseteq Word
  <1>1. sent[u] \in Seq(Word) /\ InShifter(u) \in Seq(Word) /\ txbuf[u] \in Seq(Word)
    BY Singleton DEF Hardware, InShifter
  <1>2. Front(u) \in Seq(Word)
    BY <1>1, Cat DEF Front
  <1>3. InHand(u) \in Seq(Word)
    BY Singleton DEF Program, InHand
  <1>4. put[u] \in Nat /\ 1 .. put[u] \subseteq Word
    BY Numbers DEF Program
  <1> QED BY <1>2, <1>3, <1>4, HeldFacts DEF Program

\* A port whose ring and hand are left alone.
LEMMA TxFrame ==
  ASSUME Hardware, Program, TxKept, NEW u \in Uarts, NEW wr, NEW w, u # wr,
         TxClock(u, wr, w), ub_tx'[u] = ub_tx[u], put'[u] = put[u],
         InHand(u)' = InHand(u)
  PROVE  Front(u)' \o InHand(u)' \o Stored(ub_tx'[u]) = [k \in 1 .. put'[u] |-> k]
  <1>1. Front(u)' = Front(u)
    BY TxTypes, Regroup DEF TxClock
  <1> QED BY <1>1 DEF TxKept, Front

\* The handler moves the oldest word of the ring to the hardware.
LEMMA TxMoves ==
  ASSUME Hardware, Program, TxKept, NEW u \in Uarts,
         ub_tx[u].not_empty, TxClock(u, u, Oldest(ub_tx[u])),
         ub_tx'[u] = ReadRing(ub_tx[u], ub_tx[u]), put'[u] = put[u],
         InHand(u) = <<>>, InHand(u)' = <<>>
  PROVE  Front(u)' \o InHand(u)' \o Stored(ub_tx'[u]) = [k \in 1 .. put'[u] |-> k]
  <1> DEFINE f == Front(u)  h == Stored(ub_tx[u])  c == <<Head(h)>>  t == Tail(h)
  <1>1. /\ f \in Seq(Word) /\ h \in Seq(Word) /\ WellFormed(ub_tx[u]) /\ h # <<>>
        /\ Oldest(ub_tx[u]) = Head(h)
    BY TxTypes, HeldFacts
  <1>2. c \in Seq(Word) /\ t \in Seq(Word) /\ c \o t = h
    BY <1>1, HeadThenTail
  <1>3. f \o <<>> \o h = [k \in 1 .. put[u] |-> k]
    BY DEF TxKept, Front
  <1>4. Front(u)' = f \o c /\ Stored(ub_tx'[u]) = t
    BY <1>1, ReadRingTakes DEF TxClock
  <1> HIDE DEF f, h, c, t
  <1>5. f \o <<>> = f /\ f \o c \o <<>> = f \o c
    <2>1. f \o c \in Seq(Word)
      BY <1>1, <1>2, Cat
    <2> QED BY <1>1, <2>1, Regroup
  <1>6. f \o (c \o t) = f \o c \o t
    <2>1. f \in Seq(Word) /\ c \in Seq(Word) /\ t \in Seq(Word)
      BY <1>1, <1>2
    <2>2. Regroups(f, c, t)
      BY <2>1, Assoc
    <2> QED BY <2>2, Zenon DEF Regroups
  <1> QED BY <1>2, <1>3, <1>4, <1>5, <1>6

\* putch adds the next character to the ring.
LEMMA TxAdds ==
  ASSUME Hardware, Program, TxKept, NEW u \in Uarts, NEW wr, NEW w, u # wr,
         TxClock(u, wr, w), ~ub_tx[u].full, put[u] + 1 \in Word,
         put'[u] = put[u] + 1,
         ub_tx'[u] = WriteRing(ub_tx[u], ub_tx[u], put[u] + 1),
         InHand(u)' = InHand(u)
  PROVE  Front(u)' \o InHand(u)' \o Stored(ub_tx'[u]) = [k \in 1 .. put'[u] |-> k]
  <1> DEFINE p == Front(u) \o InHand(u)  h == Stored(ub_tx[u])  c == <<put[u] + 1>>
  <1>1. Front(u)' = Front(u)
    BY TxTypes, Regroup DEF TxClock
  <1>2. /\ p \in Seq(Word) /\ h \in Seq(Word) /\ WellFormed(ub_tx[u])
        /\ p \o h = [k \in 1 .. put[u] |-> k]
    BY TxTypes, Cat DEF TxKept, Front
  <1>3. c \in Seq(Word) /\ Stored(ub_tx'[u]) = h \o c
    <2>1. Stored(ub_tx'[u]) = Append(h, put[u] + 1)
      BY <1>2, WriteRingAdds
    <2> HIDE DEF h
    <2>2. c \in Seq(Word)
      BY Singleton
    <2>3. Append(h, put[u] + 1) = h \o c
      BY <1>2, AppendCat
    <2> QED BY <2>1, <2>2, <2>3
  <1>4. [k \in 1 .. put'[u] |-> k] = [k \in 1 .. put[u] |-> k] \o c
    <2>1. put[u] \in Nat /\ 1 .. put[u] + 1 \subseteq Word
      BY TxTypes
    <2> QED BY <2>1, CountUp
  <1> HIDE DEF p, h, c
  <1>5. p \o (h \o c) = p \o h \o c
    <2>1. Regroups(p, h, c)
      BY <1>2, <1>3, Assoc
    <2> QED BY <2>1, Zenon DEF Regroups
  <1> QED BY <1>1, <1>2, <1>3, <1>4, <1>5 DEF p

\* putch takes the oldest word of the ring into its hand.
LEMMA TxTakes ==
  ASSUME Hardware, Program, TxKept, NEW u \in Uarts, NEW wr, NEW w, u # wr,
         TxClock(u, wr, w), ub_tx[u].not_empty, put'[u] = put[u],
         ub_tx'[u] = ReadRing(ub_tx[u], ub_tx[u]),
         InHand(u) = <<>>, InHand(u)' = <<Oldest(ub_tx[u])>>
  PROVE  Front(u)' \o InHand(u)' \o Stored(ub_tx'[u]) = [k \in 1 .. put'[u] |-> k]
  <1> DEFINE f == Front(u)  h == Stored(ub_tx[u])  c == <<Head(h)>>  t == Tail(h)
  <1>1. /\ f \in Seq(Word) /\ h \in Seq(Word) /\ WellFormed(ub_tx[u]) /\ h # <<>>
        /\ Oldest(ub_tx[u]) = Head(h)
    BY TxTypes, HeldFacts
  <1>2. c \in Seq(Word) /\ t \in Seq(Word) /\ c \o t = h
    BY <1>1, HeadThenTail
  <1>3. f \o <<>> \o h = [k \in 1 .. put[u] |-> k]
    BY DEF TxKept, Front
  <1>4. Front(u)' = f /\ InHand(u)' = c /\ Stored(ub_tx'[u]) = t
    BY <1>1, ReadRingTakes, Regroup DEF TxClock
  <1> HIDE DEF f, h, c, t
  <1>5. f \o <<>> = f
    BY <1>1, Regroup
  <1>6. f \o (c \o t) = f \o c \o t
    <2>1. f \in Seq(Word) /\ c \in Seq(Word) /\ t \in Seq(Word)
      BY <1>1, <1>2
    <2>2. Regroups(f, c, t)
      BY <2>1, Assoc
    <2> QED BY <2>2, Zenon DEF Regroups
  <1> QED BY <1>2, <1>3, <1>4, <1>5, <1>6

\* putch writes the word in its hand.
LEMMA TxWrites ==
  ASSUME Hardware, Program, TxKept, NEW u \in Uarts,
         TxClock(u, u, ch), InHand(u) = <<ch>>, InHand(u)' = <<>>,
         ub_tx'[u] = ub_tx[u], put'[u] = put[u]
  PROVE  Front(u)' \o InHand(u)' \o Stored(ub_tx'[u]) = [k \in 1 .. put'[u] |-> k]
  <1> DEFINE f == Front(u)  h == Stored(ub_tx[u])  c == <<ch>>
  <1>1. f \in Seq(Word) /\ c \in Seq(Word)
    BY TxTypes
  <1>2. f \o c \o h = [k \in 1 .. put[u] |-> k]
    BY DEF TxKept, Front
  <1>3. Front(u)' = f \o c
    BY DEF TxClock
  <1> HIDE DEF f, h, c
  <1>4. f \o c \o <<>> = f \o c
    <2>1. f \o c \in Seq(Word)
      BY <1>1, Cat
    <2> QED BY <2>1, Regroup
  <1> QED BY <1>2, <1>3, <1>4 DEF h

-----------------------------------------------------------------------------
(* One lemma for each kind of step *)

\* A clock in which the processor touches neither a ring nor a data register.
LEMMA Idle ==
  ASSUME IInv, work' = work, NEW clr, Clock(None, None, 0, clr),
         UNCHANGED <<ub_rx, ub_tx, delivered, put>>,
         \A u \in Uarts : InHand(u)' = InHand(u)
  PROVE  /\ Hardware' /\ RxKept' /\ TxKept'
         /\ \A u \in Uarts :
              /\ rxbuf[u] # <<>> => rxbuf'[u] # <<>>
              /\ Len(txbuf[u]) < BufSize => Len(txbuf'[u]) < BufSize
  <1>1. 0 \in Word /\ None \notin Uarts /\ BufSize \in Nat
    BY Numbers DEF IInv
  <1>2. /\ Hardware'
        /\ \A u \in Uarts : /\ RxClock(u, None)
                            /\ rxbuf[u] # <<>> => rxbuf'[u] # <<>>
                            /\ Len(txbuf'[u]) <= Len(txbuf[u])
                            /\ TxClock(u, None, 0)
    BY <1>1, ClockKeeps DEF IInv
  <1>3. ASSUME NEW u \in Uarts
        PROVE  delivered'[u] \o Stored(ub_rx'[u]) \o rxbuf'[u] = accepted'[u]
    BY <1>1, <1>2, RxFrame DEF IInv
  <1>4. ASSUME NEW u \in Uarts
        PROVE  Front(u)' \o InHand(u)' \o Stored(ub_tx'[u]) = [k \in 1 .. put'[u] |-> k]
    BY <1>1, <1>2, TxFrame DEF IInv
  <1>5. RxKept'
    BY <1>3 DEF RxKept
  <1>6. TxKept'
    BY <1>4 DEF TxKept, Front
  <1>7. ASSUME NEW u \in Uarts, Len(txbuf[u]) < BufSize
        PROVE  Len(txbuf'[u]) < BufSize
    <2>1. Len(txbuf[u]) \in Nat /\ Len(txbuf'[u]) \in Nat
      BY <1>2 DEF IInv, Hardware
    <2> QED BY <1>1, <1>2, <1>7, <2>1
  <1> QED BY <1>2, <1>5, <1>6, <1>7

LEMMA ServingIsRaised ==
  ASSUME irq \subseteq Uarts, irq # {}
  PROVE  Serving \in irq /\ Serving \in Uarts
  <1>0. irq \subseteq {0, 1}
    BY PortAssumption
  <1>1. \E u \in irq : \A v \in irq : u <= v
    <2>1. CASE 0 \in irq
      BY <1>0, <2>1
    <2>2. CASE 0 \notin irq
      <3>1. irq = {1}
        BY <1>0, <2>2
      <3> QED BY <3>1
    <2> QED BY <2>1, <2>2
  <1> QED BY <1>1 DEF Serving

\* The handler's steps that touch no ring.
LEMMA HandlerSteps ==
  ASSUME IInv, work' = work, Trap \/ ReadIrq \/ TxLoop \/ RxLoop \/ ClearIrq \/ Mret
  PROVE  IInv'
  <1>1. /\ UNCHANGED <<ub_rx, ub_tx, mainvars>>
        /\ \E clr : Clock(None, None, 0, clr)
    BY DEF Trap, ReadIrq, TxLoop, RxLoop, ClearIrq, Mret, NoAccess
  <1>2. UNCHANGED <<ub_rx, ub_tx, main, chan, loaded, ch, prv_mstatus, delivered, put>>
    BY <1>1 DEF mainvars
  <1>3. \A u \in Uarts : InHand(u)' = InHand(u)
    BY <1>2 DEF InHand
  <1>4. /\ Hardware' /\ RxKept' /\ TxKept'
        /\ \A u \in Uarts :
             /\ rxbuf[u] # <<>> => rxbuf'[u] # <<>>
             /\ Len(txbuf[u]) < BufSize => Len(txbuf'[u]) < BufSize
    BY <1>1, <1>2, <1>3, Idle
  <1>5. irq' \subseteq Uarts /\ hpc' \in HandlerPoints /\ mie' \in BOOLEAN
    BY DEF Trap, ReadIrq, TxLoop, RxLoop, ClearIrq, Mret, Handler, Pending, Raised,
           IInv, Program, Hardware, HandlerPoints
  <1>6. Program'
    BY <1>2, <1>5, work' = work DEF IInv, Program, WellFormed
  <1>7. Exclusion'
    <2>1. Exclusion /\ mie \in BOOLEAN /\ main' = main /\ prv_mstatus' = prv_mstatus
      BY <1>2 DEF IInv, Program
    <2>2. CASE hpc # "off" /\ hpc' # "off" /\ mie' = mie
      BY <2>1, <2>2 DEF Exclusion
    <2>3. CASE Trap
      BY <2>1, <2>3 DEF Trap, Exclusion
    <2>4. CASE Mret
      BY <2>1, <2>4 DEF Mret, Handler, Exclusion
    <2> QED BY <2>2, <2>3, <2>4 DEF ReadIrq, TxLoop, RxLoop, ClearIrq, Handler
  <1>8. MainKnows'
    BY <1>2, <1>4, work' = work DEF IInv, MainKnows, Program
  <1>9. HandlerKnows'
    <2>1. irq' = irq => Serving' = Serving
      BY DEF Serving
    <2>2. irq # {} => Serving \in Uarts
      BY ServingIsRaised DEF IInv, Program
    <2> QED BY <1>2, <1>4, <2>1, <2>2
            DEF Trap, ReadIrq, TxLoop, RxLoop, ClearIrq, Mret, Handler, IInv, HandlerKnows
  <1> QED BY <1>4, <1>6, <1>7, <1>8, <1>9 DEF IInv

\* The handler writes the oldest word of the transmit ring to the hardware.
LEMMA TxDataStep ==
  ASSUME IInv, work' = work, TxData
  PROVE  IInv'
  <1>0. PICK u : u = Serving
    OBVIOUS
  <1>1. /\ u \in Uarts /\ u # None /\ hpc = "txdata" /\ hpc' = "tx" /\ irq' = irq /\ irq # {}
        /\ Len(txbuf[u]) < BufSize /\ ub_tx[u].not_empty /\ WellFormed(ub_tx[u])
        /\ Oldest(ub_tx[u]) \in Word /\ None \notin Uarts
        /\ main \notin Closed /\ mie = FALSE
    <2>1. hpc = "txdata" /\ hpc' = "tx" /\ irq' = irq /\ Len(txbuf[u]) < BufSize
      BY <1>0 DEF TxData, Handler
    <2>2. u \in Uarts /\ irq # {} /\ None \notin Uarts
      BY <1>0, <2>1, ServingIsRaised, Numbers DEF IInv, HandlerKnows, Program
    <2>3. ub_tx[u].not_empty /\ main \notin Closed /\ mie = FALSE
      BY <1>0, <2>1 DEF IInv, HandlerKnows, Exclusion, Program
    <2>4. WellFormed(ub_tx[u])
      BY <2>2 DEF IInv, Program
    <2> QED BY <2>1, <2>2, <2>3, <2>4, HeldFacts
  <1>2. /\ ub_tx' = [ub_tx EXCEPT ![u] = ReadRing(ub_tx[u], ub_tx[u])]
        /\ Clock(None, u, Oldest(ub_tx[u]), FALSE)
        /\ mie' = mie /\ ub_rx' = ub_rx
        /\ UNCHANGED <<main, chan, loaded, ch, prv_mstatus, delivered, put>>
    BY <1>0 DEF TxData, mainvars
  <1>3. /\ Hardware'
        /\ \A v \in Uarts : /\ RxClock(v, None)
                            /\ v # u => Len(txbuf'[v]) <= Len(txbuf[v])
                            /\ TxClock(v, u, Oldest(ub_tx[u]))
    BY <1>1, <1>2, ClockKeeps DEF IInv
  <1>4. \A v \in Uarts : InHand(v) = <<>> /\ InHand(v)' = <<>>
    BY <1>1, <1>2 DEF InHand, Closed
  <1>5. ub_tx \in [Uarts -> RingType]
    BY DEF IInv, Program
  <1>6. \A v \in Uarts : ub_tx'[v] = IF v = u THEN ReadRing(ub_tx[u], ub_tx[u]) ELSE ub_tx[v]
    BY <1>2, <1>5
  <1>7. WellFormed(ub_tx'[u]) /\ ~ub_tx'[u].full
    BY <1>1, <1>6, ReadRingTakes
  <1>8. RxKept'
    <2>1. ASSUME NEW v \in Uarts
          PROVE  delivered'[v] \o Stored(ub_rx'[v]) \o rxbuf'[v] = accepted'[v]
      BY <1>1, <1>2, <1>3, RxFrame DEF IInv
    <2> QED BY <2>1 DEF RxKept
  <1>9. TxKept'
    <2>1. ASSUME NEW v \in Uarts, v # u
          PROVE  Front(v)' \o InHand(v)' \o Stored(ub_tx'[v]) = [k \in 1 .. put'[v] |-> k]
      BY <1>2, <1>3, <1>4, <1>6, <2>1, TxFrame DEF IInv
    <2>2. Front(u)' \o InHand(u)' \o Stored(ub_tx'[u]) = [k \in 1 .. put'[u] |-> k]
      BY <1>1, <1>2, <1>3, <1>4, <1>6, TxMoves DEF IInv
    <2> QED BY <2>1, <2>2 DEF TxKept, Front
  <1>10. Program'
    <2>1. \A v \in Uarts : WellFormed(ub_tx'[v]) /\ ub_tx'[v] \in RingType
      BY <1>6, <1>7 DEF IInv, Program, WellFormed
    <2>2. ub_tx' \in [Uarts -> RingType]
      BY <1>2, <1>5, <2>1
    <2> QED BY <1>1, <1>2, <2>1, <2>2, work' = work DEF IInv, Program, HandlerPoints
  <1>11. Exclusion'
    BY <1>1, <1>2 DEF IInv, Exclusion
  <1>12. MainKnows'
    BY <1>1, <1>2, <1>6, <1>7, work' = work DEF IInv, MainKnows, Program, Closed
  <1>13. HandlerKnows'
    BY <1>1 DEF HandlerKnows
  <1> QED BY <1>3, <1>8, <1>9, <1>10, <1>11, <1>12, <1>13 DEF IInv

\* The handler reads a word from the hardware into the receive ring.
LEMMA RxDataStep ==
  ASSUME IInv, work' = work, RxData
  PROVE  IInv'
  <1> DEFINE u == Serving  w == Head(rxbuf[u])
  <1>1. /\ u \in Uarts /\ hpc = "rxdata" /\ hpc' = "rx" /\ irq' = irq /\ irq # {}
        /\ rxbuf[u] # <<>> /\ ~ub_rx[u].full /\ WellFormed(ub_rx[u])
        /\ w \in Word /\ None \notin Uarts /\ 0 \in Word
        /\ main \notin Closed /\ mie = FALSE
    <2>1. hpc = "rxdata" /\ hpc' = "rx" /\ irq' = irq /\ rxbuf[u] # <<>>
      BY DEF RxData, Handler
    <2>2. u \in Uarts /\ irq # {} /\ None \notin Uarts /\ 0 \in Word
      BY <2>1, ServingIsRaised, Numbers DEF IInv, HandlerKnows, Program
    <2>3. ~ub_rx[u].full /\ main \notin Closed /\ mie = FALSE
      BY <2>1 DEF IInv, HandlerKnows, Exclusion, Program
    <2>4. WellFormed(ub_rx[u]) /\ rxbuf[u] \in Seq(Word)
      BY <2>2 DEF IInv, Program, Hardware
    <2> QED BY <2>1, <2>2, <2>3, <2>4, HeadThenTail
  <1>2. /\ ub_rx' = [ub_rx EXCEPT ![u] = WriteRing(ub_rx[u], ub_rx[u], w)]
        /\ Clock(u, None, 0, FALSE)
        /\ mie' = mie /\ ub_tx' = ub_tx
        /\ UNCHANGED <<main, chan, loaded, ch, prv_mstatus, delivered, put>>
    BY DEF RxData, mainvars
  <1>3. /\ Hardware'
        /\ \A v \in Uarts : /\ RxClock(v, u)
                            /\ Len(txbuf'[v]) <= Len(txbuf[v])
                            /\ TxClock(v, None, 0)
    BY <1>1, <1>2, ClockKeeps DEF IInv
  <1>4. \A v \in Uarts : InHand(v)' = InHand(v)
    BY <1>2 DEF InHand
  <1>5. ub_rx \in [Uarts -> RingType]
    BY DEF IInv, Program
  <1>6. \A v \in Uarts : ub_rx'[v] = IF v = u THEN WriteRing(ub_rx[u], ub_rx[u], w)
                                     ELSE ub_rx[v]
    BY <1>2, <1>5
  <1>7. WellFormed(ub_rx'[u]) /\ ub_rx'[u].not_empty
    BY <1>1, <1>6, WriteRingAdds
  <1>8. RxKept'
    <2>1. ASSUME NEW v \in Uarts, v # u
          PROVE  delivered'[v] \o Stored(ub_rx'[v]) \o rxbuf'[v] = accepted'[v]
      BY <1>2, <1>3, <1>6, <2>1, RxFrame DEF IInv
    <2>2. delivered'[u] \o Stored(ub_rx'[u]) \o rxbuf'[u] = accepted'[u]
      BY <1>1, <1>2, <1>3, <1>6, RxMoves DEF IInv
    <2> QED BY <2>1, <2>2 DEF RxKept
  <1>9. TxKept'
    <2>1. ASSUME NEW v \in Uarts
          PROVE  Front(v)' \o InHand(v)' \o Stored(ub_tx'[v]) = [k \in 1 .. put'[v] |-> k]
      BY <1>1, <1>2, <1>3, <1>4, TxFrame DEF IInv
    <2> QED BY <2>1 DEF TxKept, Front
  <1> HIDE DEF u, w
  <1>10. Program'
    <2>1. \A v \in Uarts : WellFormed(ub_rx'[v]) /\ ub_rx'[v] \in RingType
      BY <1>6, <1>7 DEF IInv, Program, WellFormed
    <2>2. ub_rx' \in [Uarts -> RingType]
      BY <1>2, <1>5, <2>1
    <2> QED BY <1>1, <1>2, <2>1, <2>2, work' = work DEF IInv, Program, HandlerPoints
  <1>11. Exclusion'
    BY <1>1, <1>2 DEF IInv, Exclusion
  <1>12. MainKnows'
    BY <1>1, <1>2, <1>6, <1>7, work' = work DEF IInv, MainKnows, Program, Closed
  <1>13. HandlerKnows'
    BY <1>1 DEF HandlerKnows
  <1> QED BY <1>3, <1>8, <1>9, <1>10, <1>11, <1>12, <1>13 DEF IInv

\* The steps of main that touch no ring, and a clock of the hardware alone.
MainAlone ==
  \/ \E u \in Uarts : CallGetch(u) \/ CallPutch(u)
  \/ GetchWaits \/ PutchWaits \/ PutchStatus
  \/ Save("g_enter", "g_mask") \/ Save("p_enter", "p_mask")
  \/ Mask("g_mask", "g_load") \/ Mask("p_mask", "p_load")
  \/ Restore("g_leave", "ready") \/ Restore("p_leave", "ready")
  \/ Load("g_load", "g_store", ub_rx[chan]) \/ Load("p_load", "p_store", ub_tx[chan])
  \/ Load("p_load2", "p_pop", ub_tx[chan])

LEMMA TickStep ==
  ASSUME IInv, work' = work, Tick
  PROVE  IInv'
  <1>1. /\ Clock(None, None, 0, FALSE)
        /\ UNCHANGED <<mie, ub_rx, ub_tx, hpc, irq>>
        /\ UNCHANGED <<main, chan, loaded, ch, prv_mstatus, delivered, put>>
    BY DEF Tick, NoAccess, mainvars, hvars
  <1>2. \A u \in Uarts : InHand(u)' = InHand(u)
    BY <1>1 DEF InHand
  <1>3. /\ Hardware' /\ RxKept' /\ TxKept'
        /\ \A u \in Uarts :
             /\ rxbuf[u] # <<>> => rxbuf'[u] # <<>>
             /\ Len(txbuf[u]) < BufSize => Len(txbuf'[u]) < BufSize
    BY <1>1, <1>2, Idle
  <1>4. Program' /\ Exclusion'
    BY <1>1, work' = work DEF IInv, Program, WellFormed, Exclusion
  <1>5. MainKnows'
    BY <1>1, <1>3, work' = work DEF IInv, MainKnows, Program
  <1>6. HandlerKnows'
    <2>1. Serving' = Serving
      BY <1>1 DEF Serving
    <2>2. irq # {} => Serving \in Uarts
      BY ServingIsRaised DEF IInv, Program
    <2> QED BY <1>1, <1>3, <2>1, <2>2 DEF IInv, HandlerKnows
  <1> QED BY <1>3, <1>4, <1>5, <1>6 DEF IInv

LEMMA MainSteps ==
  ASSUME IInv, work' = work, MainAlone
  PROVE  IInv'
  <1> USE DEF MainAlone, CallGetch, CallPutch, GetchWaits, PutchWaits, PutchStatus,
              Save, Mask, Restore, Load, Main
  <1>1. /\ Clock(None, None, 0, FALSE)
        /\ UNCHANGED <<ub_rx, ub_tx, hpc, irq, delivered, put>>
        /\ hpc = "off" /\ main # "p_data" /\ main' # "p_data"
        /\ main' \in MainPoints /\ chan' \in Uarts
    BY DEF NoAccess, hvars, IInv, Program, MainPoints
  <1>2. \A u \in Uarts : InHand(u)' = InHand(u)
    BY <1>1 DEF InHand
  <1>3. /\ Hardware' /\ RxKept' /\ TxKept'
        /\ \A u \in Uarts :
             /\ rxbuf[u] # <<>> => rxbuf'[u] # <<>>
             /\ Len(txbuf[u]) < BufSize => Len(txbuf'[u]) < BufSize
    BY <1>1, <1>2, Idle
  <1>4. mie' \in BOOLEAN /\ prv_mstatus' \in BOOLEAN
    BY DEF IInv, Program
  <1>5. loaded' \in RingType /\ ch' \in Word
    <2>1. ASSUME NEW ub, WellFormed(ub), ub.not_empty \/ 0 \in Word
          PROVE  Oldest(ub) \in Word
      <3>1. CASE ub.not_empty
        BY <2>1, <3>1, HeldFacts
      <3>2. CASE ~ub.not_empty
        BY <2>1, <3>2 DEF Oldest
      <3> QED BY <3>1, <3>2
    <2>2. 0 \in Word
      BY Numbers DEF IInv
    <2>3. /\ WellFormed(ub_rx[chan]) /\ WellFormed(ub_tx[chan])
          /\ loaded \in RingType /\ ch \in Word
          /\ ub_rx[chan] \in RingType /\ ub_tx[chan] \in RingType
      BY DEF IInv, Program
    <2>4. Oldest(ub_rx[chan]) \in Word /\ Oldest(ub_tx[chan]) \in Word
      BY <2>1, <2>2, <2>3
    <2> QED BY <2>3, <2>4
  <1>6. Program'
    BY <1>1, <1>4, <1>5, work' = work DEF IInv, Program, WellFormed
  <1>7. Exclusion'
    BY <1>1 DEF IInv, Program, Exclusion, Closed
  <1>8. MainKnows'
    BY <1>1, <1>3, work' = work DEF IInv, Program, MainKnows
  <1>9. HandlerKnows'
    BY <1>1 DEF HandlerKnows
  <1> QED BY <1>3, <1>6, <1>7, <1>8, <1>9 DEF IInv

\* In the critical section the handler is off and the port is one in use.
LEMMA Section ==
  ASSUME IInv, main \in Closed
  PROVE  /\ hpc = "off" /\ mie = FALSE /\ prv_mstatus = TRUE
         /\ chan \in Uarts /\ None \notin Uarts /\ 0 \in Word
         /\ WellFormed(ub_rx[chan]) /\ WellFormed(ub_tx[chan])
         /\ ub_rx \in [Uarts -> RingType] /\ ub_tx \in [Uarts -> RingType]
  BY Numbers DEF IInv, Program, Exclusion

LEMMA GetchStoreStep ==
  ASSUME IInv, work' = work, GetchStore
  PROVE  IInv'
  <1>0. PICK u : u = chan
    OBVIOUS
  <1>1. /\ main = "g_store" /\ main' = "g_leave"
        /\ UNCHANGED <<hpc, irq, chan, loaded, ch, prv_mstatus, put, mie, ub_tx>>
        /\ Clock(None, None, 0, FALSE)
    BY DEF GetchStore, Main, NoAccess, hvars
  <1>2. /\ hpc = "off" /\ mie = FALSE /\ prv_mstatus = TRUE
        /\ u \in Uarts /\ None \notin Uarts /\ 0 \in Word
        /\ WellFormed(ub_rx[u]) /\ ub_rx \in [Uarts -> RingType]
        /\ ub_rx[u].not_empty /\ loaded = ub_rx[u] /\ ch = Oldest(ub_rx[u])
    BY <1>0, <1>1, Section DEF IInv, MainKnows, Closed
  <1>3. /\ ub_rx' = [ub_rx EXCEPT ![u] = ReadRing(ub_rx[u], ub_rx[u])]
        /\ delivered' = [delivered EXCEPT ![u] = Append(delivered[u], Oldest(ub_rx[u]))]
    BY <1>0, <1>2 DEF GetchStore
  <1>4. /\ Hardware'
        /\ \A v \in Uarts : RxClock(v, None) /\ TxClock(v, None, 0)
    BY <1>1, <1>2, ClockKeeps DEF IInv
  <1>5. \A v \in Uarts : InHand(v)' = InHand(v)
    BY <1>1 DEF InHand
  <1>6. WellFormed(ReadRing(ub_rx[u], ub_rx[u])) /\ Oldest(ub_rx[u]) \in Word
    BY <1>2, ReadRingTakes, HeldFacts
  <1>7. delivered \in [Uarts -> Seq(Word)]
    BY DEF IInv, Program
  <1>8. \A v \in Uarts :
          /\ ub_rx'[v] = IF v = u THEN ReadRing(ub_rx[u], ub_rx[u]) ELSE ub_rx[v]
          /\ delivered'[v] = IF v = u THEN Append(delivered[u], Oldest(ub_rx[u]))
                             ELSE delivered[v]
    BY <1>2, <1>3, <1>7
  <1>9. RxKept'
    <2>1. ASSUME NEW v \in Uarts, v # u
          PROVE  delivered'[v] \o Stored(ub_rx'[v]) \o rxbuf'[v] = accepted'[v]
      BY <1>2, <1>4, <1>8, <2>1, RxFrame DEF IInv
    <2>2. delivered'[u] \o Stored(ub_rx'[u]) \o rxbuf'[u] = accepted'[u]
      BY <1>2, <1>4, <1>8, RxDelivers DEF IInv
    <2> QED BY <2>1, <2>2 DEF RxKept
  <1>10. TxKept'
    <2>1. ASSUME NEW v \in Uarts
          PROVE  Front(v)' \o InHand(v)' \o Stored(ub_tx'[v]) = [k \in 1 .. put'[v] |-> k]
      BY <1>1, <1>2, <1>4, <1>5, TxFrame DEF IInv
    <2> QED BY <2>1 DEF TxKept, Front
  <1>11. Program'
    <2>1. \A v \in Uarts : WellFormed(ub_rx'[v]) /\ ub_rx'[v] \in RingType
      BY <1>6, <1>8 DEF IInv, Program, WellFormed
    <2>2. ub_rx' \in [Uarts -> RingType]
      BY <1>2, <1>3, <2>1
    <2>3. Append(delivered[u], Oldest(ub_rx[u])) \in Seq(Word)
      BY <1>2, <1>6, <1>7, AppendCat
    <2>4. delivered' \in [Uarts -> Seq(Word)]
      BY <1>3, <1>7, <2>3
    <2> QED BY <1>1, <2>1, <2>2, <2>4, work' = work DEF IInv, Program, MainPoints
  <1>12. Exclusion'
    BY <1>1, <1>2 DEF Exclusion, Closed
  <1>13. MainKnows'
    BY <1>1 DEF MainKnows
  <1>14. HandlerKnows'
    BY <1>1, <1>2 DEF HandlerKnows
  <1> QED BY <1>4, <1>9, <1>10, <1>11, <1>12, <1>13, <1>14 DEF IInv

LEMMA PutchStoreStep ==
  ASSUME IInv, work' = work, PutchStore
  PROVE  IInv'
  <1>0. PICK u : u = chan
    OBVIOUS
  <1>1. /\ main = "p_store" /\ main' = "p_status"
        /\ UNCHANGED <<hpc, irq, chan, loaded, ch, prv_mstatus, delivered, mie, ub_rx>>
        /\ Clock(None, None, 0, FALSE)
    BY DEF PutchStore, Main, NoAccess, hvars
  <1>2. /\ hpc = "off" /\ mie = FALSE /\ prv_mstatus = TRUE
        /\ u \in Uarts /\ None \notin Uarts /\ 0 \in Word
        /\ WellFormed(ub_tx[u]) /\ ub_tx \in [Uarts -> RingType]
        /\ ~ub_tx[u].full /\ loaded = ub_tx[u] /\ put[u] < work.tx
    BY <1>0, <1>1, Section DEF IInv, MainKnows, Closed
  <1>3. put \in [Uarts -> Nat] /\ work.tx \in Nat /\ put[u] + 1 \in Word
    <2>1. put \in [Uarts -> Nat]
      BY DEF IInv, Program
    <2>2. work.tx \in Nat /\ 0 .. work.tx \subseteq Word
      BY Numbers DEF IInv
    <2> QED BY <1>2, <2>1, <2>2
  <1>4. /\ put' = [put EXCEPT ![u] = put[u] + 1]
        /\ ub_tx' = [ub_tx EXCEPT ![u] = WriteRing(ub_tx[u], ub_tx[u], put[u] + 1)]
    BY <1>0, <1>2, <1>3 DEF PutchStore
  <1>5. /\ Hardware'
        /\ \A v \in Uarts : RxClock(v, None) /\ TxClock(v, None, 0)
    BY <1>1, <1>2, ClockKeeps DEF IInv
  <1>6. \A v \in Uarts : InHand(v)' = InHand(v)
    BY <1>1 DEF InHand
  <1>7. /\ WellFormed(WriteRing(ub_tx[u], ub_tx[u], put[u] + 1))
        /\ WriteRing(ub_tx[u], ub_tx[u], put[u] + 1).not_empty
    BY <1>2, <1>3, WriteRingAdds
  <1>8. \A v \in Uarts :
          /\ ub_tx'[v] = IF v = u THEN WriteRing(ub_tx[u], ub_tx[u], put[u] + 1)
                         ELSE ub_tx[v]
          /\ put'[v] = IF v = u THEN put[u] + 1 ELSE put[v]
    BY <1>2, <1>3, <1>4
  <1>9. RxKept'
    <2>1. ASSUME NEW v \in Uarts
          PROVE  delivered'[v] \o Stored(ub_rx'[v]) \o rxbuf'[v] = accepted'[v]
      BY <1>1, <1>2, <1>5, RxFrame DEF IInv
    <2> QED BY <2>1 DEF RxKept
  <1>10. TxKept'
    <2>1. ASSUME NEW v \in Uarts, v # u
          PROVE  Front(v)' \o InHand(v)' \o Stored(ub_tx'[v]) = [k \in 1 .. put'[v] |-> k]
      BY <1>2, <1>5, <1>6, <1>8, <2>1, TxFrame DEF IInv
    <2>2. Front(u)' \o InHand(u)' \o Stored(ub_tx'[u]) = [k \in 1 .. put'[u] |-> k]
      BY <1>2, <1>3, <1>5, <1>6, <1>8, TxAdds DEF IInv
    <2> QED BY <2>1, <2>2 DEF TxKept, Front
  <1>11. Program'
    <2>1. \A v \in Uarts : WellFormed(ub_tx'[v]) /\ ub_tx'[v] \in RingType
      BY <1>7, <1>8 DEF IInv, Program, WellFormed
    <2>2. ub_tx' \in [Uarts -> RingType]
      BY <1>2, <1>4, <2>1
    <2>3. put' \in [Uarts -> Nat] /\ \A v \in Uarts : put'[v] <= work'.tx
      BY <1>2, <1>3, <1>4, <1>8, work' = work DEF IInv, Program
    <2> QED BY <1>1, <2>1, <2>2, <2>3 DEF IInv, Program, MainPoints
  <1>12. Exclusion'
    BY <1>1, <1>2 DEF Exclusion, Closed
  <1>13. MainKnows'
    BY <1>0, <1>1, <1>2, <1>7, <1>8 DEF MainKnows
  <1>14. HandlerKnows'
    BY <1>1, <1>2 DEF HandlerKnows
  <1> QED BY <1>5, <1>9, <1>10, <1>11, <1>12, <1>13, <1>14 DEF IInv

LEMMA PutchPopStep ==
  ASSUME IInv, work' = work, PutchPop
  PROVE  IInv'
  <1>0. PICK u : u = chan
    OBVIOUS
  <1>1. /\ main = "p_pop" /\ main' = "p_data"
        /\ UNCHANGED <<hpc, irq, chan, loaded, ch, prv_mstatus, delivered, put, mie, ub_rx>>
        /\ Clock(None, None, 0, FALSE)
    BY DEF PutchPop, Main, NoAccess, hvars
  <1>2. /\ hpc = "off" /\ mie = FALSE /\ prv_mstatus = TRUE
        /\ u \in Uarts /\ None \notin Uarts /\ 0 \in Word
        /\ WellFormed(ub_tx[u]) /\ ub_tx \in [Uarts -> RingType]
        /\ ub_tx[u].not_empty /\ loaded = ub_tx[u] /\ ch = Oldest(ub_tx[u])
        /\ Len(txbuf[u]) < BufSize
    BY <1>0, <1>1, Section DEF IInv, MainKnows, Closed
  <1>3. ub_tx' = [ub_tx EXCEPT ![u] = ReadRing(ub_tx[u], ub_tx[u])]
    BY <1>0, <1>2 DEF PutchPop
  <1>4. /\ Hardware'
        /\ \A v \in Uarts : RxClock(v, None) /\ TxClock(v, None, 0)
        /\ Len(txbuf'[u]) <= Len(txbuf[u])
    BY <1>1, <1>2, ClockKeeps DEF IInv
  <1>5. /\ \A v \in Uarts : v # u => InHand(v)' = InHand(v)
        /\ InHand(u) = <<>> /\ InHand(u)' = <<Oldest(ub_tx[u])>>
    BY <1>0, <1>1, <1>2 DEF InHand
  <1>6. WellFormed(ReadRing(ub_tx[u], ub_tx[u]))
    BY <1>2, ReadRingTakes
  <1>7. \A v \in Uarts :
          ub_tx'[v] = IF v = u THEN ReadRing(ub_tx[u], ub_tx[u]) ELSE ub_tx[v]
    BY <1>2, <1>3
  <1>8. RxKept'
    <2>1. ASSUME NEW v \in Uarts
          PROVE  delivered'[v] \o Stored(ub_rx'[v]) \o rxbuf'[v] = accepted'[v]
      BY <1>1, <1>2, <1>4, RxFrame DEF IInv
    <2> QED BY <2>1 DEF RxKept
  <1>9. TxKept'
    <2>1. ASSUME NEW v \in Uarts, v # u
          PROVE  Front(v)' \o InHand(v)' \o Stored(ub_tx'[v]) = [k \in 1 .. put'[v] |-> k]
      BY <1>1, <1>2, <1>4, <1>5, <1>7, <2>1, TxFrame DEF IInv
    <2>2. Front(u)' \o InHand(u)' \o Stored(ub_tx'[u]) = [k \in 1 .. put'[u] |-> k]
      BY <1>1, <1>2, <1>4, <1>5, <1>7, TxTakes DEF IInv
    <2> QED BY <2>1, <2>2 DEF TxKept, Front
  <1>10. Program'
    <2>1. \A v \in Uarts : WellFormed(ub_tx'[v]) /\ ub_tx'[v] \in RingType
      BY <1>6, <1>7 DEF IInv, Program, WellFormed
    <2>2. ub_tx' \in [Uarts -> RingType]
      BY <1>2, <1>3, <2>1
    <2> QED BY <1>1, <2>1, <2>2, work' = work DEF IInv, Program, MainPoints
  <1>11. Exclusion'
    BY <1>1, <1>2 DEF Exclusion, Closed
  <1>12. MainKnows'
    <2>1. Len(txbuf[u]) \in Nat /\ Len(txbuf'[u]) \in Nat /\ BufSize \in Nat
      BY <1>2, <1>4, SizeAssumption DEF IInv, Hardware
    <2>2. Len(txbuf'[u]) < BufSize
      BY <1>2, <1>4, <2>1
    <2> QED BY <1>0, <1>1, <2>2 DEF MainKnows
  <1>13. HandlerKnows'
    BY <1>1, <1>2 DEF HandlerKnows
  <1> QED BY <1>4, <1>8, <1>9, <1>10, <1>11, <1>12, <1>13 DEF IInv

LEMMA PutchDataStep ==
  ASSUME IInv, work' = work, PutchData
  PROVE  IInv'
  <1>0. PICK u : u = chan
    OBVIOUS
  <1>1. /\ main = "p_data" /\ main' = "p_leave"
        /\ UNCHANGED <<hpc, irq, chan, loaded, ch, prv_mstatus, delivered, put, mie,
                       ub_rx, ub_tx>>
        /\ Clock(None, u, ch, FALSE) /\ Len(txbuf[u]) < BufSize
    BY <1>0 DEF PutchData, Main, hvars
  <1>2. /\ hpc = "off" /\ mie = FALSE /\ prv_mstatus = TRUE
        /\ u \in Uarts /\ None \notin Uarts /\ ch \in Word
    BY <1>0, <1>1, Section DEF Closed, IInv, Program
  <1>3. /\ Hardware'
        /\ \A v \in Uarts : RxClock(v, None) /\ TxClock(v, u, ch)
    BY <1>1, <1>2, ClockKeeps DEF IInv
  <1>4. /\ \A v \in Uarts : v # u => InHand(v)' = InHand(v)
        /\ InHand(u) = <<ch>> /\ InHand(u)' = <<>>
    BY <1>0, <1>1 DEF InHand
  <1>5. RxKept'
    <2>1. ASSUME NEW v \in Uarts
          PROVE  delivered'[v] \o Stored(ub_rx'[v]) \o rxbuf'[v] = accepted'[v]
      BY <1>1, <1>2, <1>3, RxFrame DEF IInv
    <2> QED BY <2>1 DEF RxKept
  <1>6. TxKept'
    <2>1. ASSUME NEW v \in Uarts, v # u
          PROVE  Front(v)' \o InHand(v)' \o Stored(ub_tx'[v]) = [k \in 1 .. put'[v] |-> k]
      BY <1>1, <1>3, <1>4, <2>1, TxFrame DEF IInv
    <2>2. Front(u)' \o InHand(u)' \o Stored(ub_tx'[u]) = [k \in 1 .. put'[u] |-> k]
      BY <1>1, <1>2, <1>3, <1>4, TxWrites DEF IInv
    <2> QED BY <2>1, <2>2 DEF TxKept, Front
  <1>7. Program'
    BY <1>1, work' = work DEF IInv, Program, MainPoints, WellFormed
  <1>8. Exclusion'
    BY <1>1, <1>2 DEF Exclusion, Closed
  <1>9. MainKnows'
    BY <1>1 DEF MainKnows
  <1>10. HandlerKnows'
    BY <1>1, <1>2 DEF HandlerKnows
  <1> QED BY <1>3, <1>5, <1>6, <1>7, <1>8, <1>9, <1>10 DEF IInv

-----------------------------------------------------------------------------
(* The theorems *)

LEMMA InitInv ==
  ASSUME Init
  PROVE  IInv
  <1>1. work \in Workloads /\ 0 \in Word
    <2>1. work \in Workloads /\ work.rx \in Nat /\ work.tx \in Nat
      BY LoadAssumption DEF Init
    <2>2. 0 \in 0 .. (work.rx + work.tx)
      BY <2>1
    <2> QED BY <2>1, <2>2 DEF Word
  <1>2. EmptyRing \in RingType
    BY <1>1, SizeAssumption DEF EmptyRing, RingType
  <1>3. WellFormed(EmptyRing)
    BY <1>2 DEF WellFormed, EmptyRing
  <1>4. Stored(EmptyRing) = <<>>
    <2>1. Count(EmptyRing) = 0
      BY DEF Count, EmptyRing
    <2>2. Stored(EmptyRing) \in Seq(Word) /\ Len(Stored(EmptyRing)) = 0
      BY <1>3, <2>1, HeldFacts
    <2> QED BY <2>2, EmptySeq
  <1>5. Hardware
    <2>0. \A a, b, c \in BOOLEAN : <<a, b, c>> \in [1 .. 3 -> BOOLEAN]
      OBVIOUS
    <2>1. <<FALSE, FALSE, FALSE>> \in [1 .. 3 -> BOOLEAN]
      BY <2>0, Zenon
    <2>2. d_intr \in [Uarts -> [1 .. 3 -> BOOLEAN]]
      BY <2>1 DEF Init
    <2>3. <<>> \in Seq(Word) /\ Len(<<>>) = 0 /\ 0 <= BufSize
      BY SizeAssumption
    <2>4. /\ rxbuf \in [Uarts -> Seq(Word)] /\ txbuf \in [Uarts -> Seq(Word)]
          /\ accepted \in [Uarts -> Seq(Word)] /\ sent \in [Uarts -> Seq(Word)]
          /\ \A u \in Uarts : Len(rxbuf[u]) <= BufSize /\ Len(txbuf[u]) <= BufSize
      BY <2>3 DEF Init
    <2>5. /\ shifting \in [Uarts -> Word \cup {None}] /\ intr \in [Uarts -> BOOLEAN]
          /\ pending \subseteq Uarts /\ mip \in BOOLEAN
      BY DEF Init
    <2>6. arrived \in [Uarts -> Nat] /\ \A u \in Uarts : arrived[u] <= work.rx
      BY <1>1, LoadAssumption DEF Init
    <2> QED BY <1>1, <2>2, <2>4, <2>5, <2>6 DEF Hardware
  <1>6. Program
    <2>1. work.rx \in Nat /\ work.tx \in Nat
      BY <1>1, LoadAssumption
    <2> QED BY <1>1, <1>2, <1>3, <2>1 DEF Init, Program, MainPoints, HandlerPoints
  <1>7. Exclusion /\ MainKnows /\ HandlerKnows
    BY DEF Init, Exclusion, MainKnows, HandlerKnows, Closed
  <1>8. RxKept
    BY <1>4, ConcatEmptySeq DEF Init, RxKept
  <1>9. TxKept
    <2>1. [k \in 1 .. 0 |-> k] = <<>>
      OBVIOUS
    <2> QED BY <1>4, <2>1 DEF Init, TxKept, InShifter, InHand
  <1> QED BY <1>5, <1>6, <1>7, <1>8, <1>9 DEF IInv

LEMMA NextInv ==
  ASSUME IInv, [Next]_vars
  PROVE  IInv'
  <1>1. CASE UNCHANGED vars
    <2> USE <1>1 DEF vars, hwvars, mainvars, hvars
    <2>1. Hardware' /\ Program'
      BY DEF IInv, Hardware, Program, WellFormed
    <2>2. Exclusion' /\ MainKnows' /\ HandlerKnows'
      BY DEF IInv, Exclusion, MainKnows, HandlerKnows, Serving
    <2>3. RxKept' /\ TxKept'
      BY DEF IInv, RxKept, TxKept, InShifter, InHand
    <2> QED BY <2>1, <2>2, <2>3 DEF IInv
  <1>2. CASE Next
    <2>1. work' = work
      BY <1>2 DEF Next
    <2>2. CASE Tick
      BY <2>1, <2>2, TickStep
    <2>3. CASE Interrupt
      BY <2>1, <2>3, HandlerSteps, TxDataStep, RxDataStep DEF Interrupt
    <2>4. CASE Getch
      BY <2>1, <2>4, MainSteps, GetchStoreStep DEF Getch, MainAlone
    <2>5. CASE Putch
      BY <2>1, <2>5, MainSteps, PutchStoreStep, PutchPopStep, PutchDataStep
         DEF Putch, MainAlone
    <2>6. CASE \E u \in Uarts : CallGetch(u) \/ CallPutch(u)
      BY <2>1, <2>6, MainSteps DEF MainAlone
    <2> QED BY <1>2, <2>2, <2>3, <2>4, <2>5, <2>6 DEF Next, Cpu
  <1> QED BY <1>1, <1>2

\* The words between the pointers are those IOBuf says a ring contains.
LEMMA HeldIsStored ==
  \A u \in Uarts : Held(ub_rx[u]) = Stored(ub_rx[u]) /\ Held(ub_tx[u]) = Stored(ub_tx[u])
  BY Zenon DEF Held, Ring!Contents, Ring!Count, Ring!Slot, Stored, Count, Slot

LEMMA Invariance == Spec => []IInv
  BY InitInv, NextInv, PTL DEF Spec

\* Every register, pointer and buffer keeps its type, the hardware buffers stay
\* within MAX_IO_BUF_SIZE and the rings' pointers within MAX_UART_BUF_SIZE,
\* whatever the sizes.
THEOREM TypeCorrect == Spec => []TypeOK
  <1>1. ASSUME IInv PROVE TypeOK
    <2>1. work.rx \in Nat /\ work.tx \in Nat
      BY <1>1, Numbers DEF IInv
    <2> QED BY <1>1, <2>1 DEF IInv, Hardware, Program, TypeOK
  <1> QED BY <1>1, Invariance, PTL

\* For every size of the buffers and rings, every set of ports and every load:
\* what getch returned, what the receive ring holds and what the hardware holds
\* are together, in order, exactly the words the receiver accepted, at every
\* clock of getch and of the interrupt handler.
THEOREM RxCorrect == Spec => []RxInOrder
  <1>1. IInv => RxInOrder
    BY HeldIsStored DEF IInv, RxKept, RxInOrder
  <1> QED BY <1>1, Invariance, PTL

\* Likewise for putch: what was transmitted, what is in the shifter, in the
\* hardware buffer, in main's hand and in the transmit ring are together, in
\* order, exactly the characters put.
THEOREM TxCorrect == Spec => []TxInOrder
  <1>1. IInv => TxInOrder
    BY HeldIsStored DEF IInv, TxKept, TxInOrder
  <1> QED BY <1>1, Invariance, PTL

\* The critical section excludes the interrupt handler: while main works on a
\* ring with the pointers it loaded, no handler runs and none can start, and
\* when it leaves interrupts come back on.
THEOREM HandlerExcluded == Spec => []Exclusion
  <1>1. IInv => Exclusion
    BY DEF IInv
  <1> QED BY <1>1, Invariance, PTL
=============================================================================
