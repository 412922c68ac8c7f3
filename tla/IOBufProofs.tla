---------------------------- MODULE IOBufProofs ----------------------------
(***************************************************************************)
(* Proofs about the ring buffer, for every capacity N and every set Data:  *)
(* its registers stay in range, its flags tell the truth about its         *)
(* pointers, and it implements the bounded FIFO.                           *)
(***************************************************************************)
EXTENDS IOBuf, SequenceTheorems, TLAPS

\* The strengthening that carries all three results.
IInv == TypeOK /\ FlagsAgree

-----------------------------------------------------------------------------
LEMMA InitInv == Init => IInv
  <1> SUFFICES ASSUME Init PROVE IInv
    OBVIOUS
  <1>1. 0 \in Slots
    BY NAssumption DEF Slots
  <1>2. TypeOK
    BY <1>1, Zenon DEF Init, TypeOK
  <1>3. FlagsAgree
    BY Zenon DEF Init, FlagsAgree
  <1> QED BY <1>2, <1>3 DEF IInv

\* update() with the flags its callers may pass keeps pointers in range and
\* flags truthful.
LEMMA UpdateInv ==
  ASSUME IInv,
         NEW rflag \in BOOLEAN, NEW wflag \in BOOLEAN,
         rflag => not_empty, wflag => ~full, rflag \/ wflag,
         Update(rflag, wflag)
  PROVE  /\ rp' \in Slots /\ wp' \in Slots
         /\ full' \in BOOLEAN /\ not_empty' \in BOOLEAN
         /\ FlagsAgree'
  <1>1. rp' \in Slots /\ wp' \in Slots
    BY NAssumption DEF IInv, TypeOK, Update, Slots, nxt_pnt
  <1>2. full' \in BOOLEAN /\ not_empty' \in BOOLEAN
    BY DEF Update
  <1>3. FlagsAgree'
    BY NAssumption DEF IInv, TypeOK, FlagsAgree, Update, Slots, nxt_pnt
  <1> QED BY <1>1, <1>2, <1>3

LEMMA NextInv == IInv /\ [Next]_vars => IInv'
  <1> SUFFICES ASSUME IInv, [Next]_vars PROVE IInv'
    OBVIOUS
  <1>1. CASE Read
    BY <1>1, UpdateInv DEF Read, IInv, TypeOK
  <1>2. CASE Reset
    <2>1. 0 \in Slots
      BY NAssumption DEF Slots
    <2>2. TypeOK'
      BY <1>2, <2>1, Zenon DEF Reset, IInv, TypeOK
    <2>3. FlagsAgree'
      BY <1>2, Zenon DEF Reset, FlagsAgree
    <2> QED BY <2>2, <2>3 DEF IInv
  <1>3. ASSUME NEW d \in Data, Write(d) PROVE IInv'
    <2>1. buf' \in [Slots -> Data]
      BY <1>3 DEF Write, IInv, TypeOK
    <2> QED BY <1>3, <2>1, UpdateInv DEF Write, IInv, TypeOK
  <1>4. ASSUME NEW d \in Data, ReadWrite(d) PROVE IInv'
    <2>1. buf' \in [Slots -> Data]
      BY <1>4 DEF ReadWrite, IInv, TypeOK
    <2> QED BY <1>4, <2>1, UpdateInv DEF ReadWrite, IInv, TypeOK
  <1>5. CASE UNCHANGED vars
    BY <1>5 DEF vars, IInv, TypeOK, FlagsAgree
  <1> QED BY <1>1, <1>2, <1>3, <1>4, <1>5 DEF Next

\* Every reachable state of every ring is well typed.
THEOREM TypeCorrect == Spec => []TypeOK
  <1>1. IInv => TypeOK BY DEF IInv
  <1> QED BY InitInv, NextInv, <1>1, PTL DEF Spec

\* The flags not_empty and full, which do_tx and do_rx read instead of the
\* pointers, are truthful in every reachable state of every ring.
THEOREM FlagsCorrect == Spec => []FlagsAgree
  <1>1. IInv => FlagsAgree BY DEF IInv
  <1> QED BY InitInv, NextInv, <1>1, PTL DEF Spec

-----------------------------------------------------------------------------
\* Facts about the abstract contents of a well-formed ring.

LEMMA CountBounds ==
  ASSUME IInv
  PROVE  /\ Count \in 0 .. N
         /\ full <=> Count = N
         /\ not_empty <=> Count > 0
  BY NAssumption DEF IInv, TypeOK, FlagsAgree, Count, Slots

LEMMA SlotInRange ==
  ASSUME IInv, NEW i \in 0 .. N - 1
  PROVE  Slot(i) \in Slots
  BY NAssumption DEF IInv, TypeOK, Slot, Slots

LEMMA ContentsType ==
  ASSUME IInv
  PROVE  /\ Contents \in Seq(Data)
         /\ Len(Contents) = Count
         /\ \A i \in 1 .. Count : Contents[i] = buf[Slot(i - 1)]
  <1>1. Count \in Nat /\ Count <= N
    BY CountBounds, NAssumption
  <1>2. \A i \in 1 .. Count : buf[Slot(i - 1)] \in Data
    <2> SUFFICES ASSUME NEW i \in 1 .. Count PROVE buf[Slot(i - 1)] \in Data
      OBVIOUS
    <2>1. i - 1 \in 0 .. N - 1
      BY <1>1, NAssumption
    <2> QED BY <2>1, SlotInRange DEF IInv, TypeOK
  <1>3. Contents \in [1 .. Count -> Data]
    BY <1>2 DEF Contents
  <1> QED BY <1>1, <1>3 DEF Contents

\* A read alone, or a read of the pair: how pointers, count and slots move.
LEMMA CountAfterRead ==
  ASSUME IInv, not_empty, Update(TRUE, FALSE)
  PROVE  /\ Count' = Count - 1
         /\ \A i \in 0 .. N - 2 : Slot(i)' = Slot(i + 1)
  <1>1. Count' = Count - 1
    <2>1. rp' = nxt_pnt(rp) /\ wp' = wp /\ ~full'
      BY DEF Update
    <2>2. rp \in 0 .. N - 1 /\ wp \in 0 .. N - 1
      BY DEF IInv, TypeOK, Slots
    <2>3. Count' = IF nxt_pnt(rp) <= wp THEN wp - nxt_pnt(rp)
                                        ELSE wp - nxt_pnt(rp) + N
      BY <2>1 DEF Count
    <2>4. CASE full
      <3>1. rp = wp /\ Count = N
        BY <2>4 DEF IInv, FlagsAgree, Count
      <3> QED BY <2>2, <2>3, <3>1, NAssumption DEF nxt_pnt
    <2>5. CASE ~full
      <3>1. rp # wp
        BY <2>5 DEF IInv, FlagsAgree
      <3>2. Count = IF rp <= wp THEN wp - rp ELSE wp - rp + N
        BY <2>5 DEF Count
      <3> QED BY <2>2, <2>3, <3>1, <3>2, NAssumption DEF nxt_pnt
    <2> QED BY <2>4, <2>5
  <1>2. \A i \in 0 .. N - 2 : Slot(i)' = Slot(i + 1)
    BY NAssumption DEF IInv, TypeOK, Update, Slot, Slots, nxt_pnt
  <1> QED BY <1>1, <1>2

LEMMA CountAfterWrite ==
  ASSUME IInv, ~full, Update(FALSE, TRUE)
  PROVE  /\ Count' = Count + 1
         /\ \A i \in 0 .. N - 1 : Slot(i)' = Slot(i)
  <1>1. Count' = Count + 1
    <2>1. /\ rp' = rp
          /\ wp' = nxt_pnt(wp)
          /\ full' <=> rp = nxt_pnt(wp)
      BY DEF Update
    <2>2. rp \in 0 .. N - 1 /\ wp \in 0 .. N - 1
      BY DEF IInv, TypeOK, Slots
    <2>3. Count = IF rp <= wp THEN wp - rp ELSE wp - rp + N
      BY DEF Count
    <2>4. CASE rp = nxt_pnt(wp)
      <3>1. Count' = N
        BY <2>1, <2>4 DEF Count
      <3> QED BY <2>2, <2>3, <2>4, <3>1, NAssumption DEF nxt_pnt
    <2>5. CASE rp # nxt_pnt(wp)
      <3>1. Count' = IF rp <= nxt_pnt(wp) THEN nxt_pnt(wp) - rp
                                          ELSE nxt_pnt(wp) - rp + N
        BY <2>1, <2>5 DEF Count
      <3> QED BY <2>2, <2>3, <2>5, <3>1, NAssumption DEF nxt_pnt
    <2> QED BY <2>4, <2>5
  <1>2. \A i \in 0 .. N - 1 : Slot(i)' = Slot(i)
    BY NAssumption DEF IInv, TypeOK, Update, Slot, Slots
  <1> QED BY <1>1, <1>2

LEMMA CountAfterReadWrite ==
  ASSUME IInv, not_empty, ~full, Update(TRUE, TRUE)
  PROVE  /\ Count' = Count
         /\ \A i \in 0 .. N - 2 : Slot(i)' = Slot(i + 1)
  <1>1. Count' = Count
    BY NAssumption DEF IInv, TypeOK, FlagsAgree, Update, Count, Slots, nxt_pnt
  <1>2. \A i \in 0 .. N - 2 : Slot(i)' = Slot(i + 1)
    BY NAssumption DEF IInv, TypeOK, Update, Slot, Slots, nxt_pnt
  <1> QED BY <1>1, <1>2

\* The write pointer names the slot just past the newest word, and no slot in
\* use.
LEMMA WriteSlot ==
  ASSUME IInv, ~full
  PROVE  /\ Slot(Count) = wp
         /\ \A i \in 0 .. Count - 1 : Slot(i) # wp
  BY NAssumption DEF IInv, TypeOK, FlagsAgree, Count, Slot, Slots

-----------------------------------------------------------------------------
\* Each call maps to the FIFO action of the same name.

\* A function on 1..n is a sequence of length n.
LEMMA FunIsSeq ==
  ASSUME NEW S, NEW n \in Nat, NEW f \in [1 .. n -> S]
  PROVE  f \in Seq(S) /\ Len(f) = n
  OBVIOUS

LEMMA ReadPops ==
  ASSUME IInv, Read
  PROVE  Fifo!Pop
  <1> DEFINE c == Contents
             t == Tail(Contents)
  <1>1. not_empty /\ Update(TRUE, FALSE) /\ buf' = buf
    BY DEF Read
  <1>2. /\ c \in Seq(Data) /\ Len(c) = Count
        /\ Count \in Nat /\ Count > 0 /\ Count <= N
        /\ \A i \in 1 .. Count : c[i] = buf[Slot(i - 1)]
    BY <1>1, ContentsType, CountBounds, NAssumption
  <1>3. Count' = Count - 1
    BY <1>1, CountAfterRead
  <1>4. /\ t \in Seq(Data) /\ Len(t) = Count - 1
        /\ \A i \in 1 .. Count - 1 : t[i] = c[i + 1]
    <2>1. c # <<>>
      BY <1>2
    <2> QED BY <1>2, <2>1, HeadTailProperties
  <1>5. c' = [i \in 1 .. Count - 1 |-> c[i + 1]]
    <2>1. c' = [i \in 1 .. Count - 1 |-> buf[Slot(i - 1)']]
      BY <1>1, <1>3 DEF Contents
    <2>2. ASSUME NEW i \in 1 .. Count - 1
          PROVE  buf[Slot(i - 1)'] = c[i + 1]
      <3>1. i - 1 \in 0 .. N - 2 /\ i - 1 + 1 = i
        BY <1>2, NAssumption
      <3>2. Slot(i - 1)' = Slot(i)
        BY <1>1, <3>1, CountAfterRead
      <3>3. i + 1 \in 1 .. Count /\ i + 1 - 1 = i
        BY <1>2
      <3> QED BY <1>2, <3>2, <3>3
    <2> QED BY <2>1, <2>2
  <1>6. c' = t
    <2>1. c' \in Seq(Data) /\ Len(c') = Count - 1
      <3>1. \A i \in 1 .. Count - 1 : c[i + 1] \in Data
        BY <1>2, ElementOfSeq
      <3>2. c' \in [1 .. Count - 1 -> Data] /\ Count - 1 \in Nat
        BY <1>2, <1>5, <3>1
      <3> QED BY <1>5, <3>2
    <2>2. \A i \in 1 .. Len(c') : c'[i] = t[i]
      BY <1>4, <1>5, <2>1
    <2> QED BY <1>4, <2>1, <2>2, SeqEqual
  <1> QED BY <1>2, <1>6 DEF Fifo!Pop

LEMMA WritePushes ==
  ASSUME IInv, NEW d \in Data, Write(d)
  PROVE  Fifo!Push(d)
  <1> DEFINE c == Contents
             a == Append(Contents, d)
  <1>1. ~full /\ Update(FALSE, TRUE) /\ buf' = [buf EXCEPT ![wp] = d]
    BY DEF Write
  <1>2. /\ c \in Seq(Data) /\ Len(c) = Count
        /\ Count \in Nat /\ Count < N
        /\ \A i \in 1 .. Count : c[i] = buf[Slot(i - 1)]
    BY <1>1, ContentsType, CountBounds, NAssumption
  <1>3. Count' = Count + 1
    BY <1>1, CountAfterWrite
  <1>4. buf \in [Slots -> Data] /\ wp \in Slots
    BY DEF IInv, TypeOK
  <1>5. /\ a \in Seq(Data) /\ Len(a) = Count + 1
        /\ \A i \in 1 .. Count + 1 : a[i] = IF i = Count + 1 THEN d ELSE c[i]
    BY <1>2
  <1>6. c' = [i \in 1 .. Count + 1 |-> a[i]]
    <2>1. c' = [i \in 1 .. Count + 1 |-> buf'[Slot(i - 1)']]
      BY <1>3 DEF Contents
    <2>2. ASSUME NEW i \in 1 .. Count + 1
          PROVE  buf'[Slot(i - 1)'] = a[i]
      <3>1. i - 1 \in 0 .. N - 1
        BY <1>2, NAssumption
      <3>2. Slot(i - 1)' = Slot(i - 1) /\ Slot(i - 1) \in Slots
        BY <1>1, <3>1, CountAfterWrite, SlotInRange
      <3>3. CASE i = Count + 1
        <4>1. Slot(i - 1) = wp
          BY <1>1, <1>2, <3>3, WriteSlot
        <4> QED BY <1>1, <1>4, <1>5, <3>2, <3>3, <4>1
      <3>4. CASE i # Count + 1
        <4>1. i \in 1 .. Count /\ i - 1 \in 0 .. Count - 1
          BY <1>2, <3>4
        <4>2. Slot(i - 1) # wp
          BY <1>1, <4>1, WriteSlot
        <4>3. buf'[Slot(i - 1)] = buf[Slot(i - 1)]
          BY <1>1, <1>4, <3>2, <4>2
        <4> QED BY <1>2, <1>5, <3>2, <3>4, <4>1, <4>3
      <3> QED BY <3>3, <3>4
    <2> QED BY <2>1, <2>2
  <1>7. c' = a
    <2>1. \A i \in 1 .. Count + 1 : a[i] \in Data
      BY <1>5, ElementOfSeq
    <2>2. c' \in [1 .. Count + 1 -> Data] /\ Count + 1 \in Nat
      BY <1>2, <1>6, <2>1
    <2>3. c' \in Seq(Data) /\ Len(c') = Count + 1
      BY <2>2, FunIsSeq
    <2> QED BY <1>5, <1>6, <2>3, SeqEqual
  <1> QED BY <1>2, <1>7 DEF Fifo!Push

LEMMA ReadWritePopPushes ==
  ASSUME IInv, NEW d \in Data, ReadWrite(d)
  PROVE  Fifo!PopPush(d)
  <1> DEFINE c == Contents
             t == Tail(Contents)
             a == Append(Tail(Contents), d)
  <1>1. /\ not_empty /\ ~full /\ Update(TRUE, TRUE)
        /\ buf' = [buf EXCEPT ![wp] = d]
    BY DEF ReadWrite
  <1>2. /\ c \in Seq(Data) /\ Len(c) = Count
        /\ Count \in Nat /\ Count > 0 /\ Count < N
        /\ \A i \in 1 .. Count : c[i] = buf[Slot(i - 1)]
    BY <1>1, ContentsType, CountBounds, NAssumption
  <1>3. Count' = Count
    BY <1>1, CountAfterReadWrite
  <1>4. buf \in [Slots -> Data] /\ wp \in Slots
    BY DEF IInv, TypeOK
  <1>5. /\ t \in Seq(Data) /\ Len(t) = Count - 1
        /\ \A i \in 1 .. Count - 1 : t[i] = c[i + 1]
    <2>1. c # <<>>
      BY <1>2
    <2> QED BY <1>2, <2>1, HeadTailProperties
  <1>6. /\ a \in Seq(Data) /\ Len(a) = Count
        /\ \A i \in 1 .. Count : a[i] = IF i = Count THEN d ELSE c[i + 1]
    <2>1. /\ a \in Seq(Data) /\ Len(a) = Count
          /\ \A i \in 1 .. Count : a[i] = IF i = Count THEN d ELSE t[i]
      BY <1>2, <1>5
    <2> QED BY <1>2, <1>5, <2>1
  <1>7. c' = [i \in 1 .. Count |-> a[i]]
    <2>1. c' = [i \in 1 .. Count |-> buf'[Slot(i - 1)']]
      BY <1>3 DEF Contents
    <2>2. ASSUME NEW i \in 1 .. Count
          PROVE  buf'[Slot(i - 1)'] = a[i]
      <3>1. i - 1 \in 0 .. N - 2 /\ i \in 0 .. N - 1 /\ i - 1 + 1 = i
        BY <1>2, NAssumption
      <3>2. Slot(i - 1)' = Slot(i) /\ Slot(i) \in Slots
        BY <1>1, <3>1, CountAfterReadWrite, SlotInRange
      <3>3. CASE i = Count
        <4>1. Slot(i) = wp
          BY <1>1, <3>3, WriteSlot
        <4> QED BY <1>1, <1>4, <1>6, <3>2, <3>3, <4>1
      <3>4. CASE i # Count
        <4>1. i \in 0 .. Count - 1 /\ i + 1 \in 1 .. Count /\ i + 1 - 1 = i
          BY <1>2, <3>4
        <4>2. Slot(i) # wp
          BY <1>1, <4>1, WriteSlot
        <4>3. buf'[Slot(i)] = buf[Slot(i)]
          BY <1>1, <1>4, <3>2, <4>2
        <4> QED BY <1>2, <1>6, <3>2, <3>4, <4>1, <4>3
      <3> QED BY <3>3, <3>4
    <2> QED BY <2>1, <2>2
  <1>8. c' = a
    <2>1. \A i \in 1 .. Count : a[i] \in Data
      BY <1>6, ElementOfSeq
    <2>2. c' \in [1 .. Count -> Data]
      BY <1>7, <2>1
    <2>3. c' \in Seq(Data) /\ Len(c') = Count
      BY <1>2, <1>7, <2>2
    <2> QED BY <1>6, <1>7, <2>3, SeqEqual
  <1> QED BY <1>2, <1>8 DEF Fifo!PopPush

LEMMA ResetEmpties ==
  ASSUME IInv, Reset
  PROVE  Fifo!Empty
  <1>1. Count' = 0
    BY DEF Reset, Count
  <1>2. Contents' = [i \in 1 .. 0 |-> buf'[Slot(i - 1)']]
    BY <1>1 DEF Contents
  <1> QED BY <1>2 DEF Fifo!Empty

\* Every run of every ring is a run of the bounded FIFO: no word is lost,
\* duplicated or reordered by any sequence of update() calls the UART ports
\* make.
THEOREM RingImplementsFifo == Spec => ImplementsFifo
  <1>1. Init => Fifo!Init
    <2> SUFFICES ASSUME Init PROVE Contents = <<>>
      BY DEF Fifo!Init
    <2>1. Count = 0
      BY DEF Init, Count
    <2> QED BY <2>1 DEF Contents
  <1>2. IInv /\ [Next]_vars => [Fifo!Next]_Contents
    <2> SUFFICES ASSUME IInv, [Next]_vars PROVE [Fifo!Next]_Contents
      OBVIOUS
    <2>1. CASE Read
      BY <2>1, ReadPops DEF Fifo!Next
    <2>2. CASE Reset
      BY <2>2, ResetEmpties DEF Fifo!Next
    <2>3. ASSUME NEW d \in Data, Write(d) PROVE Fifo!Next
      BY <2>3, WritePushes DEF Fifo!Next
    <2>4. ASSUME NEW d \in Data, ReadWrite(d) PROVE Fifo!Next
      BY <2>4, ReadWritePopPushes DEF Fifo!Next
    <2>5. CASE UNCHANGED vars
      <3>1. Count' = Count /\ \A i \in Int : Slot(i)' = Slot(i)
        BY <2>5 DEF vars, Count, Slot
      <3>2. Contents' = Contents
        BY <2>5, <3>1 DEF vars, Contents, Count, Slot
      <3> QED BY <3>2
    <2> QED BY <2>1, <2>2, <2>3, <2>4, <2>5 DEF Next
  <1> QED BY <1>1, <1>2, InitInv, NextInv, PTL DEF Spec, ImplementsFifo, Fifo!Spec
=============================================================================
