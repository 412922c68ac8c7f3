---------------------------- MODULE FilterProofs ----------------------------
(***************************************************************************)
(* Proofs about the image filter on the bus, for any number of masters,    *)
(* any operations whose words the slave can count, every window, line      *)
(* buffer, border and picture size.                                        *)
(*                                                                         *)
(* The bus: with any number of masters waiting, a transfer that is under   *)
(* way goes through its phases call by call, and what master and slave     *)
(* count agrees with the words that were moved.  The line buffers: what t  *)
(* pixels leave in positions, memory and shift register, by the arithmetic *)
(* of the places of a pixel.  The stream: the windows that left, those in  *)
(* the queue and those that are complete, whatever is written meanwhile.   *)
(***************************************************************************)
EXTENDS FilterAxi, WellFoundedInduction, TLAPS

-----------------------------------------------------------------------------
(* The bus. *)

BusTypes ==
  /\ turn \in 0 .. MC + 1
  /\ rw_state \in [Masters -> {"RW_Init", "RW_RAddr", "RW_WBurstSetup", "RW_WAddr"}]
  /\ req \in [Masters -> Ops \cup {None}]
  /\ out \in [Masters -> SUBSET (RChan \cup WChan)]
  /\ min \in [Masters -> SUBSET (RChan \cup WChan \cup {"last"})]
  /\ burst_count \in [Masters -> Nat]
  /\ dout \in [Masters -> Words] /\ mdata \in [Masters -> Words]
  /\ got \in [Masters -> Seq(Words)] /\ served \in [Masters -> Seq(Words)]
  /\ r_state \in {"R_Init", "R_Addr", "R_End"} /\ w_state \in {"W_Init", "W_AddrData", "W_End"}
  /\ rout \in SUBSET (RChan \cup {"last"}) /\ wout \in SUBSET WChan /\ rdata \in Words
  /\ raddr_end \in BOOLEAN /\ burst_end_r \in BOOLEAN
  /\ waddr_end \in BOOLEAN /\ wres_end \in BOOLEAN /\ writeBurstMode \in BOOLEAN
  /\ burst_count_r \in Nat /\ burst_count_w \in Nat
  /\ rowner \in Masters \cup {None} /\ wowner \in Masters \cup {None}
  /\ rconn \in Masters \cup {None} /\ wconn \in Masters \cup {None}
  /\ roundRobinRVal \in Masters /\ roundRobinWVal \in Masters

\* What a master holds by itself.
Idle(m) ==
  /\ rw_state[m] = "RW_Init" /\ out[m] = {} /\ req[m] = None /\ dout[m] = None
  /\ got[m] = <<>> /\ served[m] = <<>>
Reads(m) ==
  /\ rw_state[m] = "RW_RAddr" /\ req[m] \in Ops /\ req[m].kind = "Read"
  /\ burst_count[m] + Len(got[m]) = req[m].len /\ dout[m] = None
Writes(m) ==
  /\ rw_state[m] \in {"RW_WBurstSetup", "RW_WAddr"} /\ req[m] \in Ops /\ req[m].kind = "Write"
  /\ got[m] = <<>>
  /\ \A i \in 1 .. Len(served[m]) : served[m][i] = req[m].words[i]
\* It shows the word that the device is to be given next.
Shows(m) ==
  /\ rw_state[m] = "RW_WAddr" /\ Len(served[m]) <= req[m].len
  /\ burst_count[m] + Len(served[m]) = req[m].len
  /\ dout[m] = req[m].words[Len(served[m]) + 1]
SetsUp(m) ==
  /\ rw_state[m] = "RW_WBurstSetup" /\ served[m] = <<>> /\ req[m].len > 0
  /\ burst_count[m] = req[m].len /\ out[m] = {"waddr"}
Single(m) == Shows(m) /\ served[m] = <<>> /\ req[m].len = 0 /\ out[m] = WChan

\* A master that waits for the slave.
Waits(m) ==
  \/ Reads(m) /\ out[m] = RChan /\ got[m] = <<>> /\ served[m] = <<>>
  \/ Writes(m) /\ (SetsUp(m) \/ Single(m))

-----------------------------------------------------------------------------
(* Reads: the states of the slave and of the master m that its read channel is   *)
(* connected to, before the slave's call (ReadBefore), between the slave's and   *)
(* the master's (ReadMid), after both (ReadAfter).                               *)
RWires(m, st, o, a, own) == r_state = st /\ rout = o /\ out[m] = a /\ rowner = own
Counts(m) == ~burst_end_r /\ burst_count_r + Len(served[m]) = req[m].len
NoneYet(m) == got[m] = <<>> /\ served[m] = <<>>
Shown(m) == served[m] = Append(got[m], mdata[m])
RA == {"raddr"}
RD == {"rdat"}
RL == {"rdat", "last"}

RBAsked(m)    == RWires(m, "R_Init", {}, RChan, m) /\ min[m] = {} /\ NoneYet(m)
RBAccepted(m) == RWires(m, "R_Addr", RA, RChan, m) /\ min[m] = RA /\ NoneYet(m) /\ Counts(m)
RBWord(m)     == RWires(m, "R_Addr", RD, RD, m) /\ min[m] = RD /\ Shown(m) /\ Counts(m)
RBLast(m)     == RWires(m, "R_End", RL, RD, None) /\ min[m] = RL /\ Shown(m) /\ burst_count[m] = 0
ReadBefore(m) == Reads(m) /\ (RBAsked(m) \/ RBAccepted(m) \/ RBWord(m) \/ RBLast(m))

RMAccepted(m)  == RWires(m, "R_Addr", RA, RChan, m) /\ min[m] = {} /\ NoneYet(m) /\ Counts(m)
RMFirst(m)     == /\ RWires(m, "R_Addr", RD, RChan, m) /\ min[m] = RA /\ Counts(m)
                  /\ got[m] = <<>> /\ served[m] = Append(got[m], rdata)
RMOnly(m)      == /\ RWires(m, "R_End", RL, RChan, m) /\ min[m] = RA /\ req[m].len = 0
                  /\ got[m] = <<>> /\ served[m] = Append(got[m], rdata)
RMWord(m)      == /\ RWires(m, "R_Addr", RD, RD, m) /\ min[m] = RD /\ Counts(m)
                  /\ served[m] = Append(Append(got[m], mdata[m]), rdata)
RMLast(m)      == /\ RWires(m, "R_End", RL, RD, m) /\ min[m] = RD /\ Len(served[m]) = req[m].len + 1
                  /\ served[m] = Append(Append(got[m], mdata[m]), rdata)
RMOver(m)      == RWires(m, "R_Init", {}, RD, None) /\ min[m] = RL /\ Shown(m) /\ burst_count[m] = 0
ReadMid(m) ==
  Reads(m) /\ (\/ RMAccepted(m) \/ RMFirst(m) \/ RMOnly(m) \/ RMWord(m) \/ RMLast(m) \/ RMOver(m))

RAAccepted(m) == Reads(m) /\ RWires(m, "R_Addr", RA, RChan, m) /\ NoneYet(m) /\ Counts(m)
RAWord(m) == /\ Reads(m) /\ RWires(m, "R_Addr", RD, RD, m) /\ Counts(m)
             /\ served[m] = Append(got[m], rdata)
RALast(m) == /\ Reads(m) /\ RWires(m, "R_End", RL, RD, m) /\ burst_count[m] = 0
             /\ served[m] = Append(got[m], rdata)
RAOver(m) == Idle(m) /\ RWires(m, "R_Init", {}, {}, None)
ReadAfter(m) == RAAccepted(m) \/ RAWord(m) \/ RALast(m) \/ RAOver(m)

ReadPhases ==
  /\ rconn = None => r_state = "R_Init" /\ rout = {} /\ rowner = None
  /\ \A m \in Masters : rconn = m =>
       /\ turn = 0 => ReadBefore(m)
       /\ turn \in 1 .. m + 1 => ReadMid(m)
       /\ turn > m + 1 => ReadAfter(m)

-----------------------------------------------------------------------------
(* Writes: the same for the write channel. *)
WWires(m, st, o, a, own) == w_state = st /\ wout = o /\ out[m] = a /\ wowner = own
WA == {"waddr"}
WD == {"wdat"}
WR == {"wres"}
AD == {"waddr", "wdat"}
DR == {"wdat", "wres"}
AllServed(m) ==
  rw_state[m] = "RW_WAddr" /\ burst_count[m] = 0 /\ Len(served[m]) = req[m].len + 1
CountsW(m) == waddr = req[m].addr /\ burst_count_w + Len(served[m]) = req[m].len

WBAsked(m)    == /\ \/ WWires(m, "W_Init", {}, WChan, m) /\ Single(m)
                    \/ WWires(m, "W_Init", {}, WA, m) /\ SetsUp(m)
                 /\ min[m] = {}
WBSingle(m)   == WWires(m, "W_AddrData", WA, WChan, m) /\ min[m] = WA /\ Single(m) /\ CountsW(m)
WBSetup(m)    == /\ WWires(m, "W_AddrData", AD, WA, m) /\ min[m] = AD /\ SetsUp(m)
                 /\ CountsW(m) /\ writeBurstMode
WBWord(m)     == WWires(m, "W_AddrData", WD, DR, m) /\ min[m] = WD /\ Shows(m) /\ CountsW(m)
WBLast(m)     == /\ WWires(m, "W_End", DR, DR, None) \/ WWires(m, "W_End", DR, WR, None)
                 /\ min[m] = DR /\ AllServed(m)
WriteBefore(m) ==
  Writes(m) /\ (\/ WBAsked(m) \/ WBSingle(m) \/ WBSetup(m) \/ WBWord(m) \/ WBLast(m))

WMSingle(m)   == WWires(m, "W_AddrData", WA, WChan, m) /\ min[m] = {} /\ Single(m) /\ CountsW(m)
WMSetup(m)    == /\ WWires(m, "W_AddrData", AD, WA, m) /\ min[m] = {} /\ SetsUp(m)
                 /\ CountsW(m) /\ writeBurstMode
WMOnly(m)     == WWires(m, "W_End", DR, WChan, m) /\ min[m] = WA /\ AllServed(m)
WMReady(m)    == WWires(m, "W_AddrData", WD, WA, m) /\ min[m] = AD /\ SetsUp(m) /\ CountsW(m)
WMWord(m)     == /\ WWires(m, "W_AddrData", WD, DR, m) /\ min[m] = WD /\ CountsW(m)
                 /\ rw_state[m] = "RW_WAddr" /\ burst_count[m] + Len(served[m]) = req[m].len + 1
WMLast(m)     == WWires(m, "W_End", DR, DR, m) /\ min[m] = WD /\ AllServed(m)
WMOver(m)     == /\ WWires(m, "W_Init", {}, DR, None) \/ WWires(m, "W_Init", {}, WR, None)
                 /\ min[m] = DR /\ AllServed(m)
WriteMid(m) ==
  Writes(m) /\ (\/ WMSingle(m) \/ WMSetup(m) \/ WMOnly(m) \/ WMReady(m)
                \/ WMWord(m) \/ WMLast(m) \/ WMOver(m))

WASingle(m) == Writes(m) /\ WWires(m, "W_AddrData", WA, WChan, m) /\ Single(m) /\ CountsW(m)
WASetup(m)  == /\ Writes(m) /\ WWires(m, "W_AddrData", AD, WA, m) /\ SetsUp(m)
               /\ CountsW(m) /\ writeBurstMode
WAWord(m)   == Writes(m) /\ WWires(m, "W_AddrData", WD, DR, m) /\ Shows(m) /\ CountsW(m)
WALast(m)   == /\ Writes(m) /\ AllServed(m)
               /\ WWires(m, "W_End", DR, DR, m) \/ WWires(m, "W_End", DR, WR, m)
WAOver(m)   == Idle(m) /\ WWires(m, "W_Init", {}, {}, None)
WriteAfter(m) == WASingle(m) \/ WASetup(m) \/ WAWord(m) \/ WALast(m) \/ WAOver(m)

WritePhases ==
  /\ wconn = None => w_state = "W_Init" /\ wout = {} /\ wowner = None
  /\ \A m \in Masters : wconn = m =>
       /\ turn = 0 => WriteBefore(m)
       /\ turn \in 1 .. m + 1 => WriteMid(m)
       /\ turn > m + 1 => WriteAfter(m)

-----------------------------------------------------------------------------
MasterPhases ==
  \A m \in Masters :
    /\ rw_state[m] = "RW_Init" => Idle(m)
    /\ m \notin {rconn, wconn} => min[m] = {} /\ (Idle(m) \/ Waits(m))

BusInv == BusTypes /\ ReadPhases /\ WritePhases /\ MasterPhases

BusNext ==
  \/ \E word \in Words : Slave(word)
  \/ \E m \in Masters : MasterFsm(m) \/ \E op \in Ops : MasterStarts(m, op)
  \/ ConnectChannel

-----------------------------------------------------------------------------
(* Types of the bus. *)

\* The masters are numbers, and there is a first.
LEMMA MasterFacts == 0 \in Masters /\ None \notin Masters /\ None \notin Int /\ MC \in Nat /\ MC > 0
  BY MastersAssumption, NoneAssumption DEF Masters

\* A write has a word for each of its transfers, a read none.
LEMMA OpFacts ==
  \A op \in Ops : /\ op.kind \in {"Read", "Write"} /\ op.len \in Nat
                  /\ op.kind = "Write" => op.words \in Seq(Int) /\ Len(op.words) = op.len + 1
<1> SUFFICES ASSUME NEW op \in Ops
             PROVE  /\ op.kind \in {"Read", "Write"} /\ op.len \in Nat
                    /\ op.kind = "Write" => op.words \in Seq(Int) /\ Len(op.words) = op.len + 1
  OBVIOUS
<1>1. op \in Operations /\ (op.kind = "Write" => Len(op.words) = op.len + 1)
  BY OpsAssumption, Zenon
<1>2. op.kind \in {"Read", "Write"} /\ op.len \in 0 .. 255
  BY <1>1, Zenon DEF Operations
<1>3. op.kind = "Write" => op.words \in Seq(Int)
  BY <1>1, Zenon DEF Operations
<1>4. op.len \in Nat
  BY <1>2
<1> QED BY <1>1, <1>2, <1>3, <1>4, Zenon

\* What the slave counts is a number.
LEMMA CountIsNat ==
  ASSUME NEW n \in Nat
  PROVE  n % CountMod \in Nat /\ (n < CountMod => n % CountMod = n)
  BY CountAssumption

\* The masters ask for no more words than the slave can count: at most 16 in hardware.
CountedOps == \A op \in Ops : op.len < CountMod

\* In the simulation, where it counts with a byte, every operation is one of these.
LEMMA CountedInSimulation ==
  ASSUME CountMod >= 256
  PROVE  CountedOps
<1> SUFFICES ASSUME NEW op \in Ops  PROVE op.len < CountMod
  BY DEF CountedOps
<1>1. op \in Operations
  BY OpsAssumption, Zenon
<1>2. op.len \in 0 .. 255
  BY <1>1 DEF Operations
<1> QED BY <1>2, CountAssumption

\* A word that a master sends is a number.
LEMMA WordIsInt ==
  \A op \in Ops, i \in Int : op.kind = "Write" /\ i \in 1 .. op.len + 1 => op.words[i] \in Int
  BY OpFacts

\* What Append does.
LEMMA SeqFacts ==
  ASSUME NEW S, NEW s \in Seq(S), NEW e \in S
  PROVE  /\ Append(s, e) \in Seq(S) /\ Len(Append(s, e)) = Len(s) + 1 /\ Append(s, e) # <<>>
         /\ Append(s, e)[Len(s) + 1] = e
         /\ \A i \in 1 .. Len(s) : Append(s, e)[i] = s[i]
  OBVIOUS

\* Before the slave's call a connected channel is in one of the phases.
LEMMA Connected ==
  ASSUME BusInv, turn = 0
  PROVE  /\ rconn # None => rconn \in Masters /\ ReadBefore(rconn)
         /\ wconn # None => wconn \in Masters /\ WriteBefore(wconn)
  BY DEF BusInv, BusTypes, ReadPhases, WritePhases

\* The slave's call keeps the types.
LEMMA SlaveTyped ==
  ASSUME BusInv, NEW word \in Words, Slave(word)
  PROVE  BusTypes'
  <1>1. turn' \in 0 .. MC + 1
    BY MasterFacts DEF Slave, Call
  <1>2. UNCHANGED <<mvars, cvars>>
    BY DEF Slave
  <1>3. served' \in [Masters -> Seq(Words)]
    <2> SUFFICES ASSUME NEW m \in Masters
                 PROVE  served'[m] \in Seq(Words)
      BY DEF Slave
    <2>1. served[m] \in Seq(Words) /\ dout[m] \in Words
      BY DEF BusInv, BusTypes
    <2>2. served'[m] \in {served[m], Append(served[m], word), Append(served[m], dout[m])}
      BY DEF Slave
    <2>3. Append(served[m], dout[m]) \in Seq(Words) /\ Append(served[m], word) \in Seq(Words)
      BY <2>1, SeqFacts
    <2> QED BY <2>1, <2>2, <2>3
  <1>4. ASSUME RSees("raddr") PROVE req[rconn].len \in Nat
    BY <1>4, Connected, OpFacts DEF RSees, ReadBefore, Reads, Slave, Call
  <1>5. ASSUME WSees("waddr") PROVE req[wconn].len \in Nat
    BY <1>5, Connected, OpFacts DEF WSees, WriteBefore, Writes, Slave, Call
  <1>6. ReadIdle \/ ReadAccept \/ ReadAnswer(word) \/ ReadEnd
    BY DEF Slave
  <1>7. /\ r_state' \in {"R_Init", "R_Addr", "R_End"} /\ rout' \in SUBSET (RChan \cup {"last"})
        /\ rdata' \in Words /\ raddr_end' \in BOOLEAN /\ burst_end_r' \in BOOLEAN
        /\ burst_count_r' \in Nat
    <2>1. CASE ReadIdle
      BY <2>1 DEF ReadIdle, rvars, BusInv, BusTypes
    <2>2. CASE ReadAccept
      <3>1. burst_count_r' \in Nat
        BY <2>2, <1>4, CountIsNat DEF ReadAccept
      <3> QED BY <2>2, <3>1 DEF ReadAccept, BusInv, BusTypes, RChan
    <2>3. CASE ReadAnswer(word)
      BY <2>3 DEF ReadAnswer, BusInv, BusTypes, RChan
    <2>4. CASE ReadEnd
      BY <2>4 DEF ReadEnd, BusInv, BusTypes, Words
    <2> QED BY <1>6, <2>1, <2>2, <2>3, <2>4
  <1>8. WriteIdle \/ WriteAccept \/ WriteWait \/ WriteData \/ WriteEnd
    BY DEF Slave
  <1>9. /\ w_state' \in {"W_Init", "W_AddrData", "W_End"} /\ wout' \in SUBSET WChan
        /\ waddr_end' \in BOOLEAN /\ wres_end' \in BOOLEAN /\ writeBurstMode' \in BOOLEAN
        /\ burst_count_w' \in Nat
    <2>1. CASE WriteIdle
      BY <2>1 DEF WriteIdle, wvars, BusInv, BusTypes
    <2>2. CASE WriteAccept
      <3>1. burst_count_w' \in Nat
        BY <2>2, <1>5, CountIsNat DEF WriteAccept
      <3>2. waddr_end' \in BOOLEAN /\ wres_end' \in BOOLEAN /\ writeBurstMode' \in BOOLEAN
        BY <2>2 DEF WriteAccept, BusInv, BusTypes
      <3> QED BY <2>2, <3>1, <3>2 DEF WriteAccept, WChan
    <2>3. CASE WriteWait
      BY <2>3 DEF WriteWait, BusInv, BusTypes, WChan
    <2>4. CASE WriteData
      <3>1. burst_count_w' \in Nat
        BY <2>4 DEF WriteData, BusInv, BusTypes
      <3>2. wout' \in SUBSET WChan
        BY <2>4 DEF WriteData, WChan
      <3> QED BY <2>4, <3>1, <3>2 DEF WriteData, BusInv, BusTypes
    <2>5. CASE WriteEnd
      BY <2>5 DEF WriteEnd, BusInv, BusTypes, WChan
    <2> QED BY <1>8, <2>1, <2>2, <2>3, <2>4, <2>5
  <1> QED BY <1>1, <1>2, <1>3, <1>7, <1>9 DEF BusInv, BusTypes, mvars, cvars

-----------------------------------------------------------------------------
(* The slave's call. *)

\* The device is asked by a master that reads and given a word by one that writes.
LEMMA ServedNow ==
  ASSUME BusInv, NEW word \in Words, Slave(word), NEW m \in Masters
  PROVE  /\ served[m] \in Seq(Words) /\ served'[m] \in Seq(Words)
         /\ rconn = m => wconn # m /\ served'[m] = IF devRead THEN Append(served[m], word) ELSE served[m]
         /\ wconn = m => served'[m] = IF devWriteFlag THEN Append(served[m], dout[m]) ELSE served[m]
         /\ m \notin {rconn, wconn} => served'[m] = served[m]
  <1>1. served[m] \in Seq(Words) /\ served'[m] \in Seq(Words)
    BY SlaveTyped DEF BusInv, BusTypes
  <1>2. ASSUME rconn = m, wconn = m PROVE FALSE
    BY <1>2, Connected, MasterFacts DEF ReadBefore, WriteBefore, Reads, Writes, Slave, Call
  <1>3. served'[m] = CASE devRead /\ m = rconn -> Append(served[m], word)
                       [] devWriteFlag /\ m = wconn -> Append(served[m], dout[m])
                       [] OTHER -> served[m]
    BY DEF Slave
  <1>4. ASSUME devRead PROVE rconn \in Masters
    BY <1>4 DEF devRead, BusInv, BusTypes, ReadPhases
  <1> QED BY <1>1, <1>2, <1>3

\* The slave's call takes a read channel that is connected from one phase to the next.
LEMMA SlaveReads ==
  ASSUME CountedOps, BusInv, NEW word \in Words, Slave(word), NEW m \in Masters, rconn = m
  PROVE  ReadMid(m)'
  <1>1. /\ ReadBefore(m) /\ turn = 0
        /\ ReadIdle \/ ReadAccept \/ ReadAnswer(word) \/ ReadEnd
    BY Connected, MasterFacts DEF Slave, Call
  <1>2. /\ rw_state'[m] = rw_state[m] /\ req'[m] = req[m] /\ out'[m] = out[m]
        /\ burst_count'[m] = burst_count[m] /\ got'[m] = got[m] /\ min'[m] = min[m]
        /\ mdata'[m] = mdata[m] /\ rowner' = rowner /\ dout'[m] = dout[m]
    BY DEF Slave, mvars, cvars
  <1>3. Reads(m)'
    BY <1>1, <1>2 DEF ReadBefore, Reads
  <1>4. /\ served[m] \in Seq(Words) /\ got[m] \in Seq(Words) /\ mdata[m] \in Words
        /\ burst_count_r \in Nat
        /\ served'[m] = IF devRead THEN Append(served[m], word) ELSE served[m]
    BY ServedNow DEF BusInv, BusTypes
  <1>5. req[m].len \in Nat /\ req[m].len % CountMod = req[m].len
    BY <1>1, OpFacts, CountIsNat DEF ReadBefore, Reads, CountedOps
  <1>6. RSees("raddr") <=> "raddr" \in out[m]
    BY MasterFacts DEF RSees
  <1>7. RSees("rdat") <=> "rdat" \in out[m]
    BY MasterFacts DEF RSees
  <1>8. CASE RBAsked(m)
    <2>1. ReadAccept /\ ~devRead
      BY <1>1, <1>6, <1>8
         DEF RBAsked, RWires, RChan, ReadIdle, ReadAnswer, ReadEnd, devRead
    <2>2. served'[m] = <<>> /\ got'[m] = <<>>
      BY <1>2, <1>4, <1>8, <2>1 DEF RBAsked, NoneYet
    <2>3. ~burst_end_r' /\ burst_count_r' + Len(served'[m]) = req'[m].len
      BY <1>2, <1>5, <2>1, <2>2 DEF ReadAccept
    <2>4. RMAccepted(m)'
      BY <1>2, <1>8, <2>1, <2>2, <2>3
         DEF RMAccepted, RBAsked, RWires, ReadAccept, NoneYet, Counts, RA
    <2> QED BY <1>3, <2>4 DEF ReadMid
  <1>9. CASE RBAccepted(m)
    <2>1. ReadAnswer(word) /\ devRead /\ RSees("rdat")
      BY <1>1, <1>7, <1>9
         DEF RBAccepted, RWires, RChan, ReadIdle, ReadAccept, ReadEnd, devRead, Counts
    <2>2. /\ served[m] = <<>> /\ got[m] = <<>> /\ burst_count_r = req[m].len /\ ~burst_end_r
          /\ out[m] = RChan /\ min[m] = RA /\ rowner = m
      BY <1>4, <1>5, <1>9 DEF RBAccepted, RWires, NoneYet, Counts
    <2>3. rdata' = word /\ served'[m] = Append(got[m], word) /\ Len(served'[m]) = 1
      BY <1>4, <2>1, <2>2 DEF ReadAnswer
    <2>4. CASE burst_count_r = 0
      <3>1. r_state' = "R_End" /\ rout' = RL
        BY <2>1, <2>4 DEF ReadAnswer, RL
      <3>2. RMOnly(m)'
        BY <1>2, <2>2, <2>3, <2>4, <3>1 DEF RMOnly, RWires
      <3> QED BY <1>3, <3>2 DEF ReadMid
    <2>5. CASE burst_count_r # 0
      <3>1. r_state' = "R_Addr" /\ rout' = RD /\ ~burst_end_r' /\ burst_count_r' = burst_count_r - 1
        BY <2>1, <2>5 DEF ReadAnswer, RD
      <3>2. Counts(m)'
        BY <1>2, <1>4, <1>5, <2>2, <2>3, <3>1 DEF Counts
      <3>3. RMFirst(m)'
        BY <1>2, <2>2, <2>3, <3>1, <3>2 DEF RMFirst, RWires
      <3> QED BY <1>3, <3>3 DEF ReadMid
    <2> QED BY <2>4, <2>5
  <1>10. CASE RBWord(m)
    <2>1. ReadAnswer(word) /\ devRead /\ RSees("rdat")
      BY <1>1, <1>7, <1>10
         DEF RBWord, RWires, RD, ReadIdle, ReadAccept, ReadEnd, devRead, Counts
    <2>2. /\ served[m] = Append(got[m], mdata[m]) /\ burst_count_r + Len(served[m]) = req[m].len
          /\ ~burst_end_r /\ out[m] = RD /\ min[m] = RD /\ rowner = m
      BY <1>10 DEF RBWord, RWires, Shown, Counts
    <2>3. /\ rdata' = word /\ served'[m] = Append(Append(got[m], mdata[m]), word)
          /\ Len(served'[m]) = Len(served[m]) + 1 /\ Len(served[m]) \in Nat
      BY <1>4, <2>1, <2>2 DEF ReadAnswer
    <2>4. CASE burst_count_r = 0
      <3>1. r_state' = "R_End" /\ rout' = RL
        BY <2>1, <2>4 DEF ReadAnswer, RL
      <3>2. Len(served'[m]) = req[m].len + 1
        BY <1>5, <2>2, <2>3, <2>4
      <3>3. RMLast(m)'
        BY <1>2, <2>2, <2>3, <3>1, <3>2 DEF RMLast, RWires
      <3> QED BY <1>3, <3>3 DEF ReadMid
    <2>5. CASE burst_count_r # 0
      <3>1. r_state' = "R_Addr" /\ rout' = RD /\ ~burst_end_r' /\ burst_count_r' = burst_count_r - 1
        BY <2>1, <2>5 DEF ReadAnswer, RD
      <3>2. Counts(m)'
        <4>1. Len(served'[m]) = Len(served[m]) + 1 /\ Len(served[m]) \in Nat
          BY <2>3
        <4>2. burst_count_r' = burst_count_r - 1 /\ burst_count_r \in Nat
          BY <1>4, <3>1
        <4>3. burst_count_r + Len(served[m]) = req[m].len
          BY <2>2
        <4>4. burst_count_r' + Len(served'[m]) = req[m].len
          BY <4>1, <4>2, <4>3
        <4> QED BY <1>2, <3>1, <4>4 DEF Counts
      <3>3. RMWord(m)'
        BY <1>2, <2>2, <2>3, <3>1, <3>2 DEF RMWord, RWires
      <3> QED BY <1>3, <3>3 DEF ReadMid
    <2> QED BY <2>4, <2>5
  <1>11. CASE RBLast(m)
    <2>1. ReadEnd /\ ~devRead /\ ~RSees("raddr")
      BY <1>1, <1>6, <1>11
         DEF RBLast, RWires, RD, ReadIdle, ReadAccept, ReadAnswer, devRead
    <2>2. r_state' = "R_Init" /\ rout' = {}
      BY <2>1 DEF ReadEnd
    <2>3. RMOver(m)'
      BY <1>2, <1>4, <1>11, <2>1, <2>2 DEF RMOver, RBLast, RWires, Shown
    <2> QED BY <1>3, <2>3 DEF ReadMid
  <1> QED BY <1>1, <1>8, <1>9, <1>10, <1>11 DEF ReadBefore

\* The same for a write channel.
LEMMA SlaveWrites ==
  ASSUME CountedOps, BusInv, NEW word \in Words, Slave(word), NEW m \in Masters, wconn = m
  PROVE  WriteMid(m)'
  <1>1. /\ WriteBefore(m) /\ turn = 0
        /\ WriteIdle \/ WriteAccept \/ WriteWait \/ WriteData \/ WriteEnd
    BY Connected, MasterFacts DEF Slave, Call
  <1>2. /\ rw_state'[m] = rw_state[m] /\ req'[m] = req[m] /\ out'[m] = out[m]
        /\ burst_count'[m] = burst_count[m] /\ got'[m] = got[m] /\ min'[m] = min[m]
        /\ dout'[m] = dout[m] /\ wowner' = wowner
    BY DEF Slave, mvars, cvars
  <1>3. /\ served[m] \in Seq(Words) /\ dout[m] \in Words
        /\ burst_count_w \in Nat
        /\ served'[m] = IF devWriteFlag THEN Append(served[m], dout[m]) ELSE served[m]
    BY ServedNow DEF BusInv, BusTypes
  <1>4. /\ req[m].len \in Nat /\ req[m].words \in Seq(Int) /\ Len(req[m].words) = req[m].len + 1
        /\ req[m].len % CountMod = req[m].len
    BY <1>1, OpFacts, CountIsNat DEF WriteBefore, Writes, CountedOps
  <1>5. devWriteFlag <=> w_state = "W_AddrData" /\ "wdat" \in out[m]
    BY MasterFacts DEF devWriteFlag, WSees
  <1>6. \A ch : WSees(ch) <=> ch \in out[m]
    BY MasterFacts DEF WSees
  <1>7. ASSUME served'[m] = served[m] PROVE Writes(m)'
    BY <1>1, <1>2, <1>7 DEF WriteBefore, Writes
  <1>8. ASSUME Shows(m), served'[m] = Append(served[m], dout[m])
        PROVE  Writes(m)' /\ Len(served'[m]) = Len(served[m]) + 1
    <2>1. /\ Len(served'[m]) = Len(served[m]) + 1 /\ served'[m][Len(served[m]) + 1] = dout[m]
          /\ \A i \in 1 .. Len(served[m]) : served'[m][i] = served[m][i]
      BY <1>3, <1>8, SeqFacts
    <2>2. ASSUME NEW i \in 1 .. Len(served'[m]) PROVE served'[m][i] = req[m].words[i]
      <3>1. CASE i \in 1 .. Len(served[m])
        BY <1>1, <2>1, <3>1 DEF WriteBefore, Writes
      <3>2. CASE i = Len(served[m]) + 1
        BY <1>8, <2>1, <3>2 DEF Shows
      <3> QED BY <1>3, <2>1, <3>1, <3>2
    <2> QED BY <1>1, <1>2, <2>1, <2>2 DEF WriteBefore, Writes
  <1>9. CASE WBAsked(m)
    <2>1. WriteAccept /\ ~devWriteFlag
      BY <1>1, <1>5, <1>6, <1>9
         DEF WBAsked, WWires, WChan, WA, WriteIdle, WriteWait, WriteData, WriteEnd
    <2>2. /\ served'[m] = <<>> /\ served[m] = <<>>
      BY <1>3, <1>9, <2>1 DEF WBAsked, Single, SetsUp
    <2>3. CountsW(m)'
      BY <1>2, <1>4, <2>1, <2>2 DEF WriteAccept, CountsW
    <2>4. CASE Single(m)
      <3>1. out[m] = WChan
        BY <2>4 DEF Single
      <3>2. w_state' = "W_AddrData" /\ wout' = WA
        BY <2>1, <2>4 DEF WriteAccept, Single, WA
      <3>3. wowner = m /\ min[m] = {}
        BY <1>9 DEF WBAsked, WWires
      <3>4. Single(m)'
        BY <1>2, <2>2, <2>4 DEF Single, Shows
      <3>5. WMSingle(m)'
        BY <1>2, <2>3, <3>1, <3>2, <3>3, <3>4 DEF WMSingle, WWires
      <3> QED BY <1>7, <2>2, <3>5 DEF WriteMid
    <2>5. CASE SetsUp(m)
      <3>1. out[m] = WA /\ req[m].len > 0
        BY <2>5 DEF SetsUp, WA
      <3>2. w_state' = "W_AddrData" /\ wout' = AD /\ writeBurstMode'
        BY <2>1, <3>1 DEF WriteAccept, AD
      <3>3. wowner = m /\ min[m] = {}
        BY <1>9 DEF WBAsked, WWires
      <3>4. SetsUp(m)'
        BY <1>2, <2>2, <2>5 DEF SetsUp
      <3>5. WMSetup(m)'
        BY <1>2, <2>3, <3>1, <3>2, <3>3, <3>4 DEF WMSetup, WWires
      <3> QED BY <1>7, <2>2, <3>5 DEF WriteMid
    <2> QED BY <1>9, <2>4, <2>5 DEF WBAsked
  <1>10. CASE WBSingle(m)
    <2>1. WriteData /\ devWriteFlag
      BY <1>1, <1>5, <1>6, <1>10
         DEF WBSingle, WWires, WChan, WriteIdle, WriteWait, WriteAccept, WriteEnd
    <2>2. /\ Shows(m) /\ served[m] = <<>> /\ req[m].len = 0 /\ burst_count[m] = 0
          /\ burst_count_w = 0 /\ out[m] = WChan /\ min[m] = WA /\ wowner = m
      BY <1>3, <1>10 DEF WBSingle, WWires, Single, CountsW, Shows, BusInv, BusTypes
    <2>3. w_state' = "W_End" /\ wout' = DR
      BY <2>1, <2>2 DEF WriteData, DR
    <2>4. Writes(m)' /\ Len(served'[m]) = 1
      BY <1>3, <1>8, <2>1, <2>2
    <2>5. WMOnly(m)'
      BY <1>2, <2>2, <2>3, <2>4 DEF WMOnly, WWires, AllServed, Shows
    <2> QED BY <2>4, <2>5 DEF WriteMid
  <1>11. CASE WBSetup(m)
    <2>1. WriteWait /\ ~devWriteFlag
      BY <1>1, <1>5, <1>6, <1>11
         DEF WBSetup, WWires, WA, WriteIdle, WriteData, WriteAccept, WriteEnd
    <2>2. w_state' = "W_AddrData" /\ wout' = WD
      BY <1>11, <2>1 DEF WriteWait, WD, WBSetup
    <2>3. served'[m] = served[m] /\ burst_count_w' = burst_count_w /\ waddr' = waddr
      BY <1>3, <2>1 DEF WriteWait
    <2>4. WMReady(m)'
      BY <1>2, <1>11, <2>2, <2>3 DEF WMReady, WBSetup, WWires, SetsUp, CountsW
    <2> QED BY <1>7, <2>3, <2>4 DEF WriteMid
  <1>12. CASE WBWord(m)
    <2>1. WriteData /\ devWriteFlag
      BY <1>1, <1>5, <1>6, <1>12
         DEF WBWord, WWires, DR, WriteIdle, WriteWait, WriteAccept, WriteEnd
    <2>2. /\ Shows(m) /\ burst_count_w + Len(served[m]) = req[m].len /\ waddr = req[m].addr
          /\ out[m] = DR /\ min[m] = WD /\ wowner = m
      BY <1>12 DEF WBWord, WWires, CountsW
    <2>3. Writes(m)' /\ Len(served'[m]) = Len(served[m]) + 1
      BY <1>3, <1>8, <2>1, <2>2
    <2>4. /\ rw_state[m] = "RW_WAddr" /\ burst_count[m] + Len(served[m]) = req[m].len
          /\ burst_count[m] \in Nat /\ Len(served[m]) \in Nat
      BY <1>3, <2>2 DEF Shows, BusInv, BusTypes
    <2>5. CASE burst_count_w = 0
      <3>1. w_state' = "W_End" /\ wout' = DR
        BY <2>1, <2>5 DEF WriteData, DR
      <3>2. burst_count[m] = 0 /\ Len(served'[m]) = req[m].len + 1
        BY <1>4, <2>2, <2>3, <2>4, <2>5
      <3>3. WMLast(m)'
        BY <1>2, <2>2, <2>4, <3>1, <3>2 DEF WMLast, WWires, AllServed
      <3> QED BY <2>3, <3>3 DEF WriteMid
    <2>6. CASE burst_count_w # 0
      <3>1. w_state' = "W_AddrData" /\ wout' = WD /\ burst_count_w' = burst_count_w - 1 /\ waddr' = waddr
        BY <2>1, <2>6 DEF WriteData, WD
      <3>2. /\ burst_count_w' + Len(served'[m]) = req[m].len
            /\ burst_count[m] + Len(served'[m]) = req[m].len + 1
        <4> DEFINE n == Len(served[m])
                   c == burst_count_w
                   b == burst_count[m]
        <4>4. c \in Nat
          BY DEF BusInv, BusTypes
        <4>1. /\ c + n = req[m].len /\ b + n = req[m].len
              /\ c \in Nat /\ n \in Nat /\ b \in Nat
          BY <2>2, <2>4, <4>4
        <4>2. burst_count_w' = c - 1 /\ Len(served'[m]) = n + 1
          BY <2>3, <3>1
        <4> HIDE DEF n, c, b
        <4>3. (c - 1) + (n + 1) = req[m].len /\ b + (n + 1) = req[m].len + 1
          BY <4>1
        <4> QED BY <4>2, <4>3 DEF b
      <3>3. WMWord(m)'
        BY <1>2, <2>2, <2>4, <3>1, <3>2 DEF WMWord, WWires, CountsW
      <3> QED BY <2>3, <3>3 DEF WriteMid
    <2> QED BY <2>5, <2>6
  <1>13. CASE WBLast(m)
    <2>1. WriteEnd /\ ~devWriteFlag /\ WSees("wres") /\ ~WSees("waddr")
      BY <1>1, <1>5, <1>6, <1>13
         DEF WBLast, WWires, DR, WR, WriteIdle, WriteWait, WriteAccept, WriteData
    <2>2. w_state' = "W_Init" /\ wout' = {}
      BY <2>1 DEF WriteEnd
    <2>3. served'[m] = served[m]
      BY <1>3, <2>1
    <2>4. WMOver(m)'
      BY <1>2, <1>13, <2>2, <2>3 DEF WMOver, WBLast, WWires, AllServed
    <2> QED BY <1>7, <2>3, <2>4 DEF WriteMid
  <1> QED BY <1>1, <1>9, <1>10, <1>11, <1>12, <1>13 DEF WriteBefore

\* The slave's call keeps the invariant of the bus.
LEMMA SlaveStep ==
  ASSUME CountedOps, BusInv, NEW word \in Words, Slave(word)
  PROVE  BusInv'
  <1>1. turn = 0 /\ turn' = 1
    BY MasterFacts DEF Slave, Call
  <1>2. rconn' = rconn /\ wconn' = wconn /\ rowner' = rowner /\ wowner' = wowner
    BY DEF Slave, cvars
  <1>4. ReadPhases'
    <2>1. ASSUME rconn = None PROVE r_state' = "R_Init" /\ rout' = {} /\ rowner' = None
      BY <1>2, <2>1 DEF Slave, BusInv, ReadPhases, ReadIdle, ReadAccept, ReadAnswer, ReadEnd, RSees, rvars
    <2>2. ASSUME NEW m \in Masters, rconn = m
          PROVE  turn' \in 1 .. m + 1 /\ ~(turn' > m + 1) /\ turn' # 0 /\ ReadMid(m)'
      <3>1. m \in Int /\ m >= 0
        BY MasterFacts DEF Masters
      <3> QED BY <1>1, <2>2, <3>1, SlaveReads
    <2> QED BY <1>2, <2>1, <2>2 DEF ReadPhases
  <1>5. WritePhases'
    <2>1. ASSUME wconn = None PROVE w_state' = "W_Init" /\ wout' = {} /\ wowner' = None
      BY <1>2, <2>1
         DEF Slave, BusInv, WritePhases, WriteIdle, WriteAccept, WriteWait, WriteData, WriteEnd,
             devWriteFlag, WSees, wvars
    <2>2. ASSUME NEW m \in Masters, wconn = m
          PROVE  turn' \in 1 .. m + 1 /\ ~(turn' > m + 1) /\ turn' # 0 /\ WriteMid(m)'
      <3>1. m \in Int /\ m >= 0
        BY MasterFacts DEF Masters
      <3> QED BY <1>1, <2>2, <3>1, SlaveWrites
    <2> QED BY <1>2, <2>1, <2>2 DEF WritePhases
  <1>6. MasterPhases'
    <2> SUFFICES ASSUME NEW m \in Masters
                 PROVE  /\ rw_state'[m] = "RW_Init" => Idle(m)'
                        /\ m \notin {rconn', wconn'} => min'[m] = {} /\ (Idle(m)' \/ Waits(m)')
      BY DEF MasterPhases
    <2>1. /\ rw_state'[m] = rw_state[m] /\ req'[m] = req[m] /\ out'[m] = out[m]
          /\ burst_count'[m] = burst_count[m] /\ got'[m] = got[m] /\ min'[m] = min[m]
          /\ dout'[m] = dout[m]
      BY DEF Slave, mvars, cvars
    <2>2. CASE m \in {rconn, wconn}
      <3>1. rw_state[m] # "RW_Init"
        BY <1>1, <2>2, Connected, MasterFacts DEF ReadBefore, Reads, WriteBefore, Writes
      <3> QED BY <1>2, <2>1, <2>2, <3>1
    <2>3. CASE m \notin {rconn, wconn}
      <3>1. served'[m] = served[m]
        BY <2>3, ServedNow
      <3>2. /\ rw_state[m] = "RW_Init" => Idle(m)
            /\ min[m] = {} /\ (Idle(m) \/ Waits(m))
        BY <2>3 DEF BusInv, MasterPhases
      <3>3. (Idle(m) => Idle(m)') /\ (Waits(m) => Waits(m)')
        BY <2>1, <3>1 DEF Idle, Waits, Reads, Writes, SetsUp, Single, Shows
      <3> QED BY <2>1, <3>2, <3>3
    <2> QED BY <2>2, <2>3
  <1> QED BY <1>4, <1>5, <1>6, SlaveTyped DEF BusInv

-----------------------------------------------------------------------------
(* A master's call. *)

SameMaster(k) ==
  /\ rw_state'[k] = rw_state[k] /\ req'[k] = req[k] /\ out'[k] = out[k] /\ dout'[k] = dout[k]
  /\ burst_count'[k] = burst_count[k] /\ got'[k] = got[k] /\ served'[k] = served[k]

MasterCall(m) == MasterFsm(m) \/ \E op \in Ops : MasterStarts(m, op)

\* The call of a master leaves the other masters and the slave alone.
LEMMA OthersStay ==
  ASSUME BusTypes, NEW m \in Masters, NEW k \in Masters, k # m, MasterCall(m)
  PROVE  SameMaster(k)
  <1>1. CASE MasterIdle(m)
    BY <1>1 DEF MasterIdle, SameMaster, mvars
  <1>2. CASE AwaitRead(m)
    BY <1>2 DEF AwaitRead, Ends, SameMaster, BusTypes
  <1>3. CASE SetupBurst(m)
    BY <1>3 DEF SetupBurst, SameMaster, BusTypes
  <1>4. CASE AwaitWrite(m)
    BY <1>4 DEF AwaitWrite, Ends, SameMaster, BusTypes
  <1>5. CASE \E op \in Ops : Issue(m, op)
    BY <1>5 DEF Issue, SameMaster, BusTypes
  <1> QED BY <1>1, <1>2, <1>3, <1>4, <1>5 DEF MasterCall, MasterFsm, MasterStarts

\* A phase is a matter of the variables it names.
LEMMA Frame ==
  ASSUME NEW k \in Masters, SameMaster(k), UNCHANGED <<rvars, wvars, cvars>>
  PROVE  /\ ReadMid(k) => ReadMid(k)'
         /\ ReadAfter(k) => ReadAfter(k)'
         /\ WriteMid(k) => WriteMid(k)'
         /\ WriteAfter(k) => WriteAfter(k)'
         /\ Idle(k) => Idle(k)'
         /\ Waits(k) => Waits(k)'
         /\ min'[k] = min[k] /\ rw_state'[k] = rw_state[k]
  <1>1. /\ rw_state'[k] = rw_state[k] /\ req'[k] = req[k] /\ out'[k] = out[k] /\ dout'[k] = dout[k]
        /\ burst_count'[k] = burst_count[k] /\ got'[k] = got[k] /\ served'[k] = served[k]
        /\ min'[k] = min[k] /\ mdata'[k] = mdata[k]
    BY DEF SameMaster, cvars
  <1>2. /\ r_state' = r_state /\ rout' = rout /\ rdata' = rdata /\ burst_end_r' = burst_end_r
        /\ burst_count_r' = burst_count_r /\ rowner' = rowner
    BY DEF rvars, cvars
  <1>3. /\ w_state' = w_state /\ wout' = wout /\ waddr' = waddr /\ burst_count_w' = burst_count_w
        /\ writeBurstMode' = writeBurstMode /\ wowner' = wowner
    BY DEF wvars, cvars
  <1>4. Reads(k)' = Reads(k) /\ Idle(k)' = Idle(k)
    BY <1>1 DEF Reads, Idle
  <1>5. Writes(k)' = Writes(k)
    BY <1>1 DEF Writes
  <1>6. SetsUp(k)' = SetsUp(k) /\ Single(k)' = Single(k) /\ Shows(k)' = Shows(k)
    BY <1>1 DEF SetsUp, Single, Shows
  <1>7. /\ AllServed(k)' = AllServed(k) /\ CountsW(k)' = CountsW(k)
        /\ Counts(k)' = Counts(k) /\ NoneYet(k)' = NoneYet(k) /\ Shown(k)' = Shown(k)
    BY <1>1, <1>2, <1>3 DEF AllServed, CountsW, Counts, NoneYet, Shown
  <1>8. /\ \A st, o, a, own : RWires(k, st, o, a, own)' = RWires(k, st, o, a, own)
        /\ \A st, o, a, own : WWires(k, st, o, a, own)' = WWires(k, st, o, a, own)
    BY <1>1, <1>2, <1>3 DEF RWires, WWires
  <1>9. ReadMid(k) => ReadMid(k)'
    BY <1>1, <1>2, <1>4, <1>7, <1>8
       DEF ReadMid, RMAccepted, RMFirst, RMOnly, RMWord, RMLast, RMOver
  <1>10. ReadAfter(k) => ReadAfter(k)'
    BY <1>1, <1>2, <1>4, <1>7, <1>8
       DEF ReadAfter, RAAccepted, RAWord, RALast, RAOver
  <1>11. WriteMid(k) => WriteMid(k)'
    BY <1>1, <1>3, <1>5, <1>6, <1>7, <1>8
       DEF WriteMid, WMSingle, WMSetup, WMOnly, WMReady, WMWord, WMLast, WMOver
  <1>12. WriteAfter(k) => WriteAfter(k)'
    BY <1>1, <1>3, <1>4, <1>5, <1>6, <1>7, <1>8
       DEF WriteAfter, WASingle, WASetup, WAWord, WALast, WAOver
  <1>13. Waits(k) => Waits(k)'
    BY <1>1, <1>4, <1>5, <1>6 DEF Waits
  <1> QED BY <1>1, <1>4, <1>9, <1>10, <1>11, <1>12, <1>13

\* What a master's call does, given the handshakes that are left afterwards.
LEMMA ReadEffect ==
  ASSUME BusTypes, NEW m \in Masters, AwaitRead(m), NEW left,
         left = out[m] \ (min[m] \cap (IF burst_count[m] = 0 THEN RChan ELSE {"raddr"}))
  PROVE  /\ out'[m] = left /\ dout'[m] = dout[m]
         /\ burst_count'[m] = IF "rdat" \in min[m] /\ burst_count[m] # 0 THEN burst_count[m] - 1
                              ELSE burst_count[m]
         /\ left = {} => /\ rw_state'[m] = "RW_Init" /\ req'[m] = None
                         /\ served'[m] = <<>> /\ got'[m] = <<>>
         /\ left # {} => /\ rw_state'[m] = rw_state[m] /\ req'[m] = req[m]
                         /\ served'[m] = served[m] /\ got'[m] = Received(m)
  BY DEF AwaitRead, Ends, BusTypes

\* What the call of a master that writes does.
LEMMA WriteEffect ==
  ASSUME BusTypes, NEW m \in Masters, AwaitWrite(m), NEW left,
         left = out[m] \ (min[m] \cap (IF burst_count[m] = 0 THEN WChan ELSE {"waddr", "wres"}))
  PROVE  /\ out'[m] = left /\ got'[m] = got[m]
         /\ "wdat" \in out[m] \cap min[m] /\ burst_count[m] # 0 =>
              /\ dout'[m] = req[m].words[req[m].len - burst_count[m] + 2]
              /\ burst_count'[m] = burst_count[m] - 1
         /\ ~("wdat" \in out[m] \cap min[m] /\ burst_count[m] # 0) =>
              /\ dout'[m] = IF "wdat" \in left THEN dout[m] ELSE None
              /\ burst_count'[m] = burst_count[m]
         /\ left = {} => rw_state'[m] = "RW_Init" /\ req'[m] = None /\ served'[m] = <<>>
         /\ left # {} => rw_state'[m] = rw_state[m] /\ req'[m] = req[m] /\ served'[m] = served[m]
  BY DEF AwaitWrite, Ends, BusTypes

\* What the call of a master that sets up a burst does.
LEMMA SetupEffect ==
  ASSUME BusTypes, NEW m \in Masters, SetupBurst(m), "waddr" \in out[m]
  PROVE  /\ req'[m] = req[m] /\ burst_count'[m] = burst_count[m] /\ got'[m] = got[m]
         /\ served'[m] = served[m]
         /\ min[m] = {} => SameMaster(m)
         /\ min[m] = AD => /\ out'[m] = DR /\ rw_state'[m] = "RW_WAddr"
                           /\ dout'[m] = req[m].words[1]
  BY DEF SetupBurst, BusTypes, SameMaster, AD, DR

\* The call of a master that reads takes its channel to a phase after the call.
LEMMA MasterReads ==
  ASSUME BusInv, NEW m \in Masters, MasterFsm(m), ReadMid(m)
  PROVE  /\ ReadAfter(m)'
         /\ rw_state'[m] = "RW_Init" =>
              Received(m) = served[m] /\ Len(served[m]) = req[m].len + 1
  <1>1. /\ AwaitRead(m) /\ Reads(m)
        /\ UNCHANGED <<rvars, cvars>>
    BY DEF MasterFsm, MasterIdle, SetupBurst, AwaitWrite, ReadMid, Reads
  <1>2. /\ r_state' = r_state /\ rout' = rout /\ rdata' = rdata /\ burst_end_r' = burst_end_r
        /\ burst_count_r' = burst_count_r /\ rowner' = rowner
    BY <1>1 DEF rvars, cvars
  <1>3. /\ got[m] \in Seq(Words) /\ served[m] \in Seq(Words) /\ mdata[m] \in Words /\ rdata \in Words
        /\ burst_count[m] \in Nat /\ burst_count_r \in Nat
        /\ Len(got[m]) \in Nat /\ Len(served[m]) \in Nat
        /\ Len(Append(got[m], mdata[m])) = Len(got[m]) + 1
    <2>1. /\ got[m] \in Seq(Words) /\ served[m] \in Seq(Words) /\ mdata[m] \in Words
          /\ rdata \in Words /\ burst_count[m] \in Nat /\ burst_count_r \in Nat
      BY DEF BusInv, BusTypes
    <2> QED BY <2>1, SeqFacts
  <1>4. /\ rw_state[m] = "RW_RAddr" /\ req[m] \in Ops /\ req[m].kind = "Read"
        /\ burst_count[m] + Len(got[m]) = req[m].len /\ req[m].len \in Nat /\ dout[m] = None
    BY <1>1, OpFacts DEF Reads
  <1> DEFINE left == out[m] \ (min[m] \cap (IF burst_count[m] = 0 THEN RChan ELSE {"raddr"}))
  <1>5. BusTypes
    BY DEF BusInv
  <1>6. /\ out'[m] = left /\ dout'[m] = dout[m]
        /\ burst_count'[m] = IF "rdat" \in min[m] /\ burst_count[m] # 0 THEN burst_count[m] - 1
                             ELSE burst_count[m]
        /\ left = {} => /\ rw_state'[m] = "RW_Init" /\ req'[m] = None
                        /\ served'[m] = <<>> /\ got'[m] = <<>>
        /\ left # {} => /\ rw_state'[m] = rw_state[m] /\ req'[m] = req[m]
                        /\ served'[m] = served[m] /\ got'[m] = Received(m)
    BY <1>1, <1>5, ReadEffect
  <1>7. /\ "rdat" \in min[m] => Received(m) = Append(got[m], mdata[m])
        /\ "rdat" \notin min[m] => Received(m) = got[m]
    BY DEF Received
  <1>8. CASE RMAccepted(m)
    <2>1. left = RChan /\ left # {} /\ "rdat" \notin min[m]
      BY <1>8 DEF RMAccepted, RWires, RChan
    <2> HIDE DEF left
    <2>2. RAAccepted(m)'
      BY <1>2, <1>4, <1>6, <1>7, <1>8, <2>1
         DEF RAAccepted, RMAccepted, RWires, NoneYet, Counts, Reads
    <2> QED BY <1>4, <1>6, <2>1, <2>2 DEF ReadAfter
  <1>9. CASE RMFirst(m) \/ RMOnly(m)
    <2>1. left = RD /\ left # {} /\ "rdat" \notin min[m]
      BY <1>9 DEF RMFirst, RMOnly, RWires, RChan, RA, RD
    <2> HIDE DEF left
    <2>2. CASE RMFirst(m)
      <3>1. RAWord(m)'
        BY <1>2, <1>4, <1>6, <1>7, <2>1, <2>2 DEF RAWord, RMFirst, RWires, Counts, Reads
      <3> QED BY <1>4, <1>6, <2>1, <3>1 DEF ReadAfter
    <2>3. CASE RMOnly(m)
      <3>1. burst_count[m] = 0
        BY <1>3, <1>4, <2>3 DEF RMOnly
      <3>2. RALast(m)'
        BY <1>2, <1>4, <1>6, <1>7, <2>1, <2>3, <3>1 DEF RALast, RMOnly, RWires, Reads
      <3> QED BY <1>4, <1>6, <2>1, <3>2 DEF ReadAfter
    <2> QED BY <1>9, <2>2, <2>3
  <1>10. CASE RMWord(m)
    <2>1. Len(served[m]) = Len(got[m]) + 2
      BY <1>3, <1>10, SeqFacts DEF RMWord
    <2>2. burst_count[m] # 0
      BY <1>3, <1>4, <1>10, <2>1 DEF RMWord, Counts
    <2>3. left = RD /\ left # {} /\ "rdat" \in min[m]
      BY <1>10, <2>2 DEF RMWord, RWires, RD
    <2> HIDE DEF left
    <2>4. burst_count'[m] + Len(got'[m]) = req[m].len
      <3>1. got'[m] = Append(got[m], mdata[m]) /\ burst_count'[m] = burst_count[m] - 1
        BY <1>6, <1>7, <2>2, <2>3
      <3>2. Len(got'[m]) = Len(got[m]) + 1
        BY <1>3, <3>1
      <3> DEFINE b == burst_count[m]
                 n == Len(got[m])
      <3>3. b + n = req[m].len /\ b \in Nat /\ n \in Nat
        BY <1>3, <1>4
      <3> HIDE DEF b, n
      <3>4. (b - 1) + (n + 1) = req[m].len
        BY <3>3
      <3> QED BY <3>1, <3>2, <3>4 DEF b, n
    <2>5. Reads(m)'
      BY <1>4, <1>6, <2>3, <2>4 DEF Reads
    <2>6. RAWord(m)'
      BY <1>2, <1>6, <1>7, <1>10, <2>3, <2>5 DEF RAWord, RMWord, RWires, Counts
    <2> QED BY <1>4, <1>6, <2>3, <2>6 DEF ReadAfter
  <1>11. CASE RMLast(m)
    <2>1. Len(served[m]) = Len(got[m]) + 2
      BY <1>3, <1>11, SeqFacts DEF RMLast
    <2>2. burst_count[m] = 1
      BY <1>3, <1>4, <1>11, <2>1 DEF RMLast
    <2>3. left = RD /\ left # {} /\ "rdat" \in min[m]
      BY <1>11, <2>2 DEF RMLast, RWires, RD
    <2> HIDE DEF left
    <2>4. Reads(m)' /\ burst_count'[m] = 0
      BY <1>3, <1>4, <1>6, <1>7, <2>2, <2>3 DEF Reads
    <2>5. RALast(m)'
      BY <1>2, <1>6, <1>7, <1>11, <2>3, <2>4 DEF RALast, RMLast, RWires
    <2> QED BY <1>4, <1>6, <2>3, <2>5 DEF ReadAfter
  <1>12. CASE RMOver(m)
    <2>1. left = {} /\ "rdat" \in min[m]
      BY <1>12 DEF RMOver, RWires, RD, RL, RChan
    <2> HIDE DEF left
    <2>2. RAOver(m)'
      BY <1>2, <1>4, <1>6, <1>12, <2>1 DEF RAOver, RMOver, RWires, Idle
    <2>3. Received(m) = served[m] /\ Len(served[m]) = req[m].len + 1
      BY <1>3, <1>4, <1>7, <1>12, <2>1 DEF RMOver, Shown
    <2> QED BY <2>2, <2>3 DEF ReadAfter
  <1> QED BY <1>8, <1>9, <1>10, <1>11, <1>12 DEF ReadMid

\* Sequences of one length with the same elements are equal.
LEMMA SameSeq ==
  ASSUME NEW s \in Seq(Words), NEW t \in Seq(Words), Len(s) = Len(t),
         \A i \in 1 .. Len(s) : s[i] = t[i]
  PROVE  s = t
  OBVIOUS

\* The call of a master that writes takes its channel to a phase after the call.
LEMMA MasterWrites ==
  ASSUME BusInv, NEW m \in Masters, MasterFsm(m), WriteMid(m)
  PROVE  /\ WriteAfter(m)'
         /\ rw_state'[m] = "RW_Init" => served[m] = req[m].words
  <1>1. /\ AwaitWrite(m) \/ SetupBurst(m)
        /\ Writes(m) /\ UNCHANGED <<wvars, cvars>>
    BY DEF MasterFsm, MasterIdle, AwaitRead, WriteMid, Writes
  <1>2. /\ w_state' = w_state /\ wout' = wout /\ waddr' = waddr /\ burst_count_w' = burst_count_w
        /\ writeBurstMode' = writeBurstMode /\ wowner' = wowner
    BY <1>1 DEF wvars, cvars
  <1>3. /\ served[m] \in Seq(Words) /\ burst_count[m] \in Nat /\ burst_count_w \in Nat
        /\ Len(served[m]) \in Nat
    BY DEF BusInv, BusTypes
  <1>4. /\ req[m] \in Ops /\ req[m].kind = "Write" /\ got[m] = <<>>
        /\ req[m].len \in Nat /\ req[m].words \in Seq(Int) /\ Len(req[m].words) = req[m].len + 1
        /\ rw_state[m] # "RW_Init"
    BY <1>1, OpFacts DEF Writes
  <1>5. BusTypes
    BY DEF BusInv
  <1> DEFINE next == "wdat" \in out[m] \cap min[m] /\ burst_count[m] # 0
             left == out[m] \ (min[m] \cap (IF burst_count[m] = 0 THEN WChan ELSE {"waddr", "wres"}))
  <1>6. ASSUME AwaitWrite(m)
        PROVE  /\ out'[m] = left /\ got'[m] = got[m]
               /\ next => /\ dout'[m] = req[m].words[req[m].len - burst_count[m] + 2]
                          /\ burst_count'[m] = burst_count[m] - 1
               /\ ~next => /\ dout'[m] = IF "wdat" \in left THEN dout[m] ELSE None
                           /\ burst_count'[m] = burst_count[m]
               /\ left = {} => rw_state'[m] = "RW_Init" /\ req'[m] = None /\ served'[m] = <<>>
               /\ left # {} => rw_state'[m] = rw_state[m] /\ req'[m] = req[m] /\ served'[m] = served[m]
    BY <1>5, <1>6, WriteEffect
  <1>7. ASSUME rw_state'[m] \in {"RW_WBurstSetup", "RW_WAddr"}, req'[m] = req[m],
               served'[m] = served[m], got'[m] = got[m]
        PROVE  Writes(m)' /\ rw_state'[m] # "RW_Init"
    BY <1>1, <1>7 DEF Writes
  <1>8. ASSUME rw_state[m] = "RW_WAddr" PROVE AwaitWrite(m)
    BY <1>1, <1>8 DEF SetupBurst
  <1>9. ASSUME rw_state[m] = "RW_WBurstSetup" PROVE SetupBurst(m)
    BY <1>1, <1>9 DEF AwaitWrite
  <1>10. CASE WMSingle(m)
    <2>1. /\ rw_state[m] = "RW_WAddr" /\ out[m] = WChan /\ min[m] = {} /\ AwaitWrite(m)
      BY <1>8, <1>10 DEF WMSingle, Single, Shows
    <2>2. left = WChan /\ "wdat" \in left /\ left # {} /\ ~next
      BY <2>1 DEF WChan
    <2> HIDE DEF left, next
    <2>3. SameMaster(m)
      BY <1>6, <2>1, <2>2 DEF SameMaster
    <2>4. Single(m)' /\ CountsW(m)'
      BY <1>2, <1>10, <2>3 DEF SameMaster, WMSingle, Single, Shows, CountsW
    <2>5. Writes(m)' /\ rw_state'[m] # "RW_Init"
      BY <1>7, <2>1, <2>3 DEF SameMaster
    <2>6. WASingle(m)'
      BY <1>2, <1>10, <2>3, <2>4, <2>5 DEF WASingle, WMSingle, WWires, SameMaster
    <2> QED BY <2>5, <2>6 DEF WriteAfter
  <1>11. CASE WMSetup(m)
    <2>1. SetupBurst(m) /\ "waddr" \in out[m] /\ min[m] = {} /\ rw_state[m] = "RW_WBurstSetup"
      BY <1>9, <1>11 DEF WMSetup, SetsUp
    <2>2. SameMaster(m)
      BY <1>5, <2>1, SetupEffect
    <2>3. Writes(m)' /\ rw_state'[m] # "RW_Init"
      BY <1>7, <2>1, <2>2 DEF SameMaster
    <2>4. SetsUp(m)' /\ CountsW(m)'
      BY <1>2, <1>11, <2>2 DEF SameMaster, WMSetup, SetsUp, CountsW
    <2>5. WASetup(m)'
      BY <1>2, <1>11, <2>2, <2>3, <2>4 DEF WASetup, WMSetup, WWires, SameMaster
    <2> QED BY <2>3, <2>5 DEF WriteAfter
  <1>12. CASE WMOnly(m) \/ WMLast(m)
    <2>1. AwaitWrite(m) /\ rw_state[m] = "RW_WAddr" /\ AllServed(m) /\ burst_count[m] = 0
      BY <1>8, <1>12 DEF WMOnly, WMLast, AllServed
    <2>2. (left = DR \/ left = WR) /\ left # {} /\ ~next
      BY <1>12, <2>1 DEF WMOnly, WMLast, WWires, WChan, WA, WD, DR, WR
    <2> HIDE DEF left, next
    <2>3. Writes(m)' /\ rw_state'[m] # "RW_Init"
      BY <1>6, <1>7, <2>1, <2>2
    <2>4. AllServed(m)'
      BY <1>6, <2>1, <2>2 DEF AllServed
    <2>5. w_state = "W_End" /\ wout = DR /\ wowner = m
      BY <1>12 DEF WMOnly, WMLast, WWires
    <2>6. WALast(m)'
      BY <1>2, <1>6, <2>1, <2>2, <2>3, <2>4, <2>5 DEF WALast, WWires
    <2> QED BY <2>3, <2>6 DEF WriteAfter
  <1>13. CASE WMReady(m)
    <2>1. /\ SetupBurst(m) /\ "waddr" \in out[m] /\ min[m] = AD /\ rw_state[m] = "RW_WBurstSetup"
          /\ served[m] = <<>> /\ burst_count[m] = req[m].len
      BY <1>9, <1>13 DEF WMReady, SetsUp
    <2>2. /\ req'[m] = req[m] /\ burst_count'[m] = burst_count[m] /\ got'[m] = got[m]
          /\ served'[m] = served[m] /\ out'[m] = DR /\ rw_state'[m] = "RW_WAddr"
          /\ dout'[m] = req[m].words[1]
      BY <1>5, <2>1, SetupEffect
    <2>3. Writes(m)' /\ rw_state'[m] # "RW_Init"
      BY <1>7, <2>2
    <2>4. Shows(m)' /\ CountsW(m)'
      BY <1>2, <1>4, <1>13, <2>1, <2>2 DEF WMReady, Shows, CountsW
    <2>5. WAWord(m)'
      BY <1>2, <1>13, <2>2, <2>3, <2>4 DEF WAWord, WMReady, WWires
    <2> QED BY <2>3, <2>5 DEF WriteAfter
  <1>14. CASE WMWord(m)
    <2>1. /\ AwaitWrite(m) /\ rw_state[m] = "RW_WAddr" /\ out[m] = DR /\ min[m] = WD
          /\ burst_count[m] + Len(served[m]) = req[m].len + 1
          /\ burst_count_w + Len(served[m]) = req[m].len
      BY <1>8, <1>14 DEF WMWord, WWires, CountsW
    <2>2. /\ burst_count[m] # 0 /\ Len(served[m]) <= req[m].len
          /\ req[m].len - burst_count[m] + 2 = Len(served[m]) + 1
          /\ burst_count[m] - 1 + Len(served[m]) = req[m].len
      <3>1. /\ burst_count[m] \in Nat /\ burst_count_w \in Nat /\ Len(served[m]) \in Nat
            /\ req[m].len \in Nat
        BY <1>3, <1>4
      <3>2. /\ burst_count[m] + Len(served[m]) = req[m].len + 1
            /\ burst_count_w + Len(served[m]) = req[m].len
        BY <2>1
      <3> QED BY <3>1, <3>2, SMTT(30)
    <2>3. left = DR /\ left # {} /\ next
      BY <2>1, <2>2 DEF WD, DR
    <2> HIDE DEF left, next
    <2>4. Writes(m)' /\ rw_state'[m] # "RW_Init"
      BY <1>6, <1>7, <2>1, <2>3
    <2>6. /\ dout'[m] = req[m].words[Len(served[m]) + 1]
          /\ burst_count'[m] = burst_count[m] - 1
          /\ rw_state'[m] = "RW_WAddr" /\ req'[m] = req[m] /\ served'[m] = served[m]
          /\ out'[m] = DR
      BY <1>6, <2>1, <2>2, <2>3
    <2>7. Shows(m)'
      BY <2>2, <2>6 DEF Shows
    <2>8. CountsW(m)'
      BY <1>2, <1>14, <2>6 DEF WMWord, CountsW
    <2>9. WAWord(m)'
      BY <1>2, <1>14, <2>4, <2>6, <2>7, <2>8 DEF WAWord, WMWord, WWires
    <2> QED BY <2>4, <2>9 DEF WriteAfter
  <1>15. CASE WMOver(m)
    <2>1. AwaitWrite(m) /\ burst_count[m] = 0 /\ Len(served[m]) = req[m].len + 1
      BY <1>8, <1>15 DEF WMOver, AllServed
    <2>2. left = {} /\ ~next
      BY <1>15, <2>1 DEF WMOver, WWires, WChan, DR, WR
    <2> HIDE DEF left, next
    <2>3. WAOver(m)'
      BY <1>2, <1>4, <1>6, <1>15, <2>1, <2>2 DEF WAOver, WMOver, WWires, Idle
    <2>4. req[m].words \in Seq(Words)
      BY <1>4 DEF Words
    <2>5. served[m] = req[m].words
      BY <1>1, <1>3, <1>4, <2>1, <2>4, SameSeq DEF Writes
    <2> QED BY <2>3, <2>5 DEF WriteAfter
  <1> QED BY <1>10, <1>11, <1>12, <1>13, <1>14, <1>15 DEF WriteMid

\* A master that no channel is connected to is told nothing: it stays, or issues
\* an operation.
LEMMA MasterAlone ==
  ASSUME BusInv, NEW m \in Masters, MasterCall(m), m \notin {rconn, wconn}
  PROVE  /\ Idle(m)' \/ Waits(m)'
         /\ rw_state[m] # "RW_Init" => rw_state'[m] # "RW_Init"
  <1>1. /\ min[m] = {} /\ (Idle(m) \/ Waits(m)) /\ BusTypes
        /\ UNCHANGED <<rvars, wvars, cvars>>
    BY DEF BusInv, MasterPhases, MasterCall, MasterFsm, MasterStarts
  <1>2. ASSUME SameMaster(m)
        PROVE  /\ Idle(m)' \/ Waits(m)'
               /\ rw_state[m] # "RW_Init" => rw_state'[m] # "RW_Init"
    BY <1>1, <1>2, Frame
  <1>3. CASE Idle(m)
    <2>1. CASE MasterFsm(m)
      <3>1. SameMaster(m)
        BY <1>3, <2>1
           DEF MasterFsm, MasterIdle, AwaitRead, SetupBurst, AwaitWrite, Idle, SameMaster, mvars
      <3> QED BY <1>2, <3>1
    <2>2. ASSUME NEW op \in Ops, Issue(m, op) PROVE Waits(m)'
      <3>1. /\ op.kind \in {"Read", "Write"} /\ op.len \in Nat
            /\ op.kind = "Write" => op.words \in Seq(Int) /\ Len(op.words) = op.len + 1
        BY OpFacts
      <3>2. /\ req'[m] = op /\ burst_count'[m] = op.len /\ got'[m] = <<>> /\ served'[m] = <<>>
        BY <1>1, <1>3, <2>2 DEF Issue, Idle, BusTypes
      <3>3. CASE op.kind = "Read"
        <4>1. out'[m] = RChan /\ rw_state'[m] = "RW_RAddr" /\ dout'[m] = None
          BY <1>1, <1>3, <2>2, <3>3 DEF Issue, Idle, BusTypes
        <4> QED BY <3>1, <3>2, <3>3, <4>1 DEF Waits, Reads
      <3>4. CASE op.kind = "Write" /\ op.len = 0
        <4>1. out'[m] = WChan /\ rw_state'[m] = "RW_WAddr" /\ dout'[m] = op.words[1]
          BY <1>1, <1>3, <2>2, <3>4 DEF Issue, Idle, BusTypes
        <4>2. Writes(m)' /\ Single(m)'
          BY <3>1, <3>2, <3>4, <4>1 DEF Writes, Single, Shows
        <4> QED BY <4>2 DEF Waits
      <3>5. CASE op.kind = "Write" /\ op.len # 0
        <4>1. out'[m] = {"waddr"} /\ rw_state'[m] = "RW_WBurstSetup"
          BY <1>1, <1>3, <2>2, <3>5 DEF Issue, Idle, BusTypes
        <4>2. Writes(m)' /\ SetsUp(m)'
          BY <3>1, <3>2, <3>5, <4>1 DEF Writes, SetsUp
        <4> QED BY <4>2 DEF Waits
      <3> QED BY <3>1, <3>3, <3>4, <3>5
    <2> QED BY <1>3, <2>1, <2>2 DEF MasterCall, MasterStarts, Idle
  <1>4. CASE Waits(m)
    <2>1. /\ rw_state[m] # "RW_Init" /\ MasterFsm(m)
          /\ AwaitRead(m) \/ SetupBurst(m) \/ AwaitWrite(m)
      BY <1>4 DEF Waits, Reads, Writes, MasterCall, MasterFsm, MasterStarts, Issue, MasterIdle
    <2>2. CASE AwaitRead(m)
      <3>1. out[m] = RChan /\ got[m] = <<>> /\ rw_state[m] = "RW_RAddr"
        BY <1>4, <2>2 DEF Waits, AwaitRead, Writes
      <3> DEFINE left == out[m] \ (min[m] \cap (IF burst_count[m] = 0 THEN RChan ELSE {"raddr"}))
      <3>2. left = RChan /\ left # {} /\ Received(m) = got[m] /\ "rdat" \notin min[m]
        BY <1>1, <3>1 DEF RChan, Received
      <3>3. SameMaster(m)
        BY <1>1, <2>2, <3>1, <3>2, ReadEffect DEF SameMaster
      <3> QED BY <1>2, <3>3
    <2>3. CASE SetupBurst(m)
      <3>1. "waddr" \in out[m]
        BY <1>4, <2>3 DEF Waits, Reads, SetsUp, Single, Shows, SetupBurst
      <3> QED BY <1>1, <1>2, <2>3, <3>1, SetupEffect
    <2>4. CASE AwaitWrite(m)
      <3>1. out[m] = WChan
        BY <1>4, <2>4 DEF Waits, Reads, SetsUp, Single, AwaitWrite
      <3> DEFINE left == out[m] \ (min[m] \cap (IF burst_count[m] = 0 THEN WChan ELSE {"waddr", "wres"}))
      <3>2. left = WChan /\ left # {} /\ "wdat" \in left /\ "wdat" \notin min[m]
        BY <1>1, <3>1 DEF WChan
      <3>3. SameMaster(m)
        BY <1>1, <2>4, <3>1, <3>2, WriteEffect DEF SameMaster
      <3> QED BY <1>2, <3>3
    <2> QED BY <2>1, <2>2, <2>3, <2>4
  <1> QED BY <1>1, <1>3, <1>4

\* The phase that a connected master is in when it is called.
LEMMA CalledIn ==
  ASSUME BusInv, NEW m \in Masters, MasterCall(m)
  PROVE  /\ turn = m + 1 /\ turn' = m + 2 /\ UNCHANGED <<rvars, wvars, cvars>>
         /\ rconn = m => ReadMid(m) /\ wconn # m /\ MasterFsm(m)
         /\ wconn = m => WriteMid(m) /\ rconn # m /\ MasterFsm(m)
  <1>1. m \in Int /\ m >= 0 /\ m # MC
    BY MasterFacts DEF Masters
  <1>2. turn = m + 1 /\ turn' = m + 2 /\ UNCHANGED <<rvars, wvars, cvars>>
    BY <1>1, MasterFacts DEF MasterCall, MasterFsm, MasterStarts, Call
  <1>3. turn \in 1 .. m + 1
    BY <1>1, <1>2
  <1>4. /\ rconn = m => ReadMid(m)
        /\ wconn = m => WriteMid(m)
    BY <1>3 DEF BusInv, ReadPhases, WritePhases
  <1>5. ASSUME rw_state[m] # "RW_Init" PROVE MasterFsm(m)
    BY <1>5 DEF MasterCall, MasterStarts, Issue
  <1>6. /\ ReadMid(m) => rw_state[m] = "RW_RAddr"
        /\ WriteMid(m) => rw_state[m] \in {"RW_WBurstSetup", "RW_WAddr"}
    BY DEF ReadMid, Reads, WriteMid, Writes
  <1> QED BY <1>2, <1>4, <1>5, <1>6

\* Property of the action: an operation that ends was whole, and one whose burst is being
\* set up has moved nothing yet.
LEMMA MasterWhole ==
  ASSUME CountedOps, BusInv, NEW m \in Masters, MasterCall(m)
  PROVE  BurstIsWhole(m)
  <1>1. CASE rw_state[m] = "RW_WBurstSetup"
    <2>1. ASSUME m \in {rconn, wconn} PROVE SetsUp(m)
      <3>1. wconn = m /\ WriteMid(m)
        BY <1>1, <2>1, CalledIn DEF ReadMid, Reads
      <3> QED BY <1>1, <3>1 DEF WriteMid, WMSingle, WMSetup, WMOnly, WMReady, WMWord, WMLast,
                                WMOver, Single, Shows, AllServed
    <2>2. ASSUME m \notin {rconn, wconn} PROVE SetsUp(m)
      BY <1>1, <2>2 DEF BusInv, MasterPhases, Idle, Waits, Reads, Single, Shows
    <2> QED BY <1>1, <2>1, <2>2 DEF SetsUp, BurstIsWhole
  <1>2. CASE rw_state[m] # "RW_WBurstSetup"
    <2> SUFFICES ASSUME req[m] # None, rw_state'[m] = "RW_Init"
                 PROVE  /\ req[m].len < CountMod
                        /\ IF req[m].kind = "Read"
                           THEN Received(m) = served[m] /\ Len(served[m]) = req[m].len + 1
                           ELSE served[m] = req[m].words
      BY <1>2 DEF BurstIsWhole, fsmReturns
    <2>1. rw_state[m] # "RW_Init"
      BY DEF BusInv, MasterPhases, Idle
    <2>2. req[m].len < CountMod
      BY DEF BusInv, BusTypes, CountedOps
    <2>3. m \in {rconn, wconn}
      BY <2>1, MasterAlone
    <2>4. CASE rconn = m
      BY <2>1, <2>2, <2>4, CalledIn, MasterReads DEF ReadMid, Reads
    <2>5. CASE wconn = m
      BY <2>1, <2>2, <2>5, CalledIn, MasterWrites DEF WriteMid, Writes
    <2> QED BY <2>3, <2>4, <2>5
  <1> QED BY <1>1, <1>2

\* The next index of a sequence.
LEMMA NextIndex ==
  ASSUME NEW b \in Nat, NEW c \in Nat, NEW l \in Nat, NEW n \in Nat, b + l = n + 1, c + l = n
  PROVE  n - b + 2 \in 1 .. n + 1
  <1>1. n - b + 2 = l + 1 /\ l <= n
    OBVIOUS
  <1> QED BY <1>1

\* In a burst there is a next word to show.
LEMMA NextWord ==
  ASSUME BusInv, NEW m \in Masters, MasterCall(m), rw_state[m] = "RW_WAddr",
         "wdat" \in min[m], burst_count[m] # 0
  PROVE  req[m].words[req[m].len - burst_count[m] + 2] \in Words
  <1>1. wconn = m
    <2>1. CASE rconn = m
      BY <2>1, CalledIn DEF ReadMid, Reads
    <2>2. CASE m \notin {rconn, wconn}
      BY <2>2 DEF BusInv, MasterPhases
    <2> QED BY <2>1, <2>2
  <1>2. WriteMid(m) /\ Writes(m)
    BY <1>1, CalledIn DEF WriteMid
  <1>3. /\ burst_count[m] \in Nat /\ burst_count_w \in Nat /\ Len(served[m]) \in Nat
        /\ req[m] \in Ops /\ req[m].kind = "Write"
    BY <1>2 DEF Writes, BusInv, BusTypes
  <1>4. req[m].len \in Nat
    BY <1>3, OpFacts
  <1>5. WMWord(m)
    BY <1>2 DEF WriteMid, WMSingle, WMSetup, WMOnly, WMReady, WMLast, WMOver, SetsUp, AllServed
  <1>6. req[m].len - burst_count[m] + 2 \in 1 .. req[m].len + 1
    <2>1. /\ burst_count[m] + Len(served[m]) = req[m].len + 1
          /\ burst_count_w + Len(served[m]) = req[m].len
      BY <1>5 DEF WMWord, CountsW
    <2>2. /\ burst_count[m] \in Nat /\ burst_count_w \in Nat /\ Len(served[m]) \in Nat
          /\ req[m].len \in Nat
      BY <1>3, <1>4
    <2> QED BY <2>1, <2>2, NextIndex
  <1> QED BY <1>3, <1>6, WordIsInt DEF Words

\* The call of a master keeps the types.
LEMMA MasterTyped ==
  ASSUME BusInv, NEW m \in Masters, MasterCall(m)
  PROVE  BusTypes'
  <1>1. turn' \in 0 .. MC + 1 /\ UNCHANGED <<rvars, wvars, cvars>>
    <2>1. m \in 0 .. MC - 1
      BY DEF Masters
    <2> QED BY <2>1, CalledIn, MasterFacts
  <1>2. BusTypes
    BY DEF BusInv
  <1>3. /\ rw_state' \in [Masters -> {"RW_Init", "RW_RAddr", "RW_WBurstSetup", "RW_WAddr"}]
        /\ req' \in [Masters -> Ops \cup {None}]
        /\ out' \in [Masters -> SUBSET (RChan \cup WChan)]
        /\ burst_count' \in [Masters -> Nat]
        /\ dout' \in [Masters -> Words]
        /\ got' \in [Masters -> Seq(Words)] /\ served' \in [Masters -> Seq(Words)]
    <2>1. CASE MasterIdle(m)
      BY <1>2, <2>1 DEF MasterIdle, mvars, BusTypes
    <2>2. CASE AwaitRead(m)
      <3>1. Received(m) \in Seq(Words)
        BY <1>2 DEF Received, BusTypes
      <3> QED BY <1>2, <2>2, <3>1, SMTT(30) DEF AwaitRead, Ends, BusTypes
    <2>3. CASE SetupBurst(m)
      <3>1. ASSUME "waddr" \in min[m] \/ "waddr" \notin out[m], "wdat" \in min[m]
            PROVE  req[m].words[1] \in Words
        <4>1. wconn = m
          <5>1. CASE rconn = m
            BY <2>3, <5>1, CalledIn DEF ReadMid, Reads, SetupBurst
          <5>2. CASE m \notin {rconn, wconn}
            BY <3>1, <5>2 DEF BusInv, MasterPhases
          <5> QED BY <5>1, <5>2
        <4>2. req[m] \in Ops /\ req[m].kind = "Write" /\ req[m].len \in Nat
          BY <4>1, CalledIn, OpFacts DEF WriteMid, Writes
        <4> QED BY <4>2, WordIsInt DEF Words
      <3> QED BY <1>2, <2>3, <3>1 DEF SetupBurst, BusTypes, WChan
    <2>4. CASE AwaitWrite(m)
      <3>1. /\ rw_state[m] = "RW_WAddr" /\ dout[m] \in Words /\ None \in Words
        BY <1>2, <2>4 DEF AwaitWrite, BusTypes, Words
      <3>2. ASSUME "wdat" \in out[m] \cap min[m], burst_count[m] # 0
            PROVE  /\ req[m].words[req[m].len - burst_count[m] + 2] \in Words
                   /\ burst_count[m] - 1 \in Nat
        <4>1. "wdat" \in min[m] /\ burst_count[m] \in Nat
          BY <1>2, <3>2 DEF BusTypes
        <4>2. burst_count[m] - 1 \in Nat
          BY <3>2, <4>1
        <4> QED BY <3>1, <3>2, <4>1, <4>2, NextWord
      <3>3. dout' \in [Masters -> Words]
        BY <1>2, <2>4, <3>1, <3>2 DEF AwaitWrite, BusTypes
      <3>4. burst_count' \in [Masters -> Nat]
        BY <1>2, <2>4, <3>2 DEF AwaitWrite, BusTypes
      <3> QED BY <1>2, <2>4, <3>3, <3>4 DEF AwaitWrite, Ends, BusTypes
    <2>5. ASSUME NEW op \in Ops, Issue(m, op)
          PROVE  /\ rw_state' \in [Masters -> {"RW_Init", "RW_RAddr", "RW_WBurstSetup", "RW_WAddr"}]
                 /\ req' \in [Masters -> Ops \cup {None}]
                 /\ out' \in [Masters -> SUBSET (RChan \cup WChan)]
                 /\ burst_count' \in [Masters -> Nat]
                 /\ dout' \in [Masters -> Words]
                 /\ got' \in [Masters -> Seq(Words)] /\ served' \in [Masters -> Seq(Words)]
      <3>1. op.len \in Nat /\ (op.kind = "Write" => op.words[1] \in Words)
        BY OpFacts, WordIsInt DEF Words
      <3> QED BY <1>2, <2>5, <3>1 DEF Issue, BusTypes, RChan, WChan
    <2> QED BY <2>1, <2>2, <2>3, <2>4, <2>5 DEF MasterCall, MasterFsm, MasterStarts
  <1>4. /\ r_state' = r_state /\ rout' = rout /\ rdata' = rdata /\ raddr_end' = raddr_end
        /\ burst_count_r' = burst_count_r /\ burst_end_r' = burst_end_r
    BY <1>1 DEF rvars
  <1>5. /\ w_state' = w_state /\ wout' = wout /\ waddr_end' = waddr_end /\ wres_end' = wres_end
        /\ burst_count_w' = burst_count_w /\ writeBurstMode' = writeBurstMode
    BY <1>1 DEF wvars
  <1>6. /\ rowner' = rowner /\ wowner' = wowner /\ rconn' = rconn /\ wconn' = wconn
        /\ roundRobinRVal' = roundRobinRVal /\ roundRobinWVal' = roundRobinWVal
        /\ min' = min /\ mdata' = mdata
    BY <1>1 DEF cvars
  <1>7. /\ min' \in [Masters -> SUBSET (RChan \cup WChan \cup {"last"})]
        /\ mdata' \in [Masters -> Words]
        /\ rowner' \in Masters \cup {None} /\ wowner' \in Masters \cup {None}
        /\ rconn' \in Masters \cup {None} /\ wconn' \in Masters \cup {None}
        /\ roundRobinRVal' \in Masters /\ roundRobinWVal' \in Masters
    BY <1>2, <1>6 DEF BusTypes
  <1>8. /\ r_state' \in {"R_Init", "R_Addr", "R_End"} /\ rout' \in SUBSET (RChan \cup {"last"})
        /\ rdata' \in Words /\ raddr_end' \in BOOLEAN /\ burst_end_r' \in BOOLEAN
        /\ burst_count_r' \in Nat
    BY <1>2, <1>4 DEF BusTypes
  <1>9. /\ w_state' \in {"W_Init", "W_AddrData", "W_End"} /\ wout' \in SUBSET WChan
        /\ waddr_end' \in BOOLEAN /\ wres_end' \in BOOLEAN /\ writeBurstMode' \in BOOLEAN
        /\ burst_count_w' \in Nat
    BY <1>2, <1>5 DEF BusTypes
  <1> QED BY <1>1, <1>3, <1>7, <1>8, <1>9 DEF BusTypes

\* The call of a master keeps the invariant of the bus.
LEMMA MasterStep ==
  ASSUME BusInv, NEW m \in Masters, MasterCall(m)
  PROVE  BusInv'
  <1>1. turn = m + 1 /\ turn' = m + 2 /\ UNCHANGED <<rvars, wvars, cvars>>
    BY CalledIn
  <1>2. /\ rconn' = rconn /\ wconn' = wconn /\ rowner' = rowner /\ wowner' = wowner
        /\ r_state' = r_state /\ rout' = rout /\ w_state' = w_state /\ wout' = wout
    BY <1>1 DEF rvars, wvars, cvars
  <1>3. \A k \in Masters : k \in Int /\ k >= 0
    BY MasterFacts DEF Masters
  <1>4. ASSUME NEW k \in Masters, k # m
        PROVE  /\ SameMaster(k)
               /\ ReadMid(k) => ReadMid(k)'
               /\ ReadAfter(k) => ReadAfter(k)'
               /\ WriteMid(k) => WriteMid(k)'
               /\ WriteAfter(k) => WriteAfter(k)'
               /\ Idle(k) => Idle(k)'
               /\ Waits(k) => Waits(k)'
               /\ min'[k] = min[k] /\ rw_state'[k] = rw_state[k]
    BY <1>1, <1>4, OthersStay, Frame DEF BusInv
  <1>5. ReadPhases'
    <2>1. ASSUME NEW k \in Masters, rconn = k
          PROVE  /\ turn' # 0
                 /\ turn' \in 1 .. k + 1 => ReadMid(k)'
                 /\ turn' > k + 1 => ReadAfter(k)'
      <3>1. CASE k = m
        BY <1>1, <1>3, <2>1, <3>1, CalledIn, MasterReads
      <3>2. CASE k # m
        <4>1. /\ turn \in 1 .. k + 1 => ReadMid(k)
              /\ turn > k + 1 => ReadAfter(k)
          BY <2>1 DEF BusInv, ReadPhases
        <4> QED BY <1>1, <1>3, <1>4, <3>2, <4>1
      <3> QED BY <3>1, <3>2
    <2> QED BY <1>2, <2>1 DEF BusInv, ReadPhases
  <1>6. WritePhases'
    <2>1. ASSUME NEW k \in Masters, wconn = k
          PROVE  /\ turn' # 0
                 /\ turn' \in 1 .. k + 1 => WriteMid(k)'
                 /\ turn' > k + 1 => WriteAfter(k)'
      <3>1. CASE k = m
        BY <1>1, <1>3, <2>1, <3>1, CalledIn, MasterWrites
      <3>2. CASE k # m
        <4>1. /\ turn \in 1 .. k + 1 => WriteMid(k)
              /\ turn > k + 1 => WriteAfter(k)
          BY <2>1 DEF BusInv, WritePhases
        <4> QED BY <1>1, <1>3, <1>4, <3>2, <4>1
      <3> QED BY <3>1, <3>2
    <2> QED BY <1>2, <2>1 DEF BusInv, WritePhases
  <1>7. MasterPhases'
    <2> SUFFICES ASSUME NEW k \in Masters
                 PROVE  /\ rw_state'[k] = "RW_Init" => Idle(k)'
                        /\ k \notin {rconn', wconn'} => min'[k] = {} /\ (Idle(k)' \/ Waits(k)')
      BY DEF MasterPhases
    <2>1. CASE k # m
      BY <1>2, <1>4, <2>1 DEF BusInv, MasterPhases
    <2>2. CASE k = m /\ rconn = m
      <3>1. ReadAfter(m)'
        BY <2>2, CalledIn, MasterReads
      <3>2. rw_state'[m] = "RW_Init" => Idle(m)'
        BY <3>1 DEF ReadAfter, RAAccepted, RAWord, RALast, RAOver, Reads
      <3> QED BY <1>2, <2>2, <3>2
    <2>3. CASE k = m /\ wconn = m
      <3>1. WriteAfter(m)'
        BY <2>3, CalledIn, MasterWrites
      <3>2. rw_state'[m] = "RW_Init" => Idle(m)'
        BY <3>1 DEF WriteAfter, WASingle, WASetup, WAWord, WALast, WAOver, Writes
      <3> QED BY <1>2, <2>3, <3>2
    <2>4. CASE k = m /\ m \notin {rconn, wconn}
      <3>1. Idle(m)' \/ Waits(m)'
        BY <2>4, MasterAlone
      <3>2. Waits(m)' => rw_state'[m] # "RW_Init"
        BY DEF Waits, Reads, Writes
      <3>3. min'[m] = {}
        BY <1>1, <2>4 DEF BusInv, MasterPhases, cvars
      <3> QED BY <2>4, <3>1, <3>2, <3>3
    <2> QED BY <2>1, <2>2, <2>3, <2>4
  <1> QED BY <1>5, <1>6, <1>7, MasterTyped DEF BusInv

-----------------------------------------------------------------------------
(* connectChannel. *)

\* A set of numbers has a least one.
LEMMA NatMin ==
  ASSUME NEW T \in SUBSET Nat, T # {}
  PROVE  \E x \in T : \A y \in T : x <= y
  <1> DEFINE below == OpToRel(<, Nat)
  <1>1. \A y \in Nat, x \in Nat : y < x => <<y, x>> \in below
    BY DEF OpToRel
  <1>2. IsWellFoundedOn(below, Nat)
    BY NatLessThanWellFounded
  <1> HIDE DEF below
  <1>3. PICK x \in T : \A y \in T : ~(<<y, x>> \in below)
    BY <1>2, WFMin
  <1>4. ASSUME NEW y \in T PROVE x <= y
    <2>1. ~(y < x)
      BY <1>1, <1>3, Zenon
    <2> QED BY <2>1
  <1> QED BY <1>4

\* arbitrate grants one of those who ask.
LEMMA GrantFacts ==
  ASSUME NEW reqs \in SUBSET Masters, NEW rr
  PROVE  /\ reqs = {} => Grant(reqs, rr) = None
         /\ reqs # {} => Grant(reqs, rr) \in reqs
  <1> DEFINE late == {m \in reqs : m >= rr}
             from == IF late = {} THEN reqs ELSE late
  <1>1. CASE reqs # {}
    <2>1. from \in SUBSET Nat /\ from # {} /\ from \in SUBSET reqs
      <3>1. reqs \in SUBSET Nat
        BY MasterFacts DEF Masters
      <3>2. from \in SUBSET reqs
        OBVIOUS
      <3>3. from # {}
        BY <1>1
      <3> QED BY <3>1, <3>2, <3>3
    <2>2. Grant(reqs, rr) = CHOOSE m \in from : \A k \in from : m <= k
      BY <1>1 DEF Grant
    <2> HIDE DEF from
    <2>3. \E m \in from : \A k \in from : m <= k
      BY <2>1, NatMin
    <2> QED BY <1>1, <2>1, <2>2, <2>3
  <1>2. CASE reqs = {}
    BY <1>2 DEF Grant
  <1> QED BY <1>1, <1>2

\* The turn that moves on is that of a master.
LEMMA TurnedInRange ==
  ASSUME NEW g, NEW rr \in Masters
  PROVE  Turned(g, rr) \in Masters
  <1>1. (rr + 1) % MC \in Masters
    BY MasterFacts DEF Masters
  <1> QED BY <1>1 DEF Turned

\* After all calls of a clock: whose a channel is, and what its wires hold.
LEMMA AtConnect ==
  ASSUME BusInv, turn = MC + 1
  PROVE  /\ \A m \in Masters : rconn = m => ReadAfter(m)
         /\ \A m \in Masters : wconn = m => WriteAfter(m)
         /\ rowner = None => r_state = "R_Init" /\ rout = {}
         /\ wowner = None => w_state = "W_Init" /\ wout = {}
         /\ rowner # None => rconn = rowner
         /\ wowner # None => wconn = wowner
         /\ \A m \in Masters : "raddr" \in out[m] /\ rowner = None =>
              m \notin {rconn, wconn} /\ Reads(m) /\ Waits(m)
         /\ \A m \in Masters : "waddr" \in out[m] /\ wowner = None =>
              m \notin {rconn, wconn} /\ Writes(m) /\ Waits(m)
  <1>1. ASSUME NEW m \in Masters
        PROVE  /\ rconn = m => ReadAfter(m)
               /\ wconn = m => WriteAfter(m)
    <2>1. turn > m + 1
      BY MasterFacts DEF Masters
    <2> QED BY <2>1 DEF BusInv, ReadPhases, WritePhases
  <1>2. rconn \in Masters \cup {None} /\ wconn \in Masters \cup {None}
    BY DEF BusInv, BusTypes
  <1>3. /\ rconn = None => r_state = "R_Init" /\ rout = {} /\ rowner = None
        /\ wconn = None => w_state = "W_Init" /\ wout = {} /\ wowner = None
    BY DEF BusInv, ReadPhases, WritePhases
  <1>4. ASSUME NEW m \in Masters, rconn = m
        PROVE  /\ rowner = m \/ (rowner = None /\ RAOver(m))
               /\ Reads(m) \/ Idle(m)
    BY <1>1, <1>4 DEF ReadAfter, RAAccepted, RAWord, RALast, RAOver, RWires
  <1>5. ASSUME NEW m \in Masters, wconn = m
        PROVE  /\ wowner = m \/ (wowner = None /\ WAOver(m))
               /\ Writes(m) \/ Idle(m)
    BY <1>1, <1>5 DEF WriteAfter, WASingle, WASetup, WAWord, WALast, WAOver, WWires
  <1>6. /\ rowner = None => r_state = "R_Init" /\ rout = {}
        /\ rowner # None => rconn = rowner
    BY <1>2, <1>3, <1>4, MasterFacts DEF RAOver, RWires
  <1>7. /\ wowner = None => w_state = "W_Init" /\ wout = {}
        /\ wowner # None => wconn = wowner
    BY <1>2, <1>3, <1>5, MasterFacts DEF WAOver, WWires
  <1>8. ASSUME NEW m \in Masters, wconn = m PROVE "raddr" \notin out[m]
    BY <1>1, <1>8
       DEF WriteAfter, WASingle, WASetup, WAWord, WALast, WAOver, WWires, WChan, WA, DR, WR
  <1>9. ASSUME NEW m \in Masters, rconn = m PROVE "waddr" \notin out[m]
    BY <1>1, <1>9
       DEF ReadAfter, RAAccepted, RAWord, RALast, RAOver, RWires, RChan, RA, RD
  <1>10. ASSUME NEW m \in Masters, m \notin {rconn, wconn}
         PROVE  /\ "raddr" \in out[m] => Reads(m) /\ Waits(m)
                /\ "waddr" \in out[m] => Writes(m) /\ Waits(m)
    <2>1. Idle(m) \/ Waits(m)
      BY <1>10 DEF BusInv, MasterPhases
    <2> QED BY <2>1 DEF Idle, Waits, SetsUp, Single, WChan, RChan
  <1>11. ASSUME NEW m \in Masters, "raddr" \in out[m], rowner = None
         PROVE  m \notin {rconn, wconn}
    BY <1>4, <1>8, <1>11, MasterFacts DEF RAOver, RWires
  <1>12. ASSUME NEW m \in Masters, "waddr" \in out[m], wowner = None
         PROVE  m \notin {rconn, wconn}
    BY <1>5, <1>9, <1>12, MasterFacts DEF WAOver, WWires
  <1> QED BY <1>1, <1>6, <1>7, <1>10, <1>11, <1>12

\* A channel stays with its owner or goes to one who has just asked for it.
LEMMA ReadConnected ==
  ASSUME BusInv, ConnectChannel
  PROVE  /\ rconn' \in Masters \cup {None}
         /\ rowner' = IF ReadOver THEN None ELSE rconn'
         /\ rowner # None => rconn' = rowner
         /\ rowner = None /\ rconn' # None =>
              rconn' \notin {rconn, wconn} /\ Reads(rconn') /\ Waits(rconn')
  <1>1. turn = MC + 1
    BY DEF ConnectChannel, Call
  <1> DEFINE g == Grant(ReadRequests, roundRobinRVal)
  <1>2. ReadRequests \in SUBSET Masters
    BY DEF ReadRequests
  <1>3. /\ g # None => g \in ReadRequests
        /\ g # None => g \in Masters /\ rowner = None /\ "raddr" \in out[g]
    BY <1>2, GrantFacts DEF ReadRequests
  <1>4. /\ rconn' = IF g # None THEN g ELSE rowner
        /\ rowner' = IF ReadOver THEN None ELSE rconn'
    BY DEF ConnectChannel
  <1> HIDE DEF g
  <1>5. rowner \in Masters \cup {None}
    BY DEF BusInv, BusTypes
  <1>6. g # None => g \notin {rconn, wconn} /\ Reads(g) /\ Waits(g)
    BY <1>1, <1>3, AtConnect
  <1> QED BY <1>3, <1>4, <1>5, <1>6

\* Whom the interconnect joins to the write channel.
LEMMA WriteConnected ==
  ASSUME BusInv, ConnectChannel
  PROVE  /\ wconn' \in Masters \cup {None}
         /\ wowner' = IF WriteOver THEN None ELSE wconn'
         /\ wowner # None => wconn' = wowner
         /\ wowner = None /\ wconn' # None =>
              wconn' \notin {rconn, wconn} /\ Writes(wconn') /\ Waits(wconn')
  <1>1. turn = MC + 1
    BY DEF ConnectChannel, Call
  <1> DEFINE g == Grant(WriteRequests, roundRobinWVal)
  <1>2. WriteRequests \in SUBSET Masters
    BY DEF WriteRequests
  <1>3. /\ g # None => g \in WriteRequests
        /\ g # None => g \in Masters /\ wowner = None /\ "waddr" \in out[g]
    BY <1>2, GrantFacts DEF WriteRequests
  <1>4. /\ wconn' = IF g # None THEN g ELSE wowner
        /\ wowner' = IF WriteOver THEN None ELSE wconn'
    BY DEF ConnectChannel
  <1> HIDE DEF g
  <1>5. wowner \in Masters \cup {None}
    BY DEF BusInv, BusTypes
  <1>6. g # None => g \notin {rconn, wconn} /\ Writes(g) /\ Waits(g)
    BY <1>1, <1>3, AtConnect
  <1> QED BY <1>3, <1>4, <1>5, <1>6

\* What connectChannel brings to the masters.
LEMMA Brought ==
  ASSUME BusInv, ConnectChannel, NEW m \in Masters
  PROVE  /\ rconn' = m => Reads(m) /\ wconn' # m /\ min'[m] = rout /\ mdata'[m] = rdata
         /\ wconn' = m => Writes(m) /\ rconn' # m /\ min'[m] = wout
         /\ m \notin {rconn', wconn'} => min'[m] = {}
         /\ min'[m] \in SUBSET (RChan \cup WChan \cup {"last"}) /\ mdata'[m] \in Words
  <1>1. turn = MC + 1
    BY DEF ConnectChannel, Call
  <1>2. ASSUME rconn' = m PROVE Reads(m)
    <2>1. CASE rowner = None
      BY <1>2, <2>1, ReadConnected, MasterFacts
    <2>2. CASE rowner # None
      <3>1. rowner = m /\ rconn = m
        BY <1>1, <1>2, <2>2, ReadConnected, AtConnect
      <3>2. ReadAfter(m)
        BY <1>1, <3>1, AtConnect
      <3> QED BY <3>1, <3>2, MasterFacts
              DEF ReadAfter, RAAccepted, RAWord, RALast, RAOver, RWires
    <2> QED BY <2>1, <2>2
  <1>3. ASSUME wconn' = m PROVE Writes(m)
    <2>1. CASE wowner = None
      BY <1>3, <2>1, WriteConnected, MasterFacts
    <2>2. CASE wowner # None
      <3>1. wowner = m /\ wconn = m
        BY <1>1, <1>3, <2>2, WriteConnected, AtConnect
      <3>2. WriteAfter(m)
        BY <1>1, <3>1, AtConnect
      <3> QED BY <3>1, <3>2, MasterFacts
              DEF WriteAfter, WASingle, WASetup, WAWord, WALast, WAOver, WWires
    <2> QED BY <2>1, <2>2
  <1>4. ~(Reads(m) /\ Writes(m))
    BY DEF Reads, Writes
  <1>5. /\ min'[m] = (IF m = rconn' THEN rout ELSE {}) \cup (IF m = wconn' THEN wout ELSE {})
        /\ mdata'[m] = IF m = rconn' THEN rdata ELSE None
    BY DEF ConnectChannel
  <1>6. /\ rout \in SUBSET (RChan \cup {"last"}) /\ wout \in SUBSET WChan /\ rdata \in Words
        /\ None \in Words
    BY DEF BusInv, BusTypes, Words
  <1> QED BY <1>2, <1>3, <1>4, <1>5, <1>6

\* The interconnect's call takes a read channel to a phase before the slave's call.
LEMMA ConnectReads ==
  ASSUME BusInv, ConnectChannel, NEW m \in Masters, rconn' = m
  PROVE  ReadBefore(m)'
  <1>1. /\ turn = MC + 1 /\ UNCHANGED <<mvars, rvars, served>>
    BY DEF ConnectChannel, Call
  <1>2. /\ r_state' = r_state /\ rout' = rout /\ rdata' = rdata /\ burst_end_r' = burst_end_r
        /\ burst_count_r' = burst_count_r
        /\ rw_state' = rw_state /\ req' = req /\ out' = out /\ dout' = dout
        /\ burst_count' = burst_count /\ got' = got /\ served' = served
    BY <1>1 DEF mvars, rvars
  <1>3. /\ Reads(m) /\ min'[m] = rout /\ mdata'[m] = rdata
    BY Brought
  <1>4. Reads(m)'
    BY <1>2, <1>3 DEF Reads
  <1>5. CASE rowner = None
    <2>1. /\ Waits(m) /\ r_state = "R_Init" /\ rout = {} /\ rowner' = m
      BY <1>1, <1>5, ReadConnected, AtConnect, MasterFacts DEF ReadOver
    <2>2. out[m] = RChan /\ got[m] = <<>> /\ served[m] = <<>>
      BY <1>3, <2>1 DEF Waits, Reads, Writes
    <2>3. RBAsked(m)'
      BY <1>2, <1>3, <2>1, <2>2 DEF RBAsked, RWires, NoneYet
    <2> QED BY <1>4, <2>3 DEF ReadBefore
  <1>6. CASE rowner # None
    <2>1. rowner = m /\ rconn = m /\ rowner' = IF ReadOver THEN None ELSE m
      BY <1>1, <1>6, ReadConnected, AtConnect
    <2>2. ReadAfter(m)
      BY <1>1, <2>1, AtConnect
    <2>3. ReadOver <=> "rdat" \in out[m] /\ "last" \in rout
      BY <2>1, MasterFacts DEF ReadOver
    <2>4. CASE RAAccepted(m)
      <3>1. rowner' = m
        BY <2>1, <2>3, <2>4 DEF RAAccepted, RWires, RA
      <3>2. RBAccepted(m)'
        BY <1>2, <1>3, <2>4, <3>1 DEF RAAccepted, RBAccepted, RWires, NoneYet, Counts
      <3> QED BY <1>4, <3>2 DEF ReadBefore
    <2>5. CASE RAWord(m)
      <3>1. rowner' = m
        BY <2>1, <2>3, <2>5 DEF RAWord, RWires, RD
      <3>2. RBWord(m)'
        BY <1>2, <1>3, <2>5, <3>1 DEF RAWord, RBWord, RWires, Shown, Counts
      <3> QED BY <1>4, <3>2 DEF ReadBefore
    <2>6. CASE RALast(m)
      <3>1. rowner' = None
        BY <2>1, <2>3, <2>6 DEF RALast, RWires, RD, RL
      <3>2. RBLast(m)'
        BY <1>2, <1>3, <2>6, <3>1 DEF RALast, RBLast, RWires, Shown
      <3> QED BY <1>4, <3>2 DEF ReadBefore
    <2>7. ~RAOver(m)
      BY <2>1, MasterFacts DEF RAOver, RWires
    <2> QED BY <2>2, <2>4, <2>5, <2>6, <2>7 DEF ReadAfter
  <1> QED BY <1>5, <1>6

\* The same for the write channel.
LEMMA ConnectWrites ==
  ASSUME BusInv, ConnectChannel, NEW m \in Masters, wconn' = m
  PROVE  WriteBefore(m)'
  <1>1. /\ turn = MC + 1 /\ UNCHANGED <<mvars, wvars, served>>
    BY DEF ConnectChannel, Call
  <1>2. /\ w_state' = w_state /\ wout' = wout /\ waddr' = waddr
        /\ burst_count_w' = burst_count_w /\ writeBurstMode' = writeBurstMode
        /\ rw_state' = rw_state /\ req' = req /\ out' = out /\ dout' = dout
        /\ burst_count' = burst_count /\ got' = got /\ served' = served
    BY <1>1 DEF mvars, wvars
  <1>3. /\ Writes(m) /\ min'[m] = wout
    BY Brought
  <1>4. Writes(m)'
    BY <1>2, <1>3 DEF Writes
  <1>5. /\ (Single(m) => Single(m)') /\ (SetsUp(m) => SetsUp(m)') /\ (Shows(m) => Shows(m)')
        /\ (CountsW(m) => CountsW(m)') /\ (AllServed(m) => AllServed(m)')
    BY <1>2 DEF Single, SetsUp, Shows, CountsW, AllServed
  <1>6. CASE wowner = None
    <2>1. /\ Waits(m) /\ w_state = "W_Init" /\ wout = {} /\ wowner' = m
      BY <1>1, <1>6, WriteConnected, AtConnect, MasterFacts DEF WriteOver
    <2>2. (SetsUp(m) /\ out[m] = WA) \/ (Single(m) /\ out[m] = WChan)
      BY <1>3, <2>1 DEF Waits, Reads, Writes, SetsUp, Single, WA
    <2>3. WBAsked(m)'
      BY <1>2, <1>3, <1>5, <2>1, <2>2 DEF WBAsked, WWires
    <2> QED BY <1>4, <2>3 DEF WriteBefore
  <1>7. CASE wowner # None
    <2>1. wowner = m /\ wconn = m /\ wowner' = IF WriteOver THEN None ELSE m
      BY <1>1, <1>7, WriteConnected, AtConnect
    <2>2. WriteAfter(m)
      BY <1>1, <2>1, AtConnect
    <2>3. WriteOver <=> "wres" \in out[m] /\ "wres" \in wout
      BY <2>1, MasterFacts DEF WriteOver
    <2>4. CASE WASingle(m)
      <3>1. wowner' = m
        BY <2>1, <2>3, <2>4 DEF WASingle, WWires, WA
      <3>2. WBSingle(m)'
        BY <1>2, <1>3, <1>5, <2>4, <3>1 DEF WASingle, WBSingle, WWires
      <3> QED BY <1>4, <3>2 DEF WriteBefore
    <2>5. CASE WASetup(m)
      <3>1. wowner' = m
        BY <2>1, <2>3, <2>5 DEF WASetup, WWires, AD
      <3>2. WBSetup(m)'
        BY <1>2, <1>3, <1>5, <2>5, <3>1 DEF WASetup, WBSetup, WWires
      <3> QED BY <1>4, <3>2 DEF WriteBefore
    <2>6. CASE WAWord(m)
      <3>1. wowner' = m
        BY <2>1, <2>3, <2>6 DEF WAWord, WWires, WD
      <3>2. WBWord(m)'
        BY <1>2, <1>3, <1>5, <2>6, <3>1 DEF WAWord, WBWord, WWires
      <3> QED BY <1>4, <3>2 DEF WriteBefore
    <2>7. CASE WALast(m)
      <3>1. wowner' = None
        BY <2>1, <2>3, <2>7 DEF WALast, WWires, DR, WR
      <3>2. WBLast(m)'
        BY <1>2, <1>3, <1>5, <2>7, <3>1 DEF WALast, WBLast, WWires
      <3> QED BY <1>4, <3>2 DEF WriteBefore
    <2>8. ~WAOver(m)
      BY <2>1, MasterFacts DEF WAOver, WWires
    <2> QED BY <2>2, <2>4, <2>5, <2>6, <2>7, <2>8 DEF WriteAfter
  <1> QED BY <1>6, <1>7

\* The interconnect's call keeps the invariant of the bus.
LEMMA ConnectStep ==
  ASSUME BusInv, ConnectChannel
  PROVE  BusInv'
  <1>1. turn = MC + 1 /\ turn' = 0 /\ UNCHANGED <<mvars, rvars, wvars, served>>
    BY DEF ConnectChannel, Call
  <1>2. /\ r_state' = r_state /\ rout' = rout /\ w_state' = w_state /\ wout' = wout
        /\ rw_state' = rw_state /\ req' = req /\ out' = out /\ dout' = dout
        /\ burst_count' = burst_count /\ got' = got /\ served' = served
    BY <1>1 DEF mvars, rvars, wvars
  <1>3. BusTypes'
    <2>1. turn' \in 0 .. MC + 1
      BY <1>1, MasterFacts
    <2>2. /\ min' \in [Masters -> SUBSET (RChan \cup WChan \cup {"last"})]
          /\ mdata' \in [Masters -> Words]
      <3>1. /\ \A m \in Masters : min'[m] \in SUBSET (RChan \cup WChan \cup {"last"})
            /\ \A m \in Masters : mdata'[m] \in Words
        BY Brought
      <3>2. /\ min' = [m \in Masters |-> min'[m]]
            /\ mdata' = [m \in Masters |-> mdata'[m]]
        BY DEF ConnectChannel
      <3> QED BY <3>1, <3>2
    <2>3. /\ rowner' \in Masters \cup {None} /\ wowner' \in Masters \cup {None}
          /\ rconn' \in Masters \cup {None} /\ wconn' \in Masters \cup {None}
      BY ReadConnected, WriteConnected
    <2>4. roundRobinRVal' \in Masters /\ roundRobinWVal' \in Masters
      BY TurnedInRange DEF ConnectChannel, BusInv, BusTypes
    <2> QED BY <1>1, <2>1, <2>2, <2>3, <2>4 DEF BusInv, BusTypes, mvars, rvars, wvars
  <1>4. ReadPhases'
    <2>1. ASSUME rconn' = None PROVE r_state' = "R_Init" /\ rout' = {} /\ rowner' = None
      BY <1>1, <1>2, <2>1, ReadConnected, AtConnect
    <2>2. ASSUME NEW m \in Masters, rconn' = m PROVE ReadBefore(m)'
      BY <2>2, ConnectReads
    <2>3. \A m \in Masters : ~(0 \in 1 .. m + 1) /\ ~(0 > m + 1)
      BY DEF Masters
    <2> QED BY <1>1, <2>1, <2>2, <2>3 DEF ReadPhases
  <1>5. WritePhases'
    <2>1. ASSUME wconn' = None PROVE w_state' = "W_Init" /\ wout' = {} /\ wowner' = None
      BY <1>1, <1>2, <2>1, WriteConnected, AtConnect
    <2>2. ASSUME NEW m \in Masters, wconn' = m PROVE WriteBefore(m)'
      BY <2>2, ConnectWrites
    <2>3. \A m \in Masters : ~(0 \in 1 .. m + 1) /\ ~(0 > m + 1)
      BY DEF Masters
    <2> QED BY <1>1, <2>1, <2>2, <2>3 DEF WritePhases
  <1>6. MasterPhases'
    <2> SUFFICES ASSUME NEW m \in Masters
                 PROVE  /\ rw_state'[m] = "RW_Init" => Idle(m)'
                        /\ m \notin {rconn', wconn'} => min'[m] = {} /\ (Idle(m)' \/ Waits(m)')
      BY DEF MasterPhases
    <2>1. /\ Idle(m) => Idle(m)'
          /\ Waits(m) => Waits(m)'
      BY <1>2 DEF Idle, Waits, Reads, Writes, SetsUp, Single, Shows
    <2>2. ASSUME m \notin {rconn', wconn'}
          PROVE  Idle(m) \/ Waits(m)
      <3>1. m # None
        BY MasterFacts
      <3>2. CASE m = rconn
        <4>1. rowner # m
          BY <2>2, <3>1, ReadConnected
        <4> QED BY <1>1, <3>2, <4>1, AtConnect
                DEF ReadAfter, RAAccepted, RAWord, RALast, RAOver, RWires
      <3>3. CASE m = wconn
        <4>1. wowner # m
          BY <2>2, <3>1, WriteConnected
        <4> QED BY <1>1, <3>3, <4>1, AtConnect
                DEF WriteAfter, WASingle, WASetup, WAWord, WALast, WAOver, WWires
      <3>4. CASE m \notin {rconn, wconn}
        BY <3>4 DEF BusInv, MasterPhases
      <3> QED BY <3>2, <3>3, <3>4
    <2>3. m \notin {rconn', wconn'} => min'[m] = {}
      BY Brought
    <2>4. rw_state[m] = "RW_Init" => Idle(m)
      BY DEF BusInv, MasterPhases
    <2> QED BY <1>2, <2>1, <2>2, <2>3, <2>4
  <1> QED BY <1>3, <1>4, <1>5, <1>6 DEF BusInv

\* The bus starts in its invariant.
LEMMA BusInit == Init => BusInv
  <1> SUFFICES ASSUME Init PROVE BusInv
    OBVIOUS
  <1>1. BusTypes
    <2>1. /\ turn \in 0 .. MC + 1 /\ 0 \in Masters
      BY MasterFacts DEF Init
    <2>2. /\ None \in Words /\ <<>> \in Seq(Words)
      BY DEF Words
    <2> QED BY <2>1, <2>2 DEF Init, BusTypes, Each
  <1>2. /\ \A m \in Masters : Idle(m) /\ min[m] = {}
        /\ rconn = None /\ wconn = None
    BY DEF Init, Idle, Each
  <1>3. ReadPhases /\ WritePhases
    BY <1>2, MasterFacts DEF Init, ReadPhases, WritePhases
  <1> QED BY <1>1, <1>2, <1>3 DEF BusInv, MasterPhases

\* A step of the bus keeps its invariant, and moves every word of an operation that it
\* ends.
LEMMA BusStep ==
  ASSUME CountedOps, BusInv, BusNext
  PROVE  BusInv' /\ \A m \in Masters : BurstIsWhole(m)
  <1> USE MasterFacts DEF Masters
  <1>1. CASE \E word \in Words : Slave(word)
    <2>1. turn = 0
      BY <1>1 DEF Slave, Call
    <2> QED BY <1>1, <2>1, SlaveStep DEF BurstIsWhole
  <1>2. CASE ConnectChannel
    <2>1. turn = MC + 1
      BY <1>2 DEF ConnectChannel, Call
    <2> QED BY <1>2, <2>1, ConnectStep DEF BurstIsWhole
  <1>3. CASE \E m \in Masters : MasterCall(m)
    <2>1. PICK m \in Masters : MasterCall(m)
      BY <1>3
    <2>2. BurstIsWhole(m)
      BY <2>1, MasterWhole
    <2>3. ASSUME NEW k \in Masters, k # m PROVE BurstIsWhole(k)
      <3>1. turn = m + 1
        BY <2>1, CalledIn
      <3> QED BY <2>3, <3>1 DEF BurstIsWhole
    <2> QED BY <2>1, <2>2, <2>3, MasterStep
  <1> QED BY <1>1, <1>2, <1>3 DEF BusNext, MasterCall

-----------------------------------------------------------------------------
(* The filter on the bus. *)

RegTypes ==
  /\ reg \in [Registers -> Int]
  /\ reg["reset"] \in {0, 1}
  /\ reg["width"] \in FW - 1 .. MaxWidth /\ reg["height"] \in FH - 1 .. MaxIn

\* The registers by their names.
LEMMA RegNames ==
  ASSUME RegTypes
  PROVE  /\ reg.reset \in {0, 1} /\ reg.width \in FW - 1 .. MaxWidth
         /\ reg.height \in FH - 1 .. MaxIn
         /\ reg.reset = reg["reset"] /\ reg.width = reg["width"] /\ reg.height = reg["height"]
  BY DEF RegTypes

\* The word that a register is written with is one of an operation on that register.
LEMMA WrittenWord ==
  ASSUME BusInv, turn = 0, devWriteFlag
  PROVE  \E op \in Ops : \E i \in DOMAIN op.words : op.addr = waddr /\ dout[wconn] = op.words[i]
  <1>1. wconn \in Masters /\ WriteBefore(wconn) /\ w_state = "W_AddrData" /\ "wdat" \in out[wconn]
    BY Connected DEF devWriteFlag, WSees
  <1> DEFINE m == wconn
             n == Len(served[m])
  <1>2. Shows(m) /\ CountsW(m) /\ Writes(m)
    BY <1>1 DEF WriteBefore, WBAsked, WBSingle, WBSetup, WBWord, WBLast, WWires, Single, WA
  <1>3. n \in Nat /\ served[m] \in Seq(Words)
    BY <1>1 DEF BusInv, BusTypes
  <1>4. /\ req[m] \in Ops /\ req[m].addr = waddr /\ dout[m] = req[m].words[n + 1]
        /\ n + 1 \in 1 .. req[m].len + 1
    BY <1>2, <1>3, OpFacts DEF Shows, CountsW, Writes
  <1>5. n + 1 \in DOMAIN req[m].words
    BY <1>2, <1>4, OpFacts DEF Writes
  <1> QED BY <1>4, <1>5

\* UpdateRegIF: a clock without a write leaves the registers alone.
LEMMA RegStep ==
  ASSUME BusInv, RegTypes, turn = 0, UpdateRegIF
  PROVE  /\ RegTypes'
         /\ ~writeFlag => reg' = reg
         /\ initialized' = (reg.reset = 1 /\ ~writeFlag)
  <1>1. initialized' = (reg.reset = 1 /\ ~writeFlag) /\ reg' = RegWritten
    BY DEF UpdateRegIF
  <1>2. ~writeFlag => reg' = reg
    BY <1>1 DEF RegWritten, writeFlag
  <1>3. CASE ~(devWriteFlag /\ waddr \in Registers)
    BY <1>1, <1>2, <1>3 DEF RegWritten, RegTypes
  <1>4. CASE devWriteFlag /\ waddr \in Registers
    <2>1. PICK op \in Ops : \E i \in DOMAIN op.words : op.addr = waddr /\ dout[wconn] = op.words[i]
      BY <1>4, WrittenWord
    <2>2. PICK i \in DOMAIN op.words : op.addr = waddr /\ dout[wconn] = op.words[i]
      BY <2>1
    <2>3. /\ waddr = "reset" => dout[wconn] \in {0, 1}
          /\ waddr = "width" => dout[wconn] \in FW - 1 .. MaxWidth
          /\ waddr = "height" => dout[wconn] \in FH - 1 .. MaxIn
      BY <2>2, WordsAssumption
    <2>4. dout[wconn] \in Int
      BY <1>4, <2>3 DEF Registers
    <2>5. reg' = [reg EXCEPT ![waddr] = dout[wconn]]
      BY <1>1, <1>4 DEF RegWritten
    <2>6. reg' \in [Registers -> Int]
      BY <2>4, <2>5 DEF RegTypes
    <2>7. \A a \in Registers : reg'[a] = IF a = waddr THEN dout[wconn] ELSE reg[a]
      BY <2>5 DEF RegTypes
    <2>8. RegTypes'
      BY <2>3, <2>6, <2>7 DEF RegTypes, Registers
    <2> QED BY <1>1, <1>2, <2>8
  <1> QED BY <1>3, <1>4

\* Whatever is read is a word.
LEMMA ReadWord ==
  ASSUME RegTypes, NEW a
  PROVE  RegRead(a) \in Words
  <1>1. CASE a \in Registers
    BY <1>1 DEF RegRead, RegTypes, Words
  <1>2. CASE a \notin Registers
    BY <1>2 DEF RegRead, Words
  <1> QED BY <1>1, <1>2

\* The filter starts with the bus in its invariant.
LEMMA FilterInitBus ==
  ASSUME FilterInit
  PROVE  BusInv /\ RegTypes
  <1>1. PICK s \in Sizes : reg = [reset |-> 0, width |-> s[1], height |-> s[2]]
    BY DEF FilterInit
  <1>2. s[1] \in FW - 1 .. MaxWidth /\ s[2] \in FH - 1 .. MaxIn
    BY SizesAssumption
  <1>3. {FW - 1, FH - 1, MaxWidth, MaxIn} \subseteq Int
    BY WindowAssumption, BoundsAssumption
  <1>4. s[1] \in Int /\ s[2] \in Int
    BY <1>2, <1>3
  <1>5. RegTypes
    BY <1>1, <1>2, <1>4 DEF RegTypes, Registers
  <1> QED BY <1>5, BusInit DEF FilterInit

\* A step that leaves the bus alone keeps its invariant.
LEMMA BusStays ==
  ASSUME BusInv, UNCHANGED busvars
  PROVE  BusInv'
  <1>1. /\ turn' = turn /\ rw_state' = rw_state /\ req' = req /\ out' = out /\ dout' = dout
        /\ burst_count' = burst_count /\ got' = got /\ served' = served /\ min' = min
        /\ mdata' = mdata /\ r_state' = r_state /\ rout' = rout /\ rdata' = rdata
        /\ burst_end_r' = burst_end_r /\ burst_count_r' = burst_count_r /\ raddr_end' = raddr_end
        /\ w_state' = w_state /\ wout' = wout /\ waddr' = waddr /\ waddr_end' = waddr_end
        /\ wres_end' = wres_end /\ burst_count_w' = burst_count_w
        /\ writeBurstMode' = writeBurstMode /\ rowner' = rowner /\ wowner' = wowner
        /\ rconn' = rconn /\ wconn' = wconn
        /\ roundRobinRVal' = roundRobinRVal /\ roundRobinWVal' = roundRobinWVal
    BY DEF busvars, mvars, rvars, wvars, cvars
  <1>2. BusTypes'
    <2>1. /\ rw_state' \in [Masters -> {"RW_Init", "RW_RAddr", "RW_WBurstSetup", "RW_WAddr"}]
          /\ req' \in [Masters -> Ops \cup {None}]
          /\ out' \in [Masters -> SUBSET (RChan \cup WChan)]
          /\ min' \in [Masters -> SUBSET (RChan \cup WChan \cup {"last"})]
      BY <1>1, Zenon DEF BusInv, BusTypes
    <2>2. /\ burst_count' \in [Masters -> Nat]
          /\ dout' \in [Masters -> Words] /\ mdata' \in [Masters -> Words]
          /\ got' \in [Masters -> Seq(Words)] /\ served' \in [Masters -> Seq(Words)]
      BY <1>1, Zenon DEF BusInv, BusTypes
    <2>3. /\ turn' \in 0 .. MC + 1
          /\ r_state' \in {"R_Init", "R_Addr", "R_End"} /\ w_state' \in {"W_Init", "W_AddrData", "W_End"}
          /\ rout' \in SUBSET (RChan \cup {"last"}) /\ wout' \in SUBSET WChan /\ rdata' \in Words
          /\ raddr_end' \in BOOLEAN /\ burst_end_r' \in BOOLEAN
          /\ waddr_end' \in BOOLEAN /\ wres_end' \in BOOLEAN /\ writeBurstMode' \in BOOLEAN
      BY <1>1, Zenon DEF BusInv, BusTypes
    <2>4. /\ burst_count_r' \in Nat /\ burst_count_w' \in Nat
          /\ rowner' \in Masters \cup {None} /\ wowner' \in Masters \cup {None}
          /\ rconn' \in Masters \cup {None} /\ wconn' \in Masters \cup {None}
          /\ roundRobinRVal' \in Masters /\ roundRobinWVal' \in Masters
      BY <1>1, Zenon DEF BusInv, BusTypes
    <2> QED BY <2>1, <2>2, <2>3, <2>4, Zenon DEF BusTypes
  <1>3. ReadPhases'
    <2>1. ASSUME NEW m \in Masters
          PROVE  /\ ReadBefore(m) => ReadBefore(m)'
                 /\ ReadMid(m) => ReadMid(m)'
                 /\ ReadAfter(m) => ReadAfter(m)'
      <3>1. SameMaster(m) /\ UNCHANGED <<rvars, wvars, cvars>>
        BY DEF SameMaster, busvars, mvars
      <3>2. ReadBefore(m) => ReadBefore(m)'
        BY <1>1 DEF ReadBefore, Reads, RBAsked, RBAccepted, RBWord, RBLast, RWires, Counts,
                    NoneYet, Shown
      <3> QED BY <3>1, <3>2, Frame
    <2> QED BY <1>1, <2>1 DEF BusInv, ReadPhases
  <1>4. WritePhases'
    <2>1. ASSUME NEW m \in Masters
          PROVE  /\ WriteBefore(m) => WriteBefore(m)'
                 /\ WriteMid(m) => WriteMid(m)'
                 /\ WriteAfter(m) => WriteAfter(m)'
      <3>1. SameMaster(m) /\ UNCHANGED <<rvars, wvars, cvars>>
        BY DEF SameMaster, busvars, mvars
      <3>2. WriteBefore(m) => WriteBefore(m)'
        BY <1>1 DEF WriteBefore, Writes, WBAsked, WBSingle, WBSetup, WBWord, WBLast, WWires,
                    Single, SetsUp, Shows, CountsW, AllServed
      <3> QED BY <3>1, <3>2, Frame
    <2> QED BY <1>1, <2>1 DEF BusInv, WritePhases
  <1>5. MasterPhases'
    <2>1. ASSUME NEW m \in Masters
          PROVE  (Idle(m) => Idle(m)') /\ (Waits(m) => Waits(m)')
      <3>1. SameMaster(m) /\ UNCHANGED <<rvars, wvars, cvars>>
        BY DEF SameMaster, busvars, mvars
      <3> QED BY <3>1, Frame
    <2> QED BY <1>1, <2>1 DEF BusInv, MasterPhases
  <1> QED BY <1>2, <1>3, <1>4, <1>5 DEF BusInv

\* A step of the filter is one of the bus.
LEMMA FilterBus ==
  ASSUME CountedOps, BusInv, RegTypes, [Next]_vars
  PROVE  BusInv' /\ RegTypes' /\ ((\A m \in Masters : BurstIsWhole(m)) \/ UNCHANGED busvars)
  <1>1. CASE \E ready \in BOOLEAN : Step(ready)
    <2>1. Slave(RegRead(raddr)) /\ UpdateRegIF /\ turn = 0
      BY <1>1 DEF Step, Slave, Call
    <2>2. RegTypes'
      BY <2>1, RegStep
    <2>3. BusNext
      BY <2>1, ReadWord DEF BusNext
    <2> QED BY <2>2, <2>3, BusStep
  <1>2. CASE \E m \in Masters : Master(m)
    <2>1. RegTypes'
      BY <1>2 DEF Master, fltvars, regvars, RegTypes
    <2>2. BusNext
      BY <1>2 DEF Master, BusNext
    <2> QED BY <2>1, <2>2, BusStep
  <1>3. CASE Connect
    <2>1. RegTypes'
      BY <1>3 DEF Connect, fltvars, regvars, RegTypes
    <2>2. BusNext
      BY <1>3 DEF Connect, BusNext
    <2> QED BY <2>1, <2>2, BusStep
  <1>4. CASE UNCHANGED vars
    <2>1. UNCHANGED busvars /\ UNCHANGED fltvars
      BY <1>4 DEF vars
    <2>2. BusInv'
      BY <2>1, BusStays
    <2>3. RegTypes'
      BY <2>1 DEF fltvars, regvars, RegTypes
    <2> QED BY <2>1, <2>2, <2>3
  <1> QED BY <1>1, <1>2, <1>3, <1>4 DEF Next

\* BusInv: the two channels go through their phases, whoever else is waiting: a master's
\* wires, what it counts and what the slave counts agree in every call.
THEOREM BusInvariant ==
  ASSUME CountedOps
  PROVE  Spec => []BusInv
  <1>1. FilterInit => BusInv /\ RegTypes
    BY FilterInitBus
  <1>2. BusInv /\ RegTypes /\ [Next]_vars => (BusInv /\ RegTypes)'
    BY FilterBus
  <1> QED BY <1>1, <1>2, PTL DEF Spec

\* BurstsWhole: every transfer of every master is whole when fsm says that it is over,
\* unless it says so while the burst is being set up: then no word has moved.
THEOREM BurstsAreWhole ==
  ASSUME CountedOps
  PROVE  Spec => BurstsWhole
  <1>1. FilterInit => BusInv /\ RegTypes
    BY FilterInitBus
  <1>2. BusInv /\ RegTypes /\ [Next]_vars => (BusInv /\ RegTypes)'
    BY FilterBus
  <1>3. BusInv /\ RegTypes /\ [Next]_vars => [\A m \in Masters : BurstIsWhole(m)]_busvars
    BY FilterBus
  <1> QED BY <1>1, <1>2, <1>3, PTL DEF Spec, BurstsWhole
LEMMA MaxWidthIsNat == MaxWidth \in Nat
  BY BoundsAssumption

\* Multiplying by at least one.
LEMMA MulBound ==
  ASSUME NEW W \in Nat, NEW k \in Int, k >= 1
  PROVE  k * W >= W
  OBVIOUS

\* Quotient and remainder.
LEMMA DivFacts ==
  ASSUME NEW n \in Int, NEW W \in Nat, W > 0
  PROVE  /\ n \div W \in Int /\ n % W \in 0 .. W - 1
         /\ n = (n \div W) * W + (n % W)
         /\ n >= 0 => n \div W >= 0
  <1>1. n \div W \in Int /\ n % W \in 0 .. W - 1
    OBVIOUS
  <1>2. n = (n \div W) * W + (n % W)
    OBVIOUS
  <1>3. n >= 0 => n \div W >= 0
    OBVIOUS
  <1> QED BY <1>1, <1>2, <1>3

\* There is only one quotient and one remainder.
LEMMA DivUnique ==
  ASSUME NEW W \in Nat, W > 0, NEW q \in Int, NEW r \in 0 .. W - 1
  PROVE  /\ (q * W + r) \div W = q /\ (q * W + r) % W = r
  <1> DEFINE n == q * W + r
             p == n \div W
             s == n % W
  <1>1. n \in Int /\ p \in Int /\ s \in 0 .. W - 1 /\ n = p * W + s
    BY DivFacts
  <1>2. n = q * W + r
    OBVIOUS
  <1> HIDE DEF n, p, s
  <1>3. (p - q) * W = r - s
    BY <1>1, <1>2
  <1>4. (q - p) * W = s - r
    BY <1>1, <1>2
  <1>5. ~(p - q >= 1)
    BY <1>1, <1>3, MulBound
  <1>6. ~(q - p >= 1)
    BY <1>1, <1>4, MulBound
  <1>7. p = q
    BY <1>1, <1>5, <1>6
  <1>8. s = r
    BY <1>1, <1>3, <1>7
  <1> QED BY <1>7, <1>8 DEF n, p, s

\* Quotient and remainder of the next number.
LEMMA NextDiv ==
  ASSUME NEW n \in Nat, NEW W \in Nat, W > 0
  PROVE  /\ n % W = W - 1 => (n + 1) % W = 0 /\ (n + 1) \div W = n \div W + 1
         /\ n % W # W - 1 => (n + 1) % W = (n % W) + 1 /\ (n + 1) \div W = n \div W
  <1> DEFINE q == n \div W
             r == n % W
  <1>1. q \in Int /\ r \in 0 .. W - 1 /\ n = q * W + r
    BY DivFacts
  <1> HIDE DEF q, r
  <1>2. CASE r = W - 1
    <2>1. n + 1 = (q + 1) * W + 0
      BY <1>1, <1>2
    <2>2. (n + 1) \div W = q + 1 /\ (n + 1) % W = 0
      BY <1>1, <2>1, DivUnique
    <2> QED BY <1>2, <2>2 DEF q, r
  <1>3. CASE r # W - 1
    <2>1. n + 1 = q * W + (r + 1) /\ r + 1 \in 0 .. W - 1
      BY <1>1, <1>3
    <2>2. (n + 1) \div W = q /\ (n + 1) % W = r + 1
      BY <1>1, <2>1, DivUnique
    <2> QED BY <1>3, <2>2 DEF q, r
  <1> QED BY <1>2, <1>3
\* Adding before or after the remainder.
LEMMA ModPlus ==
  ASSUME NEW a \in Int, NEW b \in Int, NEW X \in Nat, X > 0
  PROVE  ((a % X) + b) % X = (a + b) % X
  <1> DEFINE q == a \div X
             r == a % X
             p == (r + b) \div X
             s == (r + b) % X
  <1>1. q \in Int /\ r \in 0 .. X - 1 /\ a = q * X + r
    BY DivFacts
  <1>2. p \in Int /\ s \in 0 .. X - 1 /\ r + b = p * X + s
    BY <1>1, DivFacts
  <1> HIDE DEF q, r, p, s
  <1>3. a + b = (p + q) * X + s
    BY <1>1, <1>2
  <1>4. (a + b) % X = s
    <2>1. p + q \in Int
      BY <1>1, <1>2
    <2>2. ((p + q) * X + s) % X = s
      BY <1>2, <2>1, DivUnique
    <2> QED BY <1>3, <2>2
  <1>5. (r + b) % X = s
    BY DEF s
  <1>6. ((a % X) + b) % X = s
    BY <1>5 DEF r
  <1> QED BY <1>4, <1>6

\* Two numbers with the same remainder are a multiple apart.
LEMMA ModEqual ==
  ASSUME NEW a \in Int, NEW b \in Int, NEW X \in Nat, X > 0, a % X = b % X, a < b
  PROVE  b - a >= X
  <1> DEFINE q == a \div X
             p == b \div X
             r == b % X
  <1>1. q \in Int /\ p \in Int /\ r \in Int /\ a = q * X + r /\ b = p * X + r
    BY DivFacts
  <1> HIDE DEF q, p, r
  <1>2. b - a = (p - q) * X
    BY <1>1
  <1>3. p - q >= 1
    <2>1. p - q <= 0 => (p - q) * X <= 0
      BY <1>1
    <2> QED BY <1>1, <1>2, <2>1
  <1> QED BY <1>1, <1>2, <1>3, MulBound

\* A line further back.
LEMMA DivMinus ==
  ASSUME NEW n \in Int, NEW k \in Int, NEW W \in Nat, W > 0
  PROVE  (n - k * W) \div W = (n \div W) - k /\ (n - k * W) % W = n % W
  <1> DEFINE q == n \div W
             r == n % W
  <1>1. q \in Int /\ r \in 0 .. W - 1 /\ n = q * W + r
    BY DivFacts
  <1> HIDE DEF q, r
  <1>2. n - k * W = (q - k) * W + r
    BY <1>1
  <1>3. q - k \in Int
    BY <1>1
  <1>4. ((q - k) * W + r) \div W = q - k /\ ((q - k) * W + r) % W = r
    BY <1>1, <1>3, DivUnique
  <1>5. (n - k * W) \div W = q - k /\ (n - k * W) % W = r
    BY <1>2, <1>4
  <1> QED BY <1>5 DEF q, r

\* A position among lines of W in an X-line memory is used again X * W later.
LEMMA SameCell ==
  ASSUME NEW a \in Int, NEW b \in Int, NEW W \in Nat, W > 0, NEW X \in Nat, X > 0,
         a < b, a % W = b % W, (a \div W) % X = (b \div W) % X
  PROVE  b - a >= X * W
  <1> DEFINE q == a \div W
             p == b \div W
             r == b % W
  <1>1. q \in Int /\ p \in Int /\ r \in Int /\ a = q * W + r /\ b = p * W + r
    BY DivFacts
  <1>2. q % X = p % X
    OBVIOUS
  <1> HIDE DEF q, p, r
  <1>3. b - a = (p - q) * W
    BY <1>1
  <1>4. q < p
    <2>1. p - q <= 0 => (p - q) * W <= 0
      BY <1>1
    <2> QED BY <1>1, <1>3, <2>1
  <1>5. p - q >= X
    BY <1>1, <1>2, <1>4, ModEqual
  <1>6. (p - q - X) * W >= 0
    <2>1. p - q - X \in Nat
      BY <1>1, <1>5
    <2> QED BY <2>1
  <1>7. (p - q - X) * W = (b - a) - X * W
    BY <1>1, <1>3
  <1> QED BY <1>1, <1>6, <1>7

\* Once around.
LEMMA ModAround ==
  ASSUME NEW n \in Int, NEW X \in Nat, X > 0
  PROVE  (n + X) % X = n % X
  <1> DEFINE q == n \div X
             r == n % X
  <1>1. q \in Int /\ r \in 0 .. X - 1 /\ n = q * X + r
    BY DivFacts
  <1> HIDE DEF q, r
  <1>2. n + X = (q + 1) * X + r
    BY <1>1
  <1>3. ((q + 1) * X + r) % X = r
    <2>1. q + 1 \in Int
      BY <1>1
    <2> QED BY <1>1, <2>1, DivUnique
  <1>4. (n + X) % X = r
    BY <1>2, <1>3
  <1> QED BY <1>4 DEF r

-----------------------------------------------------------------------------
(* The line buffers. *)

Kinds == {"Simple", "ReadFirst", "Interleaved"}
Mem(X) == [0 .. X - 1 -> [0 .. MaxWidth - 1 -> Int]]
LbType(kind) ==
  [pos_x : Int, pos_y : Int, lb_pos_y : Int, lbxbar : [0 .. FHX(kind) - 1 -> Int],
   lbvld : [Rows -> BOOLEAN], lbuf : Mem(FHX(kind)),
   w_din : Int, w_lb_pos : Int, w_addr : Int]

G == FH \div 2
E == FW \div 2

LEMMA Halves == G \in Nat /\ E \in Nat /\ G >= 1 /\ E >= 1 /\ FH = 2 * G + 1 /\ FW = 2 * E + 1
  BY WindowAssumption DEF G, E

\* The lines of a line buffer: all of the window's, or all but one.
LEMMA FhxFacts ==
  ASSUME NEW kind \in Kinds
  PROVE  /\ FHX(kind) \in Nat /\ FHX(kind) >= 2
         /\ kind = "Simple" => FHX(kind) = FH
         /\ kind # "Simple" => FHX(kind) = FH - 1
         /\ FH - FHX(kind) \in {0, 1} /\ FH \in Nat
  BY Halves DEF FHX

\* Where t pixels leave the positions, when pictures are W times H.
Positions(lb, kind, t, W, H) ==
  /\ lb.pos_x = t % W /\ lb.pos_y = (t \div W) % H /\ lb.lb_pos_y = (t \div W) % FHX(kind)
  /\ \A i \in 0 .. FHX(kind) - 1 :
       lb.lbxbar[i] = (i + 1 - (FH - FHX(kind)) + (t \div W)) % FHX(kind)
  /\ \A i \in Rows : lb.lbvld[i] <=> i <= t \div W

AtEdge(lb, W) == lb.pos_x = W - 1

\* The moves of LBState::Update.
Moves(lb, nx, kind, W, H) ==
  /\ nx.pos_x = IF AtEdge(lb, W) THEN 0 ELSE lb.pos_x + 1
  /\ nx.pos_y = IF ~AtEdge(lb, W) THEN lb.pos_y ELSE IF lb.pos_y = H - 1 THEN 0 ELSE lb.pos_y + 1
  /\ nx.lb_pos_y = IF ~AtEdge(lb, W) THEN lb.lb_pos_y
                          ELSE IF lb.lb_pos_y = FHX(kind) - 1 THEN 0 ELSE lb.lb_pos_y + 1
  /\ nx.lbxbar = IF AtEdge(lb, W) THEN [i \in 0 .. FHX(kind) - 1 |-> lb.lbxbar[(i + 1) % FHX(kind)]]
                        ELSE lb.lbxbar
  /\ nx.lbvld = IF AtEdge(lb, W) THEN [i \in Rows |-> i = 0 \/ lb.lbvld[i - 1]] ELSE lb.lbvld
  /\ nx.lbuf = lb.lbuf /\ nx.w_din = lb.w_din /\ nx.w_lb_pos = lb.w_lb_pos
  /\ nx.w_addr = lb.w_addr

\* LBState::Update makes its moves and nothing else.
LEMMA NextPosIs ==
  ASSUME NEW kind \in Kinds, NEW lb \in LbType(kind), NEW W \in Nat, NEW H \in Nat,
         NEW nx, nx = NextPos(lb, kind, W, H)
  PROVE  nx \in LbType(kind) /\ Moves(lb, nx, kind, W, H)
  <1>1. /\ nx.pos_x = IF AtEdge(lb, W) THEN 0 ELSE lb.pos_x + 1
        /\ nx.pos_y = IF ~AtEdge(lb, W) THEN lb.pos_y ELSE IF lb.pos_y = H - 1 THEN 0 ELSE lb.pos_y + 1
        /\ nx.lb_pos_y = IF ~AtEdge(lb, W) THEN lb.lb_pos_y
                         ELSE IF lb.lb_pos_y = FHX(kind) - 1 THEN 0 ELSE lb.lb_pos_y + 1
    BY DEF NextPos, LbType, AtEdge
  <1>2. nx.lbxbar = IF AtEdge(lb, W) THEN [i \in 0 .. FHX(kind) - 1 |-> lb.lbxbar[(i + 1) % FHX(kind)]]
                    ELSE lb.lbxbar
    BY DEF NextPos, LbType, AtEdge
  <1>3. nx.lbvld = IF AtEdge(lb, W) THEN [i \in Rows |-> i = 0 \/ lb.lbvld[i - 1]] ELSE lb.lbvld
    BY DEF NextPos, LbType, AtEdge
  <1>4. /\ nx.lbuf = lb.lbuf /\ nx.w_din = lb.w_din /\ nx.w_lb_pos = lb.w_lb_pos
        /\ nx.w_addr = lb.w_addr
    BY DEF NextPos, LbType, AtEdge
  <1>5. nx \in LbType(kind)
    <2>1. nx.pos_x \in Int /\ nx.pos_y \in Int /\ nx.lb_pos_y \in Int
      BY <1>1 DEF LbType
    <2>2. nx.lbxbar \in [0 .. FHX(kind) - 1 -> Int]
      <3>1. \A i \in 0 .. FHX(kind) - 1 : (i + 1) % FHX(kind) \in 0 .. FHX(kind) - 1
        BY FhxFacts
      <3> QED BY <1>2, <3>1 DEF LbType
    <2>3. nx.lbvld \in [Rows -> BOOLEAN]
      <3>1. lb.lbvld \in [Rows -> BOOLEAN]
        BY DEF LbType
      <3>2. \A i \in Rows : i = 0 \/ i - 1 \in Rows
        BY Halves DEF Rows
      <3> QED BY <1>3, <3>1, <3>2
    <2>4. /\ nx.lbuf \in Mem(FHX(kind))
          /\ nx.w_din \in Int /\ nx.w_lb_pos \in Int /\ nx.w_addr \in Int
      BY <1>4 DEF LbType
    <2>5. nx = [pos_x |-> nx.pos_x, pos_y |-> nx.pos_y, lb_pos_y |-> nx.lb_pos_y,
                lbxbar |-> nx.lbxbar, lbvld |-> nx.lbvld, lbuf |-> nx.lbuf, w_din |-> nx.w_din,
                w_lb_pos |-> nx.w_lb_pos, w_addr |-> nx.w_addr]
      BY DEF NextPos, LbType, AtEdge
    <2> QED BY <2>1, <2>2, <2>3, <2>4, <2>5 DEF LbType
  <1> QED BY <1>1, <1>2, <1>3, <1>4, <1>5 DEF Moves

\* LBState::Update keeps the positions with the pixels.
LEMMA PositionsStep ==
  ASSUME NEW kind \in Kinds, NEW lb \in LbType(kind), NEW t \in Nat, NEW W \in Nat, NEW H \in Nat,
         W >= 2, H >= 2, Positions(lb, kind, t, W, H), NEW nx, nx = NextPos(lb, kind, W, H)
  PROVE  Positions(nx, kind, t + 1, W, H)
  <1> DEFINE q == t \div W
             X == FHX(kind)
             edge == AtEdge(lb, W)
  <1>1. X \in Nat /\ X >= 2 /\ FH - X \in {0, 1} /\ FH \in Nat
    BY FhxFacts
  <1>2. q \in Nat
    BY DivFacts
  <1>3. /\ edge => (t + 1) % W = 0 /\ (t + 1) \div W = q + 1
        /\ ~edge => (t + 1) % W = (t % W) + 1 /\ (t + 1) \div W = q
    <2>1. edge <=> t % W = W - 1
      BY DEF Positions, AtEdge
    <2>2. W > 0
      OBVIOUS
    <2> HIDE DEF edge
    <2> QED BY <2>1, <2>2, NextDiv
  <1>4. /\ nx.pos_x = IF edge THEN 0 ELSE lb.pos_x + 1
        /\ nx.pos_y = IF ~edge THEN lb.pos_y ELSE IF lb.pos_y = H - 1 THEN 0 ELSE lb.pos_y + 1
        /\ nx.lb_pos_y = IF ~edge THEN lb.lb_pos_y
                         ELSE IF lb.lb_pos_y = X - 1 THEN 0 ELSE lb.lb_pos_y + 1
        /\ nx.lbxbar = IF edge THEN [i \in 0 .. X - 1 |-> lb.lbxbar[(i + 1) % X]] ELSE lb.lbxbar
        /\ nx.lbvld = IF edge THEN [i \in Rows |-> i = 0 \/ lb.lbvld[i - 1]] ELSE lb.lbvld
    <2>1. Moves(lb, nx, kind, W, H)
      BY NextPosIs
    <2> QED BY <2>1 DEF Moves
  <1>5. /\ lb.pos_x = t % W /\ lb.pos_y = q % H /\ lb.lb_pos_y = q % X
        /\ \A i \in 0 .. X - 1 : lb.lbxbar[i] = (i + 1 - (FH - X) + q) % X
        /\ \A i \in Rows : lb.lbvld[i] <=> i <= q
    BY DEF Positions
  <1> HIDE DEF q, X, edge
  <1>6. CASE ~edge
    <2>1. /\ nx.pos_x = (t + 1) % W /\ nx.pos_y = q % H /\ nx.lb_pos_y = q % X
          /\ nx.lbxbar = lb.lbxbar /\ nx.lbvld = lb.lbvld /\ (t + 1) \div W = q
      BY <1>3, <1>4, <1>5, <1>6
    <2> QED BY <1>5, <2>1 DEF Positions, X
  <1>7. CASE edge
    <2>1. (t + 1) \div W = q + 1 /\ nx.pos_x = (t + 1) % W
      BY <1>3, <1>4, <1>7
    <2>2. nx.pos_y = (q + 1) % H
      <3>1. /\ q % H = H - 1 => (q + 1) % H = 0
            /\ q % H # H - 1 => (q + 1) % H = (q % H) + 1
        <4>1. H > 0
          OBVIOUS
        <4> QED BY <1>2, <4>1, NextDiv
      <3> QED BY <1>4, <1>5, <1>7, <3>1
    <2>3. nx.lb_pos_y = (q + 1) % X
      <3>1. /\ q % X = X - 1 => (q + 1) % X = 0
            /\ q % X # X - 1 => (q + 1) % X = (q % X) + 1
        <4>1. X > 0
          BY <1>1
        <4> QED BY <1>1, <1>2, <4>1, NextDiv
      <3> QED BY <1>4, <1>5, <1>7, <3>1
    <2>4. ASSUME NEW i \in 0 .. X - 1
          PROVE  nx.lbxbar[i] = (i + 1 - (FH - X) + (q + 1)) % X
      <3> DEFINE j == (i + 1) % X
                 d == 1 - (FH - X) + q
      <3>1. j \in 0 .. X - 1 /\ d \in Int
        BY <1>1, <1>2
      <3>2. nx.lbxbar[i] = lb.lbxbar[j]
        BY <1>4, <1>7
      <3>3. lb.lbxbar[j] = (j + 1 - (FH - X) + q) % X
        BY <1>5, <3>1
      <3>4. (j + d) % X = ((i + 1) + d) % X
        <4>1. i + 1 \in Int /\ X > 0
          BY <1>1
        <4> HIDE DEF d
        <4> QED BY <1>1, <3>1, <4>1, ModPlus
      <3>5. (j + 1 - (FH - X) + q) = j + d /\ (i + 1 - (FH - X) + (q + 1)) = (i + 1) + d
        BY <1>1, <1>2, <3>1
      <3> QED BY <3>2, <3>3, <3>4, <3>5
    <2>5. ASSUME NEW i \in Rows
          PROVE  nx.lbvld[i] <=> i <= q + 1
      <3>1. nx.lbvld[i] <=> i = 0 \/ lb.lbvld[i - 1]
        BY <1>4, <1>7
      <3>2. i = 0 \/ i - 1 \in Rows
        BY Halves DEF Rows
      <3>3. i - 1 \in Rows => (lb.lbvld[i - 1] <=> i - 1 <= q)
        BY <1>5
      <3>4. i \in Nat
        BY Halves DEF Rows
      <3> QED BY <1>2, <3>1, <3>2, <3>3, <3>4
    <2> QED BY <2>1, <2>2, <2>3, <2>4, <2>5 DEF Positions, X
  <1> QED BY <1>6, <1>7

\* The last X lines of W pixels, up to pixel e, are in the memory.
Stored(lbuf, e, X, W) ==
  \A u \in Nat : u < e /\ u >= e - X * W => lbuf[(u \div W) % X][u % W] = u + 1

Puts(new, f, a, x, v) == new = [f EXCEPT ![a][x] = v]

\* Writing one cell of a memory.
LEMMA CellWritten ==
  ASSUME NEW X \in Nat, NEW f \in Mem(X), NEW a, NEW x, NEW v \in Int, NEW new, Puts(new, f, a, x, v)
  PROVE  /\ new \in Mem(X)
         /\ \A c \in 0 .. X - 1, y \in 0 .. MaxWidth - 1 :
              new[c][y] = IF c = a /\ y = x THEN v ELSE f[c][y]
  <1> DEFINE line == [f[a] EXCEPT ![x] = v]
             B == 0 .. MaxWidth - 1
             A == 0 .. X - 1
  <1>1. new = [f EXCEPT ![a] = line]
    BY DEF Puts
  <1>2. f \in [A -> [B -> Int]]
    BY DEF Mem
  <1>3. a \in A => line \in [B -> Int]
    BY <1>2
  <1>4. ASSUME a \in A, NEW y \in B PROVE line[y] = IF y = x THEN v ELSE f[a][y]
    BY <1>2, <1>4
  <1> HIDE DEF line, A, B
  <1>5. new \in [A -> [B -> Int]]
    BY <1>1, <1>2, <1>3
  <1>6. \A c \in A, y \in B : new[c][y] = IF c = a /\ y = x THEN v ELSE f[c][y]
    BY <1>1, <1>2, <1>4
  <1> QED BY <1>5, <1>6 DEF Mem, A, B

\* A pixel written in its place leaves the last X lines in the memory.
LEMMA StoredStep ==
  ASSUME NEW X \in Nat, X > 0, NEW W \in Nat, W > 0, W <= MaxWidth, NEW e \in Nat,
         NEW lbuf \in Mem(X), Stored(lbuf, e, X, W),
         NEW new, Puts(new, lbuf, (e \div W) % X, e % W, e + 1)
  PROVE  Stored(new, e + 1, X, W)
  <1> SUFFICES ASSUME NEW u \in Nat, u < e + 1, u >= (e + 1) - X * W
               PROVE  new[(u \div W) % X][u % W] = u + 1
    BY Zenon DEF Stored
  <1> DEFINE a == (e \div W) % X
             x == e % W
             b == (u \div W) % X
             y == u % W
  <1>1. x \in 0 .. W - 1 /\ y \in 0 .. W - 1 /\ a \in 0 .. X - 1 /\ b \in 0 .. X - 1
    BY DivFacts
  <1>2. X * W \in Nat
    OBVIOUS
  <1>3. u < e /\ a = b => x # y
    <2> SUFFICES ASSUME u < e, a = b, x = y PROVE FALSE
      OBVIOUS
    <2>1. u % W = e % W /\ (u \div W) % X = (e \div W) % X /\ u \in Int /\ e \in Int
      OBVIOUS
    <2>2. e - u >= X * W
      BY <2>1, SameCell
    <2> QED BY <1>2, <2>2
  <1>4. u < e => lbuf[b][y] = u + 1
    BY <1>2 DEF Stored
  <1>5. Puts(new, lbuf, a, x, e + 1)
    OBVIOUS
  <1>6. u = e => a = b /\ x = y
    OBVIOUS
  <1> HIDE DEF a, b, x, y
  <1>7. x \in 0 .. MaxWidth - 1 /\ y \in 0 .. MaxWidth - 1
    BY <1>1, MaxWidthIsNat
  <1>11. e + 1 \in Int
    OBVIOUS
  <1>8. new[b][y] = IF a = b /\ x = y THEN e + 1 ELSE lbuf[b][y]
    BY <1>1, <1>5, <1>7, <1>11, CellWritten
  <1>9. u < e \/ u = e
    OBVIOUS
  <1>10. new[b][y] = u + 1
    BY <1>3, <1>4, <1>6, <1>8, <1>9
  <1> QED BY <1>10 DEF b, y

\* What t pixels leave in the memory; the interleaved one holds the last pixel back.
Memory(lb, kind, t, W) ==
  IF kind = "Interleaved"
  THEN t > 0 => /\ Stored(lb.lbuf, t - 1, FHX(kind), W) /\ lb.w_din = t
                /\ lb.w_lb_pos = ((t - 1) \div W) % FHX(kind) /\ lb.w_addr = ((t - 1) % W) \div 2
  ELSE Stored(lb.lbuf, t, FHX(kind), W)

SamePlace(lb, nx) ==
  /\ nx.pos_x = lb.pos_x /\ nx.pos_y = lb.pos_y /\ nx.lb_pos_y = lb.lb_pos_y
  /\ nx.lbxbar = lb.lbxbar /\ nx.lbvld = lb.lbvld

\* The cell that the interleaved buffer writes: the pixel before pos_x.
HeldBack(lb) == 2 * lb.w_addr + 1 - (lb.pos_x % 2)

\* UpdateData writes one cell: din where the positions are, or what was held back.
LEMMA WrittenIs ==
  ASSUME NEW kind \in Kinds, NEW lb \in LbType(kind), NEW din \in Int,
         NEW nx, nx = Written(lb, kind, din)
  PROVE  /\ nx \in LbType(kind) /\ SamePlace(lb, nx)
         /\ kind # "Interleaved" =>
              Puts(nx.lbuf, lb.lbuf, lb.lb_pos_y, lb.pos_x, din)
         /\ kind = "Interleaved" =>
              /\ Puts(nx.lbuf, lb.lbuf, lb.w_lb_pos, HeldBack(lb), lb.w_din)
              /\ nx.w_din = din /\ nx.w_lb_pos = lb.lb_pos_y /\ nx.w_addr = lb.pos_x \div 2
  <1>1. SamePlace(lb, nx)
    BY DEF Written, LbType, SamePlace
  <1>2. CASE kind # "Interleaved"
    <2>1. nx = [lb EXCEPT !.lbuf[lb.lb_pos_y][lb.pos_x] = din]
      BY <1>2 DEF Written
    <2>2. Puts(nx.lbuf, lb.lbuf, lb.lb_pos_y, lb.pos_x, din)
      BY <2>1 DEF LbType, Puts
    <2>3. nx.lbuf \in Mem(FHX(kind))
      <3>1. lb.lbuf \in Mem(FHX(kind))
        BY DEF LbType
      <3>2. din \in Int
        OBVIOUS
      <3> QED BY <2>2, <3>1, <3>2, FhxFacts, CellWritten
    <2>4. nx \in LbType(kind)
      BY <2>1, <2>3 DEF LbType
    <2> QED BY <1>1, <1>2, <2>2, <2>4
  <1>3. CASE kind = "Interleaved"
    <2>1. nx = [lb EXCEPT !.lbuf[lb.w_lb_pos][HeldBack(lb)] = lb.w_din, !.w_din = din,
                          !.w_lb_pos = lb.lb_pos_y, !.w_addr = lb.pos_x \div 2]
      BY <1>3 DEF Written, HeldBack
    <2>2. /\ Puts(nx.lbuf, lb.lbuf, lb.w_lb_pos, HeldBack(lb), lb.w_din)
          /\ nx.w_din = din /\ nx.w_lb_pos = lb.lb_pos_y /\ nx.w_addr = lb.pos_x \div 2
      BY <2>1 DEF LbType, Puts
    <2>3. nx.lbuf \in Mem(FHX(kind))
      <3>1. /\ lb.lbuf \in Mem(FHX(kind))
            /\ lb.w_din \in Int
        BY DEF LbType
      <3> QED BY <2>2, <3>1, FhxFacts, CellWritten
    <2>4. nx.w_din \in Int /\ nx.w_lb_pos \in Int /\ nx.w_addr \in Int
      <3>1. lb.pos_x \in Int
        BY DEF LbType
      <3> QED BY <2>2, <3>1 DEF LbType
    <2>5. nx \in LbType(kind)
      BY <2>1, <2>3, <2>4 DEF LbType
    <2> QED BY <1>1, <1>3, <2>2, <2>5
  <1> QED BY <1>2, <1>3

\* In lines of an even length what was held back goes where its pixel belongs.
LEMMA HeldBackIs ==
  ASSUME NEW t \in Nat, t > 0, NEW W \in Nat, W >= 2, W % 2 = 0,
         NEW lb, lb.pos_x = t % W, lb.w_addr = ((t - 1) % W) \div 2
  PROVE  HeldBack(lb) = (t - 1) % W
  <1> DEFINE a == (t - 1) % W
             p == t % W
  <1>1. a \in 0 .. W - 1 /\ t - 1 \in Nat /\ (t - 1) + 1 = t
    BY DivFacts
  <1>2. p = IF a = W - 1 THEN 0 ELSE a + 1
    <2>1. /\ a = W - 1 => ((t - 1) + 1) % W = 0
          /\ a # W - 1 => ((t - 1) + 1) % W = a + 1
      <3>1. W > 0
        OBVIOUS
      <3> QED BY <1>1, <3>1, NextDiv
    <2> QED BY <1>1, <2>1
  <1>3. HeldBack(lb) = 2 * (a \div 2) + 1 - (p % 2)
    BY DEF HeldBack
  <1> HIDE DEF a, p
  <1>4. CASE a = W - 1
    <2>1. a % 2 = 1 /\ 2 * (a \div 2) = a - 1 /\ p % 2 = 0
      BY <1>1, <1>2, <1>4
    <2> QED BY <1>1, <1>3, <2>1 DEF a
  <1>5. CASE a # W - 1
    <2>1. 2 * (a \div 2) = a - (a % 2) /\ p % 2 = 1 - (a % 2) /\ a % 2 \in {0, 1}
      BY <1>1, <1>2, <1>5
    <2> QED BY <1>1, <1>3, <2>1 DEF a
  <1> QED BY <1>4, <1>5

\* UpdateData keeps the last lines in the memory.
LEMMA MemoryStep ==
  ASSUME NEW kind \in Kinds, NEW lb \in LbType(kind), NEW t \in Nat, NEW W \in Nat, NEW H \in Nat,
         W >= 2, W <= MaxWidth, kind = "Interleaved" => W % 2 = 0,
         Positions(lb, kind, t, W, H), Memory(lb, kind, t, W),
         NEW nx, nx = Written(lb, kind, t + 1)
  PROVE  Memory(nx, kind, t + 1, W)
  <1> DEFINE X == FHX(kind)
  <1>1. X \in Nat /\ X > 0 /\ W > 0 /\ t + 1 \in Int /\ (t + 1) - 1 = t
    BY FhxFacts
  <1>2. lb.lbuf \in Mem(X)
    BY DEF LbType
  <1>3. lb.pos_x = t % W /\ lb.lb_pos_y = (t \div W) % X
    BY DEF Positions
  <1> HIDE DEF X
  <1>4. CASE kind # "Interleaved"
    <2>1. Puts(nx.lbuf, lb.lbuf, lb.lb_pos_y, lb.pos_x, t + 1)
      BY <1>1, <1>4, WrittenIs
    <2>2. Puts(nx.lbuf, lb.lbuf, (t \div W) % X, t % W, t + 1)
      BY <1>3, <2>1
    <2>3. Stored(lb.lbuf, t, X, W)
      BY <1>4 DEF Memory, X
    <2>4. Stored(nx.lbuf, t + 1, X, W)
      BY <1>1, <1>2, <2>2, <2>3, StoredStep
    <2> QED BY <1>4, <2>4 DEF Memory, X
  <1>5. CASE kind = "Interleaved"
    <2>1. /\ Puts(nx.lbuf, lb.lbuf, lb.w_lb_pos, HeldBack(lb), lb.w_din)
          /\ nx.w_din = t + 1 /\ nx.w_lb_pos = (t \div W) % X /\ nx.w_addr = (t % W) \div 2
      <3>1. /\ Puts(nx.lbuf, lb.lbuf, lb.w_lb_pos, HeldBack(lb), lb.w_din)
            /\ nx.w_din = t + 1 /\ nx.w_lb_pos = lb.lb_pos_y /\ nx.w_addr = lb.pos_x \div 2
        <4>1. kind = "Interleaved" =>
                /\ Puts(nx.lbuf, lb.lbuf, lb.w_lb_pos, HeldBack(lb), lb.w_din)
                /\ nx.w_din = t + 1 /\ nx.w_lb_pos = lb.lb_pos_y /\ nx.w_addr = lb.pos_x \div 2
          <5> DEFINE d == t + 1
          <5>1. d \in Int /\ nx = Written(lb, kind, d)
            BY <1>1
          <5> HIDE DEF d
          <5>2. kind = "Interleaved" =>
                  /\ Puts(nx.lbuf, lb.lbuf, lb.w_lb_pos, HeldBack(lb), lb.w_din)
                  /\ nx.w_din = d /\ nx.w_lb_pos = lb.lb_pos_y /\ nx.w_addr = lb.pos_x \div 2
            BY <5>1, WrittenIs
          <5> QED BY <5>2 DEF d
        <4> QED BY <1>5, <4>1, Zenon
      <3> QED BY <1>3, <3>1
    <2>2. Stored(nx.lbuf, t, X, W)
      <3>1. CASE t = 0
        BY <3>1 DEF Stored
      <3>2. CASE t > 0
        <4>1. /\ Stored(lb.lbuf, t - 1, X, W) /\ lb.w_din = t
              /\ lb.w_lb_pos = ((t - 1) \div W) % X /\ lb.w_addr = ((t - 1) % W) \div 2
          BY <1>5, <3>2 DEF Memory, X
        <4>2. HeldBack(lb) = (t - 1) % W
          BY <1>3, <1>5, <3>2, <4>1, HeldBackIs
        <4>3. t - 1 \in Nat /\ (t - 1) + 1 = t
          BY <3>2
        <4>4. Puts(nx.lbuf, lb.lbuf, ((t - 1) \div W) % X, (t - 1) % W, (t - 1) + 1)
          BY <2>1, <4>1, <4>2, <4>3
        <4>5. Stored(nx.lbuf, (t - 1) + 1, X, W)
          BY <1>1, <1>2, <4>1, <4>3, <4>4, StoredStep
        <4> QED BY <4>3, <4>5
      <3> QED BY <3>1, <3>2
    <2> QED BY <1>1, <1>5, <2>1, <2>2 DEF Memory, X
  <1> QED BY <1>4, <1>5

\* The pixel that row i of the column at pixel t shows.
Above(t, i, W) == t - (FH - 1 - i) * W

\* The column that UpdateData reads is the one above the pixel.
LEMMA ColumnIs ==
  ASSUME NEW kind \in Kinds, NEW lb \in LbType(kind), NEW t \in Nat, NEW W \in Nat, NEW H \in Nat,
         W >= 2, Positions(lb, kind, t, W, H), Memory(lb, kind, t, W),
         NEW i \in Rows, Above(t, i, W) >= 0
  PROVE  Column(lb, kind, t + 1)[i] = Above(t, i, W) + 1
  <1> DEFINE X == FHX(kind)
             q == t \div W
             k == FH - 1 - i
             u == Above(t, i, W)
             xbar == (i + 1 - (FH - X) + q) % X
  <1>1. /\ X \in Nat /\ X >= 2 /\ FH - X \in {0, 1} /\ FH \in Nat
        /\ kind = "Simple" => X = FH
        /\ kind # "Simple" => X = FH - 1
    BY FhxFacts
  <1>2. q \in Nat /\ W > 0
    BY DivFacts
  <1>3. i \in 0 .. FH - 1 /\ k \in 0 .. FH - 1 /\ i = FH - 1 - k
    BY <1>1 DEF Rows
  <1>4. u = t - k * W /\ u \in Nat
    BY <1>1, <1>3 DEF Above
  <1>5. u \div W = q - k /\ u % W = t % W
    <2>1. (t - k * W) \div W = q - k /\ (t - k * W) % W = t % W
      <3>1. k \in Int /\ t \in Int
        BY <1>1, <1>3
      <3> QED BY <1>2, <3>1, DivMinus DEF q
    <2> QED BY <1>4, <2>1
  <1>6. /\ lb.pos_x = t % W /\ lb.lb_pos_y = q % X
        /\ \A j \in 0 .. X - 1 : lb.lbxbar[j] = (j + 1 - (FH - X) + q) % X
    BY DEF Positions
  <1>7. Column(lb, kind, t + 1)[i] =
          IF IF kind = "Simple" THEN lb.lbxbar[i] = lb.lb_pos_y ELSE i = FH - 1
          THEN t + 1 ELSE lb.lbuf[lb.lbxbar[i]][lb.pos_x]
    BY DEF Column
  <1> HIDE DEF X, q, k, u, xbar
  <1>8. i = FH - 1 => u = t
    BY <1>2, <1>3, <1>4
  <1>9. ASSUME i # FH - 1
        PROVE  /\ i \in 0 .. X - 1 /\ k >= 1 /\ k <= X
               /\ (u \div W) % X = lb.lbxbar[i]
               /\ u < t - 1 /\ u >= t - X * W
    <2>1. i \in 0 .. X - 1 /\ k >= 1 /\ k <= X
      BY <1>1, <1>3, <1>9
    <2>2. lb.lbxbar[i] = (i + 1 - (FH - X) + q) % X
      BY <1>6, <2>1
    <2>3. i + 1 - (FH - X) + q = (q - k) + X
      BY <1>1, <1>2, <1>3
    <2>4. ((q - k) + X) % X = (q - k) % X
      <3>1. q - k \in Int /\ X > 0
        BY <1>1, <1>2, <1>3
      <3> QED BY <1>1, <3>1, ModAround
    <2>6. (u \div W) % X = lb.lbxbar[i]
      BY <1>5, <2>2, <2>3, <2>4
    <2>7. k * W >= W
      BY <1>3, <2>1, MulBound
    <2>8. k * W <= X * W
      <3>1. (X - k) * W >= 0
        <4>1. X - k \in Nat
          BY <1>1, <1>3, <2>1
        <4> QED BY <4>1
      <3>2. (X - k) * W = X * W - k * W
        BY <1>1, <1>3
      <3>3. X * W \in Nat /\ k * W \in Int
        BY <1>1, <1>3
      <3> QED BY <3>1, <3>2, <3>3
    <2>9. u < t - 1 /\ u >= t - X * W
      <3>1. X * W \in Nat /\ k * W \in Int
        BY <1>1, <1>3
      <3> QED BY <1>4, <2>7, <2>8, <3>1
    <2> QED BY <2>1, <2>6, <2>9
  <1>10. ASSUME i # FH - 1
         PROVE  lb.lbuf[(u \div W) % X][u % W] = u + 1
    <2>1. X * W \in Nat
      BY <1>1
    <2>2. CASE kind = "Interleaved"
      <3>1. Stored(lb.lbuf, t - 1, X, W)
        BY <1>4, <1>9, <1>10, <2>2 DEF Memory, X
      <3>2. u < t - 1 /\ u >= (t - 1) - X * W
        BY <1>4, <1>9, <1>10, <2>1
      <3> QED BY <1>4, <3>1, <3>2 DEF Stored
    <2>3. CASE kind # "Interleaved"
      <3>1. Stored(lb.lbuf, t, X, W)
        BY <2>3 DEF Memory, X
      <3>2. u < t /\ u >= t - X * W
        BY <1>4, <1>9, <1>10, <2>1
      <3> QED BY <1>4, <3>1, <3>2 DEF Stored
    <2> QED BY <2>2, <2>3
  <1>11. CASE i = FH - 1
    <2>1. kind = "Simple" => lb.lbxbar[i] = lb.lb_pos_y
      <3> SUFFICES ASSUME kind = "Simple" PROVE lb.lbxbar[i] = q % X
        BY <1>6
      <3>1. X = FH /\ i \in 0 .. X - 1
        BY <1>1, <1>3
      <3>2. lb.lbxbar[i] = (i + 1 - (FH - X) + q) % X
        BY <1>6, <3>1
      <3>3. i + 1 - (FH - X) + q = q + X
        BY <1>1, <1>2, <1>11, <3>1
      <3>4. (q + X) % X = q % X
        <4>1. q \in Int /\ X > 0
          BY <1>1, <1>2
        <4> QED BY <1>1, <4>1, ModAround
      <3> QED BY <3>2, <3>3, <3>4
    <2> QED BY <1>7, <1>8, <1>11, <2>1 DEF u
  <1>12. CASE i # FH - 1
    <2>1. ~(kind = "Simple" /\ lb.lbxbar[i] = lb.lb_pos_y)
      <3> SUFFICES ASSUME kind = "Simple", lb.lbxbar[i] = lb.lb_pos_y PROVE FALSE
        OBVIOUS
      <3>1. (q - k) % X = q % X /\ X = FH
        BY <1>1, <1>5, <1>6, <1>9, <1>12
      <3>2. q - k < q
        BY <1>2, <1>3, <1>9, <1>12
      <3>3. q - (q - k) >= X
        BY <1>1, <1>2, <1>3, <3>1, <3>2, ModEqual
      <3> QED BY <1>1, <1>2, <1>3, <3>1, <3>3
    <2>2. Column(lb, kind, t + 1)[i] = lb.lbuf[lb.lbxbar[i]][lb.pos_x]
      BY <1>7, <1>12, <2>1
    <2> QED BY <1>5, <1>6, <1>9, <1>10, <1>12, <2>2 DEF u
  <1> QED BY <1>11, <1>12

-----------------------------------------------------------------------------
(* Borders, the same for rows of a column and for columns of a row: a window of  *)
(* 2h + 1 whose newest element is i of len has its centre h before, perhaps in   *)
(* the line or frame before.                                                     *)
Centre(i, h, len) == (IF i < h THEN len ELSE 0) + i - h

\* Element k of a window src of n, filled in, when its place is y of len.
Filled(src, n, i, len, k, y) ==
  /\ BorderOf("001", src, n, i, len)[k] = IF y \in 0 .. len - 1 THEN src[k] ELSE Black
  /\ BorderOf("101", src, n, i, len)[k] = src[k + BORDER_101(y, len) - y]
  /\ BORDER_101(y, len) \in 0 .. len - 1 /\ k + BORDER_101(y, len) - y \in 0 .. n - 1

\* The borders of the code fill in the pixel that the picture has there.
LEMMA BorderIs ==
  ASSUME NEW h \in Nat, h >= 1, NEW n \in Nat, n = 2 * h + 1, NEW len \in Nat, len >= 2 * h,
         NEW i \in 0 .. len - 1, NEW k \in 0 .. n - 1, NEW src,
         NEW y \in Int, y = Centre(i, h, len) + k - h
  PROVE  Filled(src, n, i, len, k, y)
  <1>1. n \div 2 = h /\ n \in Nat
    OBVIOUS
  <1>2. Centre(i, h, len) \in 0 .. len - 1
    BY DEF Centre
  <1>3. y = (IF i < h THEN len ELSE 0) + i + k - 2 * h /\ y \in Int
    BY DEF Centre
  <1>4. BorderOf("001", src, n, i, len)[k] = IF y \in 0 .. len - 1 THEN src[k] ELSE Black
    <2>1. (IF i < n \div 2 THEN len ELSE 0) + 1 - n + i + k = y
      BY <1>1, <1>3
    <2> QED BY <2>1 DEF BorderOf, border001
  <1> DEFINE after == k - n + 2 + i
             before == n - k - 1 - i
  <1>5. after \in Int /\ before \in Int
    BY <1>1
  <1>6. BorderOf("101", src, n, i, len)[k] =
          IF i < h /\ after > 0 THEN src[k - 2 * after]
          ELSE IF i >= h /\ before > 0 THEN src[k + 2 * before] ELSE src[k]
    BY <1>1 DEF BorderOf, border101
  <1>7. CASE i < h
    <2>1. y = len + after - 1 /\ y >= 0 /\ after <= k - h
      BY <1>1, <1>3, <1>7
    <2>2. BORDER_101(y, len) = IF after > 0 THEN y - 2 * after ELSE y
      BY <1>5, <2>1 DEF BORDER_101
    <2>3. /\ BORDER_101(y, len) \in 0 .. len - 1
          /\ k + BORDER_101(y, len) - y = IF after > 0 THEN k - 2 * after ELSE k
          /\ k + BORDER_101(y, len) - y \in 0 .. n - 1
      BY <1>1, <1>3, <1>5, <1>7, <2>1, <2>2
    <2> HIDE DEF after, before
    <2> QED BY <1>2, <1>3, <1>4, <1>6, <1>7, <2>3 DEF Filled
  <1>8. CASE i >= h
    <2>1. y = -before /\ y <= i
      BY <1>1, <1>3, <1>8
    <2>2. BORDER_101(y, len) = IF before > 0 THEN y + 2 * before ELSE y
      BY <1>3, <1>5, <2>1 DEF BORDER_101
    <2>3. /\ BORDER_101(y, len) \in 0 .. len - 1
          /\ k + BORDER_101(y, len) - y = IF before > 0 THEN k + 2 * before ELSE k
          /\ k + BORDER_101(y, len) - y \in 0 .. n - 1
      BY <1>1, <1>3, <1>5, <1>8, <2>1, <2>2
    <2> HIDE DEF after, before
    <2> QED BY <1>2, <1>3, <1>4, <1>6, <1>8, <2>3 DEF Filled
  <1> QED BY <1>7, <1>8

\* The centre of the window, counted around.
LEMMA CentreIs ==
  ASSUME NEW h \in Nat, NEW len \in Nat, len > 0, len >= h, NEW s \in Int
  PROVE  (s - h) % len = Centre(s % len, h, len)
  <1> DEFINE q == s \div len
             i == s % len
             p == IF i < h THEN q - 1 ELSE q
             r == Centre(i, h, len)
  <1>1. q \in Int /\ i \in 0 .. len - 1 /\ s = q * len + i
    BY DivFacts
  <1>2. p \in Int
    BY <1>1
  <1>3. r \in 0 .. len - 1
    BY <1>1 DEF Centre
  <1>4. s - h = p * len + r
    <2>1. (q - 1) * len = q * len - len
      BY <1>1
    <2>2. r = (IF i < h THEN len ELSE 0) + i - h
      BY DEF Centre
    <2>3. q * len \in Int
      BY <1>1
    <2> HIDE DEF q, i, r
    <2>4. p * len = IF i < h THEN q * len - len ELSE q * len
      BY <2>1
    <2> HIDE DEF p
    <2> QED BY <1>1, <2>2, <2>3, <2>4
  <1> HIDE DEF q, p, r
  <1> QED BY <1>2, <1>3, <1>4, DivUnique DEF r

\* Where in its picture a pixel of the stream is.
LEMMA PlaceIs ==
  ASSUME NEW n \in Nat, NEW W \in Nat, W > 0, NEW H \in Nat, H > 0
  PROVE  /\ n \div (W * H) = (n \div W) \div H
         /\ (n % (W * H)) \div W = (n \div W) % H
         /\ (n % (W * H)) % W = n % W
  <1> DEFINE l == n \div W
             x == n % W
             f == l \div H
             y == l % H
             p == y * W + x
  <1>1. l \in Int /\ x \in 0 .. W - 1 /\ n = l * W + x
    BY DivFacts
  <1>2. f \in Int /\ y \in 0 .. H - 1 /\ l = f * H + y
    BY <1>1, DivFacts
  <1> HIDE DEF l, x, f, y
  <1>3. n = f * (W * H) + p
    BY <1>1, <1>2
  <1>4. p \in 0 .. W * H - 1
    <2>1. y * W \in Nat /\ W * H \in Nat
      BY <1>2
    <2>2. (H - 1 - y) * W >= 0
      <3>1. H - 1 - y \in Nat
        BY <1>2
      <3> QED BY <3>1
    <2>3. (H - 1 - y) * W = W * H - W - y * W
      BY <1>2
    <2> QED BY <1>1, <2>1, <2>2, <2>3
  <1>5. W * H \in Nat /\ W * H > 0
    <2>1. W * H >= H
      BY MulBound
    <2> QED BY <2>1
  <1>6. p \div W = y /\ p % W = x
    BY <1>1, <1>2, DivUnique
  <1> HIDE DEF p
  <1>7. n \div (W * H) = f /\ n % (W * H) = p
    BY <1>2, <1>3, <1>4, <1>5, DivUnique
  <1> QED BY <1>6, <1>7 DEF f, y, x, l

-----------------------------------------------------------------------------
(* The window.  Row i of the column that pixel s completes, borders filled in. *)
Frame1(W, H, c, yy, x) == (c \div H) * W * H + yy * W + x + 1
Upright(border, s, i, W, H) ==
  LET c == (s \div W) - G
      y == (c % H) + i - G
  IN IF border = "101" THEN Frame1(W, H, c, BORDER_101(y, H), s % W)
     ELSE IF y \in 0 .. H - 1 THEN Frame1(W, H, c, y, s % W) ELSE Black

LEMMA Polynomial ==
  ASSUME NEW f \in Int, NEW y \in Int, NEW W \in Int, NEW H \in Int, NEW x \in Int
  PROVE  (f * H + y) * W + x = f * W * H + y * W + x
  OBVIOUS

LEMMA Products ==
  ASSUME NEW a \in Nat, NEW b \in Nat
  PROVE  a * b \in Nat
  OBVIOUS

\* What the line buffer holds in a row of the picture that is being filtered.
LEMMA RowIs ==
  ASSUME NEW kind \in Kinds, NEW lb \in LbType(kind), NEW t \in Nat, NEW W \in Nat, NEW H \in Nat,
         W >= 2, H >= 2, Positions(lb, kind, t, W, H), Memory(lb, kind, t, W),
         NEW c, c = (t \div W) - G, c >= 0,
         NEW k \in Rows, NEW yy, yy = (c % H) + k - G, yy >= 0
  PROVE  Column(lb, kind, t + 1)[k] = Frame1(W, H, c, yy, t % W)
  <1> DEFINE q == t \div W
             x == t % W
             f == c \div H
             y == c % H
  <1>1. q \in Int /\ x \in 0 .. W - 1 /\ t = q * W + x
    BY DivFacts
  <1>2. G \in Nat /\ FH = 2 * G + 1 /\ k \in 0 .. 2 * G
    BY Halves DEF Rows
  <1>3. c = q - G /\ c \in Nat
    BY <1>1, <1>2
  <1>4. f \in Nat /\ y \in 0 .. H - 1 /\ c = f * H + y
    <2>1. H > 0 /\ c \in Int /\ c >= 0
      BY <1>3
    <2> HIDE DEF q
    <2> QED BY <2>1, DivFacts
  <1>5. yy = y + k - G /\ yy \in Nat
    BY <1>2, <1>4
  <1> HIDE DEF q, x, f, y
  <1>6. Above(t, k, W) = (f * H + yy) * W + x
    <2>1. Above(t, k, W) = t - (2 * G - k) * W
      BY <1>2 DEF Above
    <2>2. q - (2 * G - k) = f * H + yy
      <3>1. f * H \in Nat
        BY <1>4, Products
      <3> HIDE DEF f
      <3> QED BY <1>1, <1>2, <1>3, <1>4, <1>5, <3>1
    <2>3. t - (2 * G - k) * W = (q - (2 * G - k)) * W + x
      BY <1>1, <1>2
    <2> QED BY <2>1, <2>2, <2>3
  <1>7. (f * H + yy) * W + x >= 0
    <2>1. f * H \in Nat
      BY <1>4, Products
    <2>2. f * H + yy \in Nat
      BY <1>5, <2>1
    <2>3. (f * H + yy) * W \in Nat
      BY <2>2, Products
    <2> QED BY <1>1, <2>3
  <1>8. Column(lb, kind, t + 1)[k] = Above(t, k, W) + 1
    BY <1>6, <1>7, ColumnIs
  <1>9. (f * H + yy) * W + x = f * W * H + yy * W + x
    BY <1>1, <1>4, <1>5, Polynomial
  <1> QED BY <1>6, <1>8, <1>9 DEF Frame1, f, x

\* The column, borders filled in, is that of the picture that is being filtered.
LEMMA UprightIs ==
  ASSUME NEW kind \in Kinds, NEW lb \in LbType(kind), NEW t \in Nat, NEW W \in Nat, NEW H \in Nat,
         W >= 2, H >= 2 * G, Positions(lb, kind, t, W, H), Memory(lb, kind, t, W),
         t \div W >= G, NEW i \in Rows, NEW border \in {"001", "101"}
  PROVE  BorderOf(border, Column(lb, kind, t + 1), FH, lb.pos_y, H)[i] = Upright(border, t, i, W, H)
  <1> DEFINE q == t \div W
             c == q - G
             y == (c % H) + i - G
             col == Column(lb, kind, t + 1)
  <1>1. /\ G \in Nat /\ G >= 1 /\ FH = 2 * G + 1 /\ i \in 0 .. FH - 1 /\ i \in Int
        /\ H > 0 /\ H >= G /\ H >= 2
    BY Halves DEF Rows
  <1>2. q \in Int /\ c \in Int /\ c >= 0
    BY <1>1, DivFacts
  <1>3. lb.pos_y = q % H /\ lb.pos_y \in 0 .. H - 1
    BY <1>1, <1>2, DivFacts DEF Positions
  <1>4. c % H = Centre(lb.pos_y, G, H)
    BY <1>1, <1>2, <1>3, CentreIs
  <1>5. y = Centre(lb.pos_y, G, H) + i - G
    BY <1>4
  <1>6. ASSUME NEW k \in Rows, NEW yy, yy = (c % H) + k - G, yy >= 0
        PROVE  col[k] = Frame1(W, H, c, yy, t % W)
    BY <1>1, <1>2, <1>6, RowIs
  <1>7. c % H \in Int
    BY <1>1, <1>2, DivFacts
  <1>11. y \in Int
    BY <1>1, <1>7
  <1> HIDE DEF q, c, y, col
  <1>8. /\ BorderOf("001", col, FH, lb.pos_y, H)[i] = IF y \in 0 .. H - 1 THEN col[i] ELSE Black
        /\ BorderOf("101", col, FH, lb.pos_y, H)[i] = col[i + BORDER_101(y, H) - y]
        /\ BORDER_101(y, H) \in 0 .. H - 1 /\ i + BORDER_101(y, H) - y \in 0 .. FH - 1
        /\ y \in Int
    <2>1. Filled(col, FH, lb.pos_y, H, i, y)
      BY <1>1, <1>3, <1>5, <1>11, BorderIs
    <2> QED BY <2>1, <1>11 DEF Filled
  <1>9. CASE border = "001"
    <2>1. y \in 0 .. H - 1 => col[i] = Frame1(W, H, c, y, t % W)
      <3>1. y = (c % H) + i - G
        BY DEF y
      <3> QED BY <1>6, <3>1
    <2> QED BY <1>8, <1>9, <2>1 DEF Upright, c, q, y, col
  <1>10. CASE border = "101"
    <2> DEFINE b == BORDER_101(y, H)
               k == i + b - y
    <2>1. k \in Rows /\ b = (c % H) + k - G /\ b >= 0
      <3>1. y = (c % H) + i - G
        BY DEF y
      <3> QED BY <1>1, <1>7, <1>8, <3>1 DEF Rows
    <2>2. col[k] = Frame1(W, H, c, b, t % W)
      BY <1>6, <2>1
    <2> QED BY <1>8, <1>10, <2>2 DEF Upright, c, q, y, col
  <1> QED BY <1>9, <1>10

\* What t pixels leave in the shift register.
Columns(w, border, t, W, H) ==
  \A i \in Rows, j \in Cols :
    t - FW + j >= G * W => w[i][j] = Upright(border, t - FW + j, i, W, H)
Valids(vld, t, W) ==
  \A i \in Rows, j \in Cols : vld[i][j] <=> i * W <= t - FW + j

\* One more column, for pixel t.
Shifted(w, border, t, W, H) ==
  \A i \in Rows, j \in Cols :
    t + 1 - FW + j >= G * W => w[i][j] = Upright(border, t + 1 - FW + j, i, W, H)

\* The shift register with one more column.
LEMMA ShiftIs ==
  ASSUME NEW t \in Nat, NEW W \in Nat, W >= 2, NEW H \in Nat, NEW border,
         NEW w, NEW col, Columns(w, border, t, W, H),
         t >= G * W => \A i \in Rows : col[i] = Upright(border, t, i, W, H)
  PROVE  Shifted(Shift(w, col), border, t, W, H)
  <1> SUFFICES ASSUME NEW i \in Rows, NEW j \in Cols, t + 1 - FW + j >= G * W
               PROVE  Shift(w, col)[i][j] = Upright(border, t + 1 - FW + j, i, W, H)
    BY DEF Shifted
  <1>1. FW \in Nat /\ j \in 0 .. FW - 1
    BY Halves DEF Cols
  <1>2. Shift(w, col)[i][j] = IF j = FW - 1 THEN col[i] ELSE w[i][j + 1]
    BY DEF Shift
  <1>3. CASE j = FW - 1
    <2>1. t + 1 - FW + j = t
      BY <1>1, <1>3
    <2> QED BY <1>2, <1>3, <2>1
  <1>4. CASE j # FW - 1
    <2>1. j + 1 \in Cols /\ t + 1 - FW + j = t - FW + (j + 1)
      BY <1>1, <1>4 DEF Cols
    <2> QED BY <1>2, <1>4, <2>1 DEF Columns
  <1> QED BY <1>3, <1>4

\* The window is valid once the pixels around its centre have come.
LEMMA ValidsStep ==
  ASSUME NEW t \in Nat, NEW W \in Nat, W >= 2, NEW vld, Valids(vld, t, W),
         NEW lbvld, \A i \in Rows : lbvld[i] <=> i <= t \div W
  PROVE  /\ Valids(Shift(vld, lbvld), t + 1, W)
         /\ Shift(vld, lbvld)[G][E] <=> t >= G * W + E
  <1>1. /\ FW \in Nat /\ FH = 2 * G + 1 /\ G \in Nat /\ FW = 2 * E + 1 /\ E \in Nat /\ E >= 1
        /\ Rows \in SUBSET Nat /\ G \in Rows /\ E \in Cols /\ Cols = 0 .. FW - 1
    BY Halves DEF Rows, Cols
  <1>2. ASSUME NEW i \in Rows PROVE i <= t \div W <=> i * W <= t
    <2> DEFINE q == t \div W
               r == t % W
    <2>1. q \in Int /\ r \in 0 .. W - 1 /\ t = q * W + r /\ i \in Nat
      BY <1>1, DivFacts
    <2> HIDE DEF q, r
    <2>2. ASSUME i <= q PROVE i * W <= t
      <3>1. (q - i) * W \in Nat
        <4>1. q - i \in Nat
          BY <2>1, <2>2
        <4> QED BY <4>1, Products
      <3>2. (q - i) * W = q * W - i * W
        BY <2>1
      <3>3. i * W \in Nat
        BY <2>1, Products
      <3>4. q * W \in Int
        BY <2>1
      <3> QED BY <2>1, <3>1, <3>2, <3>3, <3>4
    <2>3. ASSUME ~(i <= q) PROVE ~(i * W <= t)
      <3>1. (i - q) * W >= W
        <4>1. i - q \in Int /\ i - q >= 1
          BY <2>1, <2>3
        <4> QED BY <4>1, MulBound
      <3>2. (i - q) * W = i * W - q * W
        BY <2>1
      <3>3. i * W \in Int /\ q * W \in Int
        BY <2>1
      <3> QED BY <2>1, <3>1, <3>2, <3>3
    <2> QED BY <2>2, <2>3 DEF q
  <1>3. ASSUME NEW i \in Rows, NEW j \in Cols
        PROVE  Shift(vld, lbvld)[i][j] <=> i * W <= t + 1 - FW + j
    <2>1. Shift(vld, lbvld)[i][j] = IF j = FW - 1 THEN lbvld[i] ELSE vld[i][j + 1]
      BY DEF Shift
    <2>2. CASE j = FW - 1
      <3>1. t + 1 - FW + j = t
        BY <1>1, <2>2
      <3> QED BY <1>2, <2>1, <2>2, <3>1
    <2>3. CASE j # FW - 1
      <3>1. j + 1 \in Cols /\ t + 1 - FW + j = t - FW + (j + 1)
        BY <1>1, <2>3
      <3> QED BY <2>1, <2>3, <3>1 DEF Valids
    <2> QED BY <2>2, <2>3
  <1>4. Shift(vld, lbvld)[G][E] <=> G * W <= t + 1 - FW + E
    BY <1>1, <1>3
  <1>5. G * W <= t + 1 - FW + E <=> t >= G * W + E
    <2>1. G * W \in Nat
      BY <1>1, Products
    <2> QED BY <1>1, <2>1
  <1>6. Valids(Shift(vld, lbvld), t + 1, W)
    <2> SUFFICES ASSUME NEW i \in Rows, NEW j \in Cols
                 PROVE  Shift(vld, lbvld)[i][j] <=> i * W <= (t + 1) - FW + j
      BY DEF Valids
    <2>1. (t + 1) - FW + j = t + 1 - FW + j
      BY <1>1
    <2> QED BY <1>3, <2>1
  <1> QED BY <1>4, <1>5, <1>6

\* The border of a row.
LEMMA RowBorder ==
  ASSUME NEW W \in Nat, W >= 2 * E, NEW p \in 0 .. W - 1, NEW j \in Cols, NEW row,
         NEW x \in Int, x = Centre(p, E, W) + j - E
  PROVE  Filled(row, FW, p, W, j, x)
  <1>1. E \in Nat /\ E >= 1 /\ FW \in Nat /\ FW = 2 * E + 1 /\ j \in 0 .. FW - 1
    BY Halves DEF Cols
  <1> QED BY <1>1, BorderIs

\* The window around pixel n of the stream, borders filled in, is cut out of the picture.
LEMMA WindowIs ==
  ASSUME NEW t \in Nat, NEW W \in Nat, W >= 2 * E, NEW H \in Nat, H >= 2 * G,
         NEW border \in {"001", "101"}, NEW sr0, Shifted(sr0, border, t, W, H),
         NEW n \in Nat, n = t - (G * W + E),
         NEW i \in Rows, NEW j \in Cols
  PROVE  BorderOf(border, sr0[i], FW, t % W, W)[j] = Cut(border, n, W, H)[i][j]
  <1> DEFINE L == n \div W
             cx == n % W
             f == L \div H
             y == (L % H) + i - G
             x == cx + j - E
  <1>1. /\ G \in Nat /\ G >= 1 /\ E \in Nat /\ E >= 1 /\ FW = 2 * E + 1 /\ FH = 2 * G + 1
        /\ i \in 0 .. FH - 1 /\ j \in 0 .. FW - 1 /\ W > 0 /\ H > 0 /\ W >= E
    BY Halves DEF Rows, Cols
  <1>2. G * W \in Nat
    BY <1>1, Products
  <1>3. L \in Nat /\ cx \in 0 .. W - 1 /\ n = L * W + cx
    BY <1>1, DivFacts
  <1>4. f \in Nat /\ L % H \in 0 .. H - 1 /\ L = f * H + (L % H)
    BY <1>1, <1>3, DivFacts
  <1>5. y \in Int /\ x \in Int
    BY <1>1, <1>3, <1>4
  <1>6. Cut(border, n, W, H)[i][j] = Pixel(border, f, y, x, W, H)
    <2>1. /\ n \div (W * H) = f /\ (n % (W * H)) \div W = L % H /\ (n % (W * H)) % W = cx
      BY <1>1, PlaceIs
    <2>2. FH \div 2 = G /\ FW \div 2 = E
      BY DEF G, E
    <2> QED BY <2>1, <2>2 DEF Cut
  <1>7. cx = Centre(t % W, E, W) /\ t % W \in 0 .. W - 1
    <2>1. (t - G * W) % W = t % W
      <3>1. t \in Int /\ G \in Int
        BY <1>1
      <3> QED BY <1>1, <3>1, DivMinus
    <2>2. ((t - G * W) - E) % W = Centre((t - G * W) % W, E, W)
      <3>1. t - G * W \in Int
        BY <1>2
      <3> QED BY <1>1, <3>1, CentreIs
    <2>3. (t - G * W) - E = n
      BY <1>1, <1>2
    <2>4. t % W \in 0 .. W - 1
      BY <1>1, DivFacts
    <2> QED BY <2>1, <2>2, <2>3, <2>4
  <1> HIDE DEF L, cx, f
  <1>8. ASSUME NEW k \in Cols, NEW xx, xx = cx + k - E, xx \in 0 .. W - 1
        PROVE  sr0[i][k] = IF border = "101" THEN Frame1(W, H, L, BORDER_101(y, H), xx)
                           ELSE IF y \in 0 .. H - 1 THEN Frame1(W, H, L, y, xx) ELSE Black
    <2> DEFINE s == t + 1 - FW + k
    <2>1. k \in 0 .. 2 * E
      BY <1>1 DEF Cols
    <2>2. s = G * W + (L * W + xx)
      <3>1. L * W \in Nat
        BY <1>3, Products
      <3> QED BY <1>1, <1>2, <1>3, <1>8, <2>1, <3>1
    <2>3. s = (G + L) * W + xx
      BY <1>1, <1>3, <1>8, <2>2
    <2>4. s \div W = G + L /\ s % W = xx
      <3>1. G + L \in Int
        BY <1>1, <1>3
      <3> QED BY <1>1, <1>8, <2>3, <3>1, DivUnique
    <2>5. s >= G * W
      <3>1. L * W \in Nat
        BY <1>3, Products
      <3> QED BY <1>2, <1>8, <2>2, <3>1
    <2>6. sr0[i][k] = Upright(border, s, i, W, H)
      BY <2>5 DEF Shifted
    <2>7. (s \div W) - G = L
      BY <1>1, <1>3, <2>4
    <2> HIDE DEF s
    <2> QED BY <2>4, <2>6, <2>7 DEF Upright
  <1>9. \A b, d : Frame1(W, H, L, b, d) = f * W * H + b * W + d + 1
    BY DEF Frame1, f
  <1>10. x = Centre(t % W, E, W) + j - E
    BY <1>7
  <1> HIDE DEF y, x
  <1>11. /\ BorderOf("001", sr0[i], FW, t % W, W)[j] = IF x \in 0 .. W - 1 THEN sr0[i][j] ELSE Black
         /\ BorderOf("101", sr0[i], FW, t % W, W)[j] = sr0[i][j + BORDER_101(x, W) - x]
         /\ BORDER_101(x, W) \in 0 .. W - 1 /\ j + BORDER_101(x, W) - x \in 0 .. FW - 1
    <2> DEFINE p == t % W
               row == sr0[i]
    <2>1. p \in 0 .. W - 1 /\ x = Centre(p, E, W) + j - E /\ x \in Int
      BY <1>5, <1>7, <1>10
    <2> HIDE DEF p, row
    <2>2. /\ BorderOf("001", row, FW, p, W)[j] = IF x \in 0 .. W - 1 THEN row[j] ELSE Black
          /\ BorderOf("101", row, FW, p, W)[j] = row[j + BORDER_101(x, W) - x]
          /\ BORDER_101(x, W) \in 0 .. W - 1 /\ j + BORDER_101(x, W) - x \in 0 .. FW - 1
      <3>1. Filled(row, FW, p, W, j, x)
        BY <2>1, RowBorder
      <3> QED BY <3>1 DEF Filled
    <2> QED BY <2>2 DEF p, row
  <1>12. CASE border = "001"
    <2>1. x \in 0 .. W - 1 =>
            sr0[i][j] = IF y \in 0 .. H - 1 THEN Frame1(W, H, L, y, x) ELSE Black
      <3>1. x = cx + j - E
        BY DEF x
      <3> QED BY <1>8, <1>12, <3>1
    <2> QED BY <1>6, <1>9, <1>11, <1>12, <2>1 DEF Pixel
  <1>13. CASE border = "101"
    <2> DEFINE b == BORDER_101(x, W)
               k == j + b - x
    <2>1. k \in Cols /\ b = cx + k - E /\ b \in 0 .. W - 1
      <3>1. x = cx + j - E
        BY DEF x
      <3> QED BY <1>1, <1>3, <1>11, <3>1 DEF Cols
    <2>2. sr0[i][k] = Frame1(W, H, L, BORDER_101(y, H), b)
      BY <1>8, <1>13, <2>1
    <2> QED BY <1>6, <1>9, <1>11, <1>13, <2>2 DEF Pixel
  <1> QED BY <1>12, <1>13

-----------------------------------------------------------------------------
(* The line buffers and the window together, after t pixels.  The interleaved buffer *)
(* keeps its lines whole only when they have an even length.                         *)
EvenLines(kind, W) == kind = "Interleaved" => W % 2 = 0
Counted(l, kind, t, W, H) == Positions(l.lb, kind, t, W, H) /\ Valids(l.srw.vld, t, W)
Kept(l, kind, border, t, W, H) ==
  EvenLines(kind, W) => Memory(l.lb, kind, t, W) /\ Columns(l.srw.w, border, t, W, H)

\* Init puts the positions at the first pixel.
LEMMA InitPositions ==
  ASSUME NEW kind \in Kinds, NEW W \in Nat, W >= 2, NEW H \in Nat, H >= 2
  PROVE  /\ InitLines(kind) \in LbType(kind)
         /\ Positions(InitLines(kind), kind, 0, W, H)
  <1> DEFINE X == FHX(kind)
             b == FH - FHX(kind)
             lb == InitLines(kind)
  <1>1. X \in Nat /\ X >= 2 /\ b \in {0, 1}
    BY FhxFacts
  <1>2. /\ 0 % W = 0 /\ 0 \div W = 0
    <2>1. 0 = 0 * W + 0 /\ 0 \in 0 .. W - 1
      OBVIOUS
    <2>2. (0 * W + 0) \div W = 0 /\ (0 * W + 0) % W = 0
      BY DivUnique
    <2> QED BY <2>1, <2>2
  <1>3. 0 % H = 0 /\ 0 % X = 0
    BY <1>1
  <1>4. lb = [pos_x |-> 0, pos_y |-> 0, lb_pos_y |-> 0,
              lbxbar |-> [i \in 0 .. X - 1 |-> (i + 1 - b) % X],
              lbvld |-> [i \in Rows |-> i = 0],
              lbuf |-> [i \in 0 .. X - 1 |-> [x \in 0 .. MaxWidth - 1 |-> Stale]],
              w_din |-> Black, w_lb_pos |-> 0, w_addr |-> 0]
    BY DEF InitLines
  <1>5. \A i \in 0 .. X - 1 : (i + 1 - b) % X \in Int /\ (i + 1 - b + 0) % X = (i + 1 - b) % X
    BY <1>1
  <1>6. Rows \subseteq Nat
    BY FhxFacts DEF Rows
  <1> HIDE DEF X, b, lb
  <1>7. lb \in LbType(kind)
    <2>1. [i \in 0 .. X - 1 |-> (i + 1 - b) % X] \in [0 .. X - 1 -> Int]
      BY <1>5
    <2>2. [i \in 0 .. X - 1 |-> [x \in 0 .. MaxWidth - 1 |-> Stale]] \in Mem(X)
      BY DEF Mem, Stale
    <2>3. [i \in Rows |-> i = 0] \in [Rows -> BOOLEAN]
      OBVIOUS
    <2>4. 0 \in Int /\ Black \in Int
      BY DEF Black
    <2> QED BY <1>4, <2>1, <2>2, <2>3, <2>4 DEF LbType, X
  <1>8. Positions(lb, kind, 0, W, H)
    <2>1. lb.pos_x = 0 % W /\ lb.pos_y = (0 \div W) % H /\ lb.lb_pos_y = (0 \div W) % X
      BY <1>2, <1>3, <1>4
    <2>2. ASSUME NEW i \in 0 .. X - 1
          PROVE  lb.lbxbar[i] = (i + 1 - b + (0 \div W)) % X
      BY <1>2, <1>4, <1>5
    <2>3. ASSUME NEW i \in Rows PROVE lb.lbvld[i] <=> i <= 0 \div W
      <3>1. lb.lbvld[i] <=> i = 0
        BY <1>4
      <3>2. i = 0 <=> i <= 0
        BY <1>6
      <3> QED BY <1>2, <3>1, <3>2
    <2> QED BY <2>1, <2>2, <2>3 DEF Positions, X, b
  <1> QED BY <1>7, <1>8 DEF lb

\* Init is in step with no pixel at all.
LEMMA InitLbwIs ==
  ASSUME NEW kind \in Kinds, NEW W \in Nat, W >= 2, NEW H \in Nat, H >= 2, NEW border
  PROVE  /\ InitLbw(kind).lb \in LbType(kind)
         /\ Counted(InitLbw(kind), kind, 0, W, H)
         /\ Kept(InitLbw(kind), kind, border, 0, W, H)
  <1> DEFINE l == InitLbw(kind)
  <1>1. l.lb = InitLines(kind) /\ l.srw.w = InitWindow.w /\ l.srw.vld = InitWindow.vld
    BY DEF InitLbw
  <1> HIDE DEF l
  <1>2. l.lb \in LbType(kind) /\ Positions(l.lb, kind, 0, W, H)
    BY <1>1, InitPositions
  <1>3. ASSUME NEW j \in Cols PROVE 0 - FW + j \in Int /\ 0 - FW + j < 0
    BY Halves DEF Cols
  <1>4. Valids(l.srw.vld, 0, W)
    <2> SUFFICES ASSUME NEW i \in Rows, NEW j \in Cols
                 PROVE  l.srw.vld[i][j] <=> i * W <= 0 - FW + j
      BY DEF Valids
    <2>1. l.srw.vld[i][j] = FALSE
      BY <1>1 DEF InitWindow
    <2>2. i \in Nat
      BY Halves DEF Rows
    <2>3. i * W \in Nat
      BY <2>2, Products
    <2>4. ~(i * W <= 0 - FW + j)
      BY <1>3, <2>3
    <2> QED BY <2>1, <2>4
  <1>5. Columns(l.srw.w, border, 0, W, H)
    <2>1. G * W \in Nat
      BY Halves, Products
    <2>2. \A j \in Cols : ~(0 - FW + j >= G * W)
      BY <1>3, <2>1
    <2> QED BY <2>2 DEF Columns
  <1>6. Memory(l.lb, kind, 0, W)
    BY DEF Memory, Stored
  <1> QED BY <1>2, <1>4, <1>5, <1>6 DEF Counted, Kept, l

\* Whatever the sizes, the line buffers stay line buffers.
LEMMA UpdateTypes ==
  ASSUME NEW kind \in Kinds, NEW l, l.lb \in LbType(kind), NEW W \in Nat, NEW H \in Nat,
         NEW border, NEW din \in Int, NEW n, n = Update(l, kind, border, din, W, H)
  PROVE  /\ n.lb \in LbType(kind)
         /\ \E m \in LbType(kind) : /\ m = Written(l.lb, kind, din) /\ SamePlace(l.lb, m)
                                    /\ n.lb = NextPos(m, kind, W, H) /\ Moves(m, n.lb, kind, W, H)
  <1> DEFINE m == Written(l.lb, kind, din)
             nx == NextPos(m, kind, W, H)
  <1>1. n.lb = nx
    BY DEF Update
  <1>2. m \in LbType(kind) /\ SamePlace(l.lb, m)
    BY WrittenIs
  <1>3. nx \in LbType(kind) /\ Moves(m, nx, kind, W, H)
    <2> HIDE DEF m
    <2> QED BY <1>2, NextPosIs
  <1> QED BY <1>1, <1>2, <1>3

\* One pixel more.
LEMMA CountedStep ==
  ASSUME NEW kind \in Kinds, NEW l, l.lb \in LbType(kind), NEW t \in Nat,
         NEW W \in Nat, W >= 2, NEW H \in Nat, H >= 2, Counted(l, kind, t, W, H),
         NEW border, NEW din \in Int, NEW n, n = Update(l, kind, border, din, W, H)
  PROVE  /\ Counted(n, kind, t + 1, W, H)
         /\ Valid(l) <=> t >= Latency(W)
  <1>1. PICK m \in LbType(kind) : /\ m = Written(l.lb, kind, din) /\ SamePlace(l.lb, m)
                                  /\ n.lb = NextPos(m, kind, W, H) /\ Moves(m, n.lb, kind, W, H)
    BY UpdateTypes
  <1>2. Positions(l.lb, kind, t, W, H) /\ Valids(l.srw.vld, t, W)
    BY DEF Counted
  <1>3. Positions(m, kind, t, W, H)
    BY <1>1, <1>2 DEF Positions, SamePlace
  <1>4. Positions(n.lb, kind, t + 1, W, H)
    BY <1>1, <1>3, PositionsStep
  <1>5. n.srw.vld = Shift(l.srw.vld, l.lb.lbvld)
    BY DEF Update
  <1>6. \A i \in Rows : l.lb.lbvld[i] <=> i <= t \div W
    BY <1>2 DEF Positions
  <1>7. /\ Valids(Shift(l.srw.vld, l.lb.lbvld), t + 1, W)
        /\ Shift(l.srw.vld, l.lb.lbvld)[G][E] <=> t >= G * W + E
    BY <1>2, <1>6, ValidsStep
  <1>8. Valid(l) <=> t >= Latency(W)
    BY <1>7 DEF Valid, Latency, G, E
  <1> QED BY <1>4, <1>5, <1>7, <1>8 DEF Counted

\* One pixel more is kept, and the window is the one cut out of the picture.
LEMMA KeptStep ==
  ASSUME NEW kind \in Kinds, NEW l, l.lb \in LbType(kind), NEW t \in Nat,
         NEW W \in Nat, W >= 2 * E, W <= MaxWidth, NEW H \in Nat, H >= 2 * G,
         Counted(l, kind, t, W, H), NEW border \in {"001", "101"},
         EvenLines(kind, W), Kept(l, kind, border, t, W, H),
         NEW n, n = Update(l, kind, border, t + 1, W, H)
  PROVE  /\ Kept(n, kind, border, t + 1, W, H)
         /\ t >= Latency(W) =>
              Window(l, kind, border, t + 1, W, H) = Cut(border, t - Latency(W), W, H)
  <1> DEFINE col == BorderOf(border, Column(l.lb, kind, t + 1), FH, l.lb.pos_y, H)
             sr0 == Shift(l.srw.w, col)
  <1>1. PICK m \in LbType(kind) : /\ m = Written(l.lb, kind, t + 1) /\ SamePlace(l.lb, m)
                                  /\ n.lb = NextPos(m, kind, W, H) /\ Moves(m, n.lb, kind, W, H)
    BY UpdateTypes
  <1>2. Positions(l.lb, kind, t, W, H) /\ Memory(l.lb, kind, t, W) /\ Columns(l.srw.w, border, t, W, H)
    BY DEF Counted, Kept
  <1>3. W >= 2 /\ H >= 2 /\ G \in Nat /\ E \in Nat
    BY Halves
  <1>4. Memory(m, kind, t + 1, W)
    BY <1>1, <1>2, <1>3, MemoryStep DEF EvenLines
  <1>5. Memory(n.lb, kind, t + 1, W)
    BY <1>1, <1>4 DEF Memory, Moves
  <1>6. t >= G * W => t \div W >= G
    <2>1. SUFFICES ASSUME t >= G * W PROVE t \div W >= G
      OBVIOUS
    <2>2. (t - G * W) \div W = (t \div W) - G
      BY <1>3, DivMinus
    <2>3. t - G * W \in Int /\ t - G * W >= 0 /\ W > 0
      <3>1. G * W \in Nat
        BY <1>3, Products
      <3> QED BY <1>3, <2>1, <3>1
    <2>4. (t - G * W) \div W >= 0 /\ t \div W \in Int
      BY <2>3, DivFacts
    <2> QED BY <1>3, <2>2, <2>4
  <1>7. t >= G * W => \A i \in Rows : col[i] = Upright(border, t, i, W, H)
    BY <1>2, <1>3, <1>6, UprightIs
  <1>8. Shifted(sr0, border, t, W, H)
    <2> HIDE DEF col
    <2> QED BY <1>2, <1>3, <1>7, ShiftIs
  <1>9. Columns(n.srw.w, border, t + 1, W, H)
    <2>1. n.srw.w = sr0
      BY DEF Update
    <2>2. ASSUME NEW j \in Cols PROVE (t + 1) - FW + j = t + 1 - FW + j
      BY <1>3, Halves DEF Cols
    <2> HIDE DEF sr0
    <2> SUFFICES ASSUME NEW i \in Rows, NEW j \in Cols, (t + 1) - FW + j >= G * W
                 PROVE  n.srw.w[i][j] = Upright(border, (t + 1) - FW + j, i, W, H)
      BY DEF Columns
    <2> QED BY <1>8, <2>1, <2>2 DEF Shifted
  <1>10. ASSUME t >= Latency(W)
         PROVE  Window(l, kind, border, t + 1, W, H) = Cut(border, t - Latency(W), W, H)
    <2> DEFINE k == t - (G * W + E)
               wd == Window(l, kind, border, t + 1, W, H)
               ct == Cut(border, k, W, H)
    <2>1. Latency(W) = G * W + E
      BY DEF Latency, G, E
    <2>2. k \in Nat
      <3>1. G * W \in Nat
        BY <1>3, Products
      <3> QED BY <1>3, <1>10, <2>1, <3>1
    <2>3. l.lb.pos_x = t % W
      BY <1>2 DEF Positions
    <2>4. wd = [i \in Rows |-> BorderOf(border, sr0[i], FW, t % W, W)]
      BY <2>3 DEF Window
    <2> HIDE DEF sr0, k
    <2>5. ASSUME NEW i \in Rows, NEW j \in Cols
          PROVE  BorderOf(border, sr0[i], FW, t % W, W)[j] = ct[i][j]
      BY <1>8, <2>2, WindowIs DEF k
    <2>6. ASSUME NEW i \in Rows
          PROVE  BorderOf(border, sr0[i], FW, t % W, W) = ct[i]
      <3> DEFINE r == BorderOf(border, sr0[i], FW, t % W, W)
      <3>1. r = [j \in Cols |-> r[j]]
        <4> DEFINE row == sr0[i]
                   p == t % W
        <4> HIDE DEF row, p
        <4>1. \A f : f = border001(row, FW, p, W) => f = [j \in Cols |-> f[j]]
          BY DEF border001, Cols
        <4>2. \A f : f = border101(row, FW, p, W) => f = [j \in Cols |-> f[j]]
          BY DEF border101, Cols
        <4> QED BY <4>1, <4>2 DEF BorderOf, row, p
      <3>2. ct[i] = [j \in Cols |-> ct[i][j]]
        BY DEF Cut
      <3>3. \A j \in Cols : r[j] = ct[i][j]
        BY <2>5
      <3> HIDE DEF r, ct
      <3>4. [j \in Cols |-> r[j]] = [j \in Cols |-> ct[i][j]]
        BY <3>3, Zenon
      <3>5. r = ct[i]
        BY <3>1, <3>2, <3>4, Zenon
      <3> QED BY <3>5 DEF r
    <2>7. ct = [i \in Rows |-> ct[i]]
      BY DEF Cut
    <2> HIDE DEF wd, ct
    <2>8. wd = ct
      BY <2>4, <2>6, <2>7
    <2> QED BY <2>1, <2>8 DEF wd, ct, k
  <1> QED BY <1>5, <1>9, <1>10 DEF Kept

-----------------------------------------------------------------------------
(* The stream.  outFifo holds the windows from number `given' on. *)

CutsFrom(q, g, border, W, H) == \A i \in 1 .. Len(q) : q[i] = Cut(border, g + i - 1, W, H)
LastIs(l, g, border, W, H) == g > 0 => l = Cut(border, g - 1, W, H)
Brings(ws, n, border, W, H) == Len(ws) = 1 => ws[1] = Cut(border, n, W, H)

\* A queue that gives its first, or not, and takes ws.
LEMMA QueueMoves ==
  ASSUME NEW S, NEW q \in Seq(S), NEW ws \in Seq(S), NEW pop \in BOOLEAN, pop => q # <<>>,
         NEW r, r = (IF pop THEN Tail(q) ELSE q) \o ws
  PROVE  /\ r \in Seq(S)
         /\ Len(r) = (IF pop THEN Len(q) - 1 ELSE Len(q)) + Len(ws)
         /\ \A i \in 1 .. Len(r) :
              r[i] = IF pop THEN IF i < Len(q) THEN q[i + 1] ELSE ws[i - (Len(q) - 1)]
                     ELSE IF i <= Len(q) THEN q[i] ELSE ws[i - Len(q)]
  <1>1. CASE pop
    <2> DEFINE k == Tail(q)
    <2>1. k \in Seq(S) /\ Len(k) = Len(q) - 1 /\ Len(q) \in Nat /\ Len(q) >= 1
      BY <1>1
    <2>2. \A i \in 1 .. Len(k) : k[i] = q[i + 1]
      BY <1>1
    <2>3. r = k \o ws
      BY <1>1
    <2> HIDE DEF k
    <2>4. r \in Seq(S) /\ Len(r) = Len(k) + Len(ws) /\ Len(ws) \in Nat
      BY <2>1, <2>3
    <2>5. \A i \in 1 .. Len(r) : r[i] = IF i <= Len(k) THEN k[i] ELSE ws[i - Len(k)]
      BY <2>1, <2>3, <2>4
    <2>6. ASSUME NEW i \in 1 .. Len(r)
          PROVE  r[i] = IF i < Len(q) THEN q[i + 1] ELSE ws[i - (Len(q) - 1)]
      <3>1. CASE i < Len(q)
        <4>1. i \in 1 .. Len(k)
          BY <2>1, <3>1
        <4> QED BY <2>2, <2>5, <3>1, <4>1
      <3>2. CASE ~(i < Len(q))
        <4>1. ~(i <= Len(k))
          BY <2>1, <3>2
        <4> QED BY <2>1, <2>5, <3>2, <4>1
      <3> QED BY <3>1, <3>2
    <2> QED BY <1>1, <2>1, <2>4, <2>6
  <1>2. CASE ~pop
    <2>1. r = q \o ws
      BY <1>2
    <2> QED BY <1>2, <2>1
  <1> QED BY <1>1, <1>2

\* What the queue holds and has given stays a run of windows.
LEMMA Filters ==
  ASSUME NEW S, NEW q \in Seq(S), NEW ws \in Seq(S), NEW pop \in BOOLEAN, pop => Len(q) > 0,
         NEW r, r = (IF pop THEN Tail(q) ELSE q) \o ws,
         NEW g \in Nat, NEW h, h = IF pop THEN g + 1 ELSE g,
         NEW l, NEW m, m = IF pop THEN q[1] ELSE l,
         NEW border, NEW W, NEW H,
         Len(ws) <= 1, CutsFrom(q, g, border, W, H), LastIs(l, g, border, W, H)
  PROVE  /\ LastIs(m, h, border, W, H)
         /\ Brings(ws, g + Len(q), border, W, H) => CutsFrom(r, h, border, W, H)
  <1>1. /\ r \in Seq(S)
        /\ Len(r) = (IF pop THEN Len(q) - 1 ELSE Len(q)) + Len(ws)
        /\ \A i \in 1 .. Len(r) :
             r[i] = IF pop THEN IF i < Len(q) THEN q[i + 1] ELSE ws[i - (Len(q) - 1)]
                    ELSE IF i <= Len(q) THEN q[i] ELSE ws[i - Len(q)]
    <2>1. pop => q # <<>>
      OBVIOUS
    <2> QED BY <2>1, QueueMoves
  <1>2. Len(q) \in Nat /\ Len(ws) \in Nat /\ h \in Nat
    OBVIOUS
  <1>3. LastIs(m, h, border, W, H)
    <2>1. CASE pop
      <3>1. 1 \in 1 .. Len(q)
        BY <2>1
      <3>2. q[1] = Cut(border, g + 1 - 1, W, H)
        BY <3>1 DEF CutsFrom
      <3>3. g + 1 - 1 = g /\ h - 1 = g
        BY <2>1
      <3> QED BY <2>1, <3>2, <3>3 DEF LastIs
    <2>2. CASE ~pop
      BY <2>2
    <2> QED BY <2>1, <2>2
  <1>4. ASSUME Brings(ws, g + Len(q), border, W, H) PROVE CutsFrom(r, h, border, W, H)
    <2> SUFFICES ASSUME NEW i \in 1 .. Len(r) PROVE r[i] = Cut(border, h + i - 1, W, H)
      BY DEF CutsFrom
    <2>1. i \in Nat /\ i >= 1 /\ i <= (IF pop THEN Len(q) - 1 ELSE Len(q)) + Len(ws)
      BY <1>1
    <2>2. CASE pop /\ i < Len(q)
      <3>1. i + 1 \in 1 .. Len(q) /\ g + (i + 1) - 1 = h + i - 1
        BY <1>2, <2>1, <2>2
      <3>2. q[i + 1] = Cut(border, g + (i + 1) - 1, W, H)
        BY <3>1 DEF CutsFrom
      <3> QED BY <1>1, <2>2, <3>1, <3>2
    <2>3. CASE pop /\ ~(i < Len(q))
      <3>2. i <= Len(q) - 1 + Len(ws) /\ i >= Len(q) /\ h = g + 1 /\ Len(ws) <= 1
        BY <1>2, <2>1, <2>3
      <3> DEFINE a == Len(q)
                 c == Len(ws)
      <3>3. i <= a - 1 + c /\ i >= a /\ h = g + 1 /\ c <= 1 /\ a \in Nat /\ c \in Nat /\ i \in Nat
        BY <1>2, <2>1, <3>2
      <3> HIDE DEF a, c
      <3>4. i - (a - 1) = 1 /\ c = 1 /\ h + i - 1 = g + a
        BY <3>3
      <3>1. i - (Len(q) - 1) = 1 /\ Len(ws) = 1 /\ h + i - 1 = g + Len(q)
        BY <3>4 DEF a, c
      <3> QED BY <1>1, <1>4, <2>3, <3>1 DEF Brings
    <2>4. CASE ~pop /\ i <= Len(q)
      <3>1. i \in 1 .. Len(q) /\ h = g
        BY <1>2, <2>1, <2>4
      <3> QED BY <1>1, <2>4, <3>1 DEF CutsFrom
    <2>5. CASE ~pop /\ ~(i <= Len(q))
      <3>2. i <= Len(q) + Len(ws) /\ i > Len(q) /\ h = g /\ Len(ws) <= 1
        BY <1>2, <2>1, <2>5
      <3> DEFINE a == Len(q)
                 c == Len(ws)
      <3>3. i <= a + c /\ i > a /\ h = g /\ c <= 1 /\ a \in Nat /\ c \in Nat /\ i \in Nat
        BY <1>2, <2>1, <3>2
      <3> HIDE DEF a, c
      <3>4. i - a = 1 /\ c = 1 /\ h + i - 1 = g + a
        BY <3>3
      <3>1. i - Len(q) = 1 /\ Len(ws) = 1 /\ h + i - 1 = g + Len(q)
        BY <3>4 DEF a, c
      <3> QED BY <1>1, <1>4, <2>5, <3>1 DEF Brings
    <2> QED BY <2>2, <2>3, <2>4, <2>5
  <1> QED BY <1>3, <1>4

AtMostOne(ws) == ws = <<>> \/ (\E w : ws = <<w>>)
IsQueue(q) == \E S : q \in Seq(S)

\* There is always room: what comes after the input has stopped finds its place.
Room ==
  /\ Len(outFifo) <= 3
  /\ Len(outFifo) = 3 => out_pending /\ outPending
  /\ Len(outFifo) = 2 => out_pending \/ outPending

\* AXI_ST_FIFO::Update drops nothing and keeps the order, and leaves room.
LEMMA FifoStep ==
  ASSUME IsQueue(outFifo), Room, out_pending \in BOOLEAN, outPending \in BOOLEAN, given \in Nat,
         NEW ready \in BOOLEAN, NEW ws, AtMostOne(ws), ws # <<>> => ~outPending,
         FifoUpdate(ws, ready), outPending' = out_pending
  PROVE  /\ IsQueue(outFifo') /\ Room' /\ out_pending' \in BOOLEAN /\ given' \in Nat
         /\ Len(outFifo) \in Nat /\ Len(outFifo') \in Nat /\ Len(ws) \in {0, 1}
         /\ given' + Len(outFifo') = given + Len(outFifo) + Len(ws)
         /\ \A border, W, H :
              CutsFrom(outFifo, given, border, W, H) /\ LastIs(last, given, border, W, H)
              => /\ LastIs(last', given', border, W, H)
                 /\ Brings(ws, given + Len(outFifo), border, W, H)
                      => CutsFrom(outFifo', given', border, W, H)
  <1> DEFINE pop == ready /\ outFifo # <<>>
  <1>1. PICK S : outFifo \in Seq(S) /\ ws \in Seq(S)
    <2>1. PICK T : outFifo \in Seq(T)
      BY DEF IsQueue
    <2>2. CASE ws = <<>>
      BY <2>1, <2>2
    <2>3. CASE \E w : ws = <<w>>
      <3>1. PICK w : ws = <<w>>
        BY <2>3
      <3>2. outFifo \in Seq(T \cup {w}) /\ <<w>> \in Seq(T \cup {w})
        BY <2>1
      <3> QED BY <3>1, <3>2
    <2> QED BY <2>2, <2>3 DEF AtMostOne
  <1>2. Len(ws) \in {0, 1} /\ (Len(ws) = 1 => ~outPending)
    BY DEF AtMostOne
  <1>3. Len(outFifo) \in Nat
    BY <1>1
  <1>4. outFifo' = (IF pop THEN Tail(outFifo) ELSE outFifo) \o ws
    <2>1. CASE Len(outFifo) = DEPTH
      <3>1. Len(outFifo) = 3 /\ PIPE_COUNT \in Nat
        BY <1>3, <2>1, BoundsAssumption DEF DEPTH, Room
      <3>2. ws = <<>>
        BY <3>1 DEF Room
      <3>3. outFifo' = (IF pop THEN Tail(outFifo) ELSE outFifo)
        BY <2>1 DEF FifoUpdate
      <3>4. (IF pop THEN Tail(outFifo) ELSE outFifo) \in Seq(S)
        BY <1>1
      <3> QED BY <3>2, <3>3, <3>4
    <2>2. CASE Len(outFifo) # DEPTH
      BY <2>2 DEF FifoUpdate
    <2> QED BY <2>1, <2>2
  <1>5. /\ given' = IF pop THEN given + 1 ELSE given
        /\ last' = IF pop THEN outFifo[1] ELSE last
    BY <1>1 DEF FifoUpdate
  <1>6. out_pending' = (outFifo # <<>> /\ ~ready)
    BY DEF FifoUpdate
  <1>7. pop \in BOOLEAN /\ (pop => outFifo # <<>>)
    OBVIOUS
  <1>15. pop => Len(outFifo) > 0
    BY <1>1
  <1>8. outFifo # <<>> <=> Len(outFifo) > 0
    BY <1>1
  <1>9. /\ outFifo' \in Seq(S)
        /\ Len(outFifo') = (IF pop THEN Len(outFifo) - 1 ELSE Len(outFifo)) + Len(ws)
    <2> HIDE DEF pop
    <2> QED BY <1>1, <1>4, <1>7, QueueMoves
  <1>10. Room'
    <2> DEFINE a == Len(outFifo)
               b == Len(outFifo')
               c == Len(ws)
    <2>1. /\ a <= 3 /\ (a = 3 => out_pending /\ outPending) /\ (a = 2 => out_pending \/ outPending)
          /\ c \in {0, 1} /\ (c = 1 => ~outPending)
          /\ b = (IF pop THEN a - 1 ELSE a) + c
          /\ (pop <=> ready /\ a > 0) /\ (out_pending' <=> a > 0 /\ ~ready) /\ a \in Nat
      BY <1>2, <1>3, <1>6, <1>8, <1>9 DEF Room
    <2> HIDE DEF a, b, c, pop
    <2>2. b <= 3
      BY <2>1
    <2>3. b = 3 => (a = 2 /\ c = 1 /\ ~ready) \/ (a = 3 /\ c = 0 /\ ~ready)
      BY <2>1
    <2>4. b = 3 => out_pending' /\ outPending'
      BY <2>1, <2>3
    <2>5. b = 2 => a >= 1 /\ ((a = 1 /\ ~ready) \/ (a = 2 /\ ~ready) \/ (a = 2 /\ c = 1) \/ a = 3)
      BY <2>1
    <2>6. b = 2 => out_pending' \/ outPending'
      BY <2>1, <2>5
    <2> QED BY <2>2, <2>4, <2>6 DEF Room, b
  <1>11. given' + Len(outFifo') = given + Len(outFifo) + Len(ws)
    BY <1>2, <1>3, <1>5, <1>9
  <1>12. ASSUME NEW border, NEW W, NEW H,
                CutsFrom(outFifo, given, border, W, H), LastIs(last, given, border, W, H)
         PROVE  /\ LastIs(last', given', border, W, H)
                /\ Brings(ws, given + Len(outFifo), border, W, H)
                     => CutsFrom(outFifo', given', border, W, H)
    <2> DEFINE c == Len(ws)
    <2>2. c \in {0, 1}
      BY <1>2
    <2> HIDE DEF c
    <2>3. c <= 1
      BY <2>2
    <2>1. Len(ws) <= 1
      BY <2>3, Zenon DEF c
    <2> HIDE DEF pop
    <2> QED BY <1>1, <1>4, <1>5, <1>7, <1>12, <1>15, <2>1, Filters, ZenonT(60)
  <1>13. IsQueue(outFifo') /\ Len(outFifo') \in Nat
    BY <1>9 DEF IsQueue
  <1>14. out_pending' \in BOOLEAN /\ given' \in Nat
    BY <1>5, <1>6
  <1> QED BY <1>2, <1>3, <1>10, <1>11, <1>12, <1>13, <1>14

-----------------------------------------------------------------------------
(* The filter's invariant.  Between a write that changes a size and the start that     *)
(* follows at once, lines and window are of no size at all.                            *)

FltTypes ==
  /\ build \in Builds /\ initialized \in BOOLEAN
  /\ out_pending \in BOOLEAN /\ outPending \in BOOLEAN
  /\ size[1] \in FW - 1 .. MaxWidth /\ size[2] \in FH - 1 .. MaxIn
  /\ taken \in 0 .. MaxIn /\ given \in Nat /\ IsQueue(outFifo)
  /\ lbw.lb \in LbType(build.kind)
SameSizes == size[1] = reg.width /\ size[2] = reg.height
Stopped == init /\ ~SameSizes
InStep ==
  /\ Counted(lbw, build.kind, taken, size[1], size[2])
  /\ given + Len(outFifo) = Complete
OutOfStep ==
  /\ lbw.lb.pos_x \in 0 .. MaxWidth /\ lbw.lb.lb_pos_y \in 0 .. FHX(build.kind) - 1
  /\ given <= taken
Even == EvenLines(build.kind, size[1])
GivenIsCut == LastIs(last, given, build.border, size[1], size[2])
HeldIsCut ==
  /\ Kept(lbw, build.kind, build.border, taken, size[1], size[2])
  /\ CutsFrom(outFifo, given, build.border, size[1], size[2])
FltInv ==
  /\ FltTypes /\ Room
  /\ initialized => reg.reset = 1 /\ SameSizes
  /\ ~Stopped => InStep
  /\ Stopped => OutOfStep
  /\ Even => GivenIsCut
  /\ Even /\ ~Stopped => HeldIsCut

\* What the constants say of a filter.
LEMMA SizeBounds ==
  ASSUME NEW W \in FW - 1 .. MaxWidth, NEW H \in FH - 1 .. MaxIn
  PROVE  /\ W \in Nat /\ W >= 2 * E /\ W >= 2 /\ W <= MaxWidth
         /\ H \in Nat /\ H >= 2 * G /\ H >= 2
         /\ Latency(W) \in Nat
  <1>1. /\ G \in Nat /\ G >= 1 /\ FH = 2 * G + 1 /\ E \in Nat /\ E >= 1 /\ FW = 2 * E + 1
    BY Halves
  <1>2. MaxWidth \in Nat /\ MaxIn \in Nat
    BY BoundsAssumption
  <1>3. FW - 1 = 2 * E /\ FH - 1 = 2 * G
    BY <1>1
  <1>4. W \in 2 * E .. MaxWidth /\ H \in 2 * G .. MaxIn
    BY <1>3
  <1>5. W \in Nat /\ W >= 2 * E /\ W >= 2 /\ W <= MaxWidth /\ H \in Nat /\ H >= 2 * G /\ H >= 2
    BY <1>1, <1>2, <1>4
  <1>6. Latency(W) = G * W + E /\ G * W \in Nat
    BY <1>1, <1>5, Products DEF Latency, G, E
  <1> QED BY <1>1, <1>5, <1>6

LEMMA SizeFacts ==
  ASSUME FltTypes
  PROVE  /\ size[1] \in Nat /\ size[1] >= 2 * E /\ size[1] >= 2 /\ size[1] <= MaxWidth
         /\ size[2] \in Nat /\ size[2] >= 2 * G /\ size[2] >= 2
         /\ build.kind \in Kinds /\ build.border \in {"001", "101"}
         /\ G \in Nat /\ E \in Nat /\ MaxWidth \in Nat /\ MaxIn \in Nat
         /\ Latency(size[1]) \in Nat
  <1>1. G \in Nat /\ E \in Nat /\ MaxWidth \in Nat /\ MaxIn \in Nat
    BY Halves, BoundsAssumption
  <1>2. build.kind \in Kinds /\ build.border \in {"001", "101"}
    BY BuildsAssumption DEF FltTypes, Kinds
  <1>3. size[1] \in FW - 1 .. MaxWidth /\ size[2] \in FH - 1 .. MaxIn
    BY DEF FltTypes
  <1> QED BY <1>1, <1>2, <1>3, SizeBounds

\* Nothing that a filter in step holds is out of range.
LEMMA InStepRanges ==
  ASSUME FltTypes, InStep
  PROVE  /\ OutOfStep
         /\ lbw.lb.pos_x \in 0 .. size[1] - 1 /\ lbw.lb.pos_y \in 0 .. size[2] - 1
         /\ Complete \in Nat /\ Complete <= taken
  <1> DEFINE W == size[1]
             H == size[2]
             X == FHX(build.kind)
             p == taken \div W
  <1>1. W \in Nat /\ W > 0 /\ W <= MaxWidth /\ H \in Nat /\ H > 0 /\ MaxWidth \in Nat /\ MaxIn \in Nat
    BY SizeFacts
  <1>2. X \in Nat /\ X > 0
    BY SizeFacts, FhxFacts
  <1>3. taken \in Nat
    BY <1>1 DEF FltTypes
  <1>4. /\ lbw.lb.pos_x = taken % W /\ lbw.lb.pos_y = p % H /\ lbw.lb.lb_pos_y = p % X
    BY DEF InStep, Counted, Positions
  <1>5. taken % W \in 0 .. W - 1 /\ p \in Int
    BY <1>1, <1>3, DivFacts
  <1> HIDE DEF p, W, H, X
  <1>6. p % H \in 0 .. H - 1 /\ p % X \in 0 .. X - 1
    BY <1>1, <1>2, <1>5, DivFacts
  <1>9. Complete \in Nat /\ Complete <= taken
    <2>1. Latency(size[1]) \in Nat
      BY SizeFacts
    <2> QED BY <1>3, <2>1 DEF Complete
  <1>7. given <= taken
    <2>2. given \in Nat /\ Len(outFifo) \in Nat
      BY DEF FltTypes, IsQueue
    <2>3. given + Len(outFifo) = Complete
      BY DEF InStep
    <2> QED BY <1>3, <1>9, <2>2, <2>3
  <1>8. lbw.lb.pos_x \in 0 .. MaxWidth
    BY <1>1, <1>4, <1>5
  <1> QED BY <1>4, <1>5, <1>6, <1>7, <1>8, <1>9 DEF OutOfStep, W, H, X

\* Only the register that is written changes.
LEMMA OneRegister ==
  ASSUME BusInv, RegTypes, turn = 0, UpdateRegIF
  PROVE  /\ (reg'.width # reg.width \/ reg'.height # reg.height) => reg'.reset = reg.reset
         /\ (reg'.width = reg.width /\ reg'.height = reg.height) \/ writeFlag
         /\ init' <=> reg'.reset = 1 /\ ~initialized'
  <1>1. reg' = RegWritten
    BY DEF UpdateRegIF
  <1>2. init' <=> reg'.reset = 1 /\ ~initialized'
    BY DEF init
  <1>3. CASE ~(devWriteFlag /\ waddr \in Registers)
    BY <1>1, <1>2, <1>3 DEF RegWritten
  <1>4. CASE devWriteFlag /\ waddr \in Registers
    <2>1. reg' = [reg EXCEPT ![waddr] = dout[wconn]]
      BY <1>1, <1>4 DEF RegWritten
    <2>2. \A a \in Registers : reg'[a] = IF a = waddr THEN dout[wconn] ELSE reg[a]
      BY <2>1 DEF RegTypes
    <2>3. /\ reg'["reset"] = IF waddr = "reset" THEN dout[wconn] ELSE reg["reset"]
          /\ reg'["width"] = IF waddr = "width" THEN dout[wconn] ELSE reg["width"]
          /\ reg'["height"] = IF waddr = "height" THEN dout[wconn] ELSE reg["height"]
      BY <2>2 DEF Registers
    <2>4. /\ reg'.reset = reg'["reset"] /\ reg'.width = reg'["width"] /\ reg'.height = reg'["height"]
          /\ reg.reset = reg["reset"] /\ reg.width = reg["width"] /\ reg.height = reg["height"]
      OBVIOUS
    <2>5. writeFlag
      BY <1>4 DEF writeFlag
    <2>6. "width" # "reset" /\ "height" # "reset"
      OBVIOUS
    <2> QED BY <1>2, <2>3, <2>4, <2>5, <2>6
  <1> QED BY <1>3, <1>4

-----------------------------------------------------------------------------
(* The steps of the filter. *)

\* A clock without a start: a filter whose sizes are written stops at once.
LEMMA Synced ==
  ASSUME FltInv, BusInv, RegTypes, turn = 0, UpdateRegIF, ~init, size' = size
  PROVE  /\ ~Stopped /\ initialized' \in BOOLEAN
         /\ initialized' => reg'.reset = 1 /\ SameSizes'
         /\ initialized /\ ~SameSizes' => Stopped'
  <1>1. /\ ~writeFlag => reg' = reg
        /\ initialized' = (reg.reset = 1 /\ ~writeFlag)
    BY RegStep
  <1>2. /\ (reg'.width # reg.width \/ reg'.height # reg.height) => reg'.reset = reg.reset
        /\ (reg'.width = reg.width /\ reg'.height = reg.height) \/ writeFlag
        /\ init' <=> reg'.reset = 1 /\ ~initialized'
    BY OneRegister
  <1>3. initialized => reg.reset = 1 /\ SameSizes
    BY DEF FltInv
  <1>4. reg.reset = 1 => initialized
    BY DEF init
  <1>5. ~Stopped
    BY DEF Stopped
  <1>6. SameSizes' <=> size[1] = reg'.width /\ size[2] = reg'.height
    BY DEF SameSizes
  <1>7. initialized' => reg'.reset = 1 /\ SameSizes'
    BY <1>1, <1>3, <1>4, <1>6 DEF SameSizes
  <1>8. ASSUME initialized, ~SameSizes' PROVE Stopped'
    <2>1. reg'.width # reg.width \/ reg'.height # reg.height
      BY <1>3, <1>6, <1>8 DEF SameSizes
    <2>2. reg'.reset = 1 /\ writeFlag
      BY <1>2, <1>3, <1>8, <2>1
    <2>3. init'
      BY <1>1, <1>2, <2>2
    <2> QED BY <1>8, <2>3 DEF Stopped
  <1> QED BY <1>1, <1>5, <1>7, <1>8

\* A start is in step.
LEMMA StartStep ==
  ASSUME FltInv, BusInv, RegTypes, turn = 0, UpdateRegIF, outPending' = out_pending,
         build' = build, Start
  PROVE  FltInv'
  <1>1. /\ RegTypes' /\ initialized' = (reg.reset = 1 /\ ~writeFlag)
        /\ ~writeFlag => reg' = reg
    BY RegStep
  <1>2. /\ reg'.width \in FW - 1 .. MaxWidth /\ reg'.height \in FH - 1 .. MaxIn
    BY <1>1 DEF RegTypes
  <1>3. /\ lbw' = InitLbw(build.kind) /\ outFifo' = <<>> /\ out_pending' = FALSE
        /\ size' = <<reg'.width, reg'.height>> /\ taken' = 0 /\ given' = 0
    BY DEF Start
  <1> DEFINE W == reg'.width
             H == reg'.height
             kind == build.kind
  <1>4. /\ W \in Nat /\ W >= 2 /\ H \in Nat /\ H >= 2 /\ Latency(W) \in Nat
    BY <1>2, SizeBounds
  <1>5. kind \in Kinds /\ MaxIn \in Nat
    BY SizeFacts DEF FltInv
  <1>6. size'[1] = W /\ size'[2] = H
    BY <1>3
  <1> HIDE DEF W, H, kind
  <1>7. /\ InitLbw(kind).lb \in LbType(kind)
        /\ Counted(InitLbw(kind), kind, 0, W, H)
        /\ Kept(InitLbw(kind), kind, build.border, 0, W, H)
    BY <1>4, <1>5, InitLbwIs
  <1>8. SameSizes' /\ ~Stopped'
    BY <1>6 DEF SameSizes, Stopped, W, H
  <1>9. Len(outFifo') = 0 /\ outFifo' \in Seq({})
    BY <1>3
  <1>10. FltTypes'
    <2>1. build' \in Builds /\ out_pending \in BOOLEAN
      BY DEF FltInv, FltTypes
    <2>2. IsQueue(outFifo')
      BY <1>9 DEF IsQueue
    <2>3. lbw'.lb \in LbType(build'.kind)
      BY <1>3, <1>7 DEF kind
    <2>4. size'[1] \in FW - 1 .. MaxWidth /\ size'[2] \in FH - 1 .. MaxIn
      BY <1>2, <1>6 DEF W, H
    <2>5. taken' \in 0 .. MaxIn /\ given' \in Nat
      BY <1>3, <1>5
    <2>7. out_pending' \in BOOLEAN
      BY <1>3
    <2>6. initialized' \in BOOLEAN
      BY <1>1
    <2> QED BY <2>1, <2>2, <2>3, <2>4, <2>5, <2>6, <2>7 DEF FltTypes
  <1>11. Room'
    BY <1>9 DEF Room
  <1>12. initialized' => reg'.reset = 1
    BY <1>1
  <1>13. InStep'
    <2>1. Complete' = 0
      BY <1>3, <1>4, <1>6 DEF Complete
    <2>2. Counted(lbw', build'.kind, taken', size'[1], size'[2])
      BY <1>3, <1>6, <1>7 DEF kind
    <2> QED BY <1>3, <1>9, <2>1, <2>2 DEF InStep
  <1>14. GivenIsCut' /\ HeldIsCut'
    <2>1. ~(given' > 0)
      BY <1>3
    <2>2. GivenIsCut'
      BY <2>1 DEF GivenIsCut, LastIs
    <2>3. Kept(lbw', build'.kind, build'.border, taken', size'[1], size'[2])
      BY <1>3, <1>6, <1>7 DEF kind
    <2>4. CutsFrom(outFifo', given', build'.border, size'[1], size'[2])
      BY <1>9 DEF CutsFrom
    <2> QED BY <2>2, <2>3, <2>4 DEF HeldIsCut
  <1> QED BY <1>8, <1>10, <1>11, <1>12, <1>13, <1>14 DEF FltInv

\* A clock without a pixel keeps the invariant.
LEMMA DrainStep ==
  ASSUME FltInv, BusInv, RegTypes, turn = 0, UpdateRegIF, outPending' = out_pending,
         build' = build, NEW ready \in BOOLEAN, Drain(ready)
  PROVE  FltInv'
  <1>1. ~init /\ FifoUpdate(<<>>, ready) /\ lbw' = lbw /\ size' = size /\ taken' = taken
    BY DEF Drain
  <1>2. /\ ~Stopped /\ initialized' \in BOOLEAN
        /\ initialized' => reg'.reset = 1 /\ SameSizes'
    BY <1>1, Synced
  <1>3. InStep /\ FltTypes /\ Room /\ (Even => GivenIsCut /\ HeldIsCut)
    BY <1>2 DEF FltInv
  <1> DEFINE ws == <<>>
  <1>4. AtMostOne(ws) /\ ws = <<>> /\ Len(ws) = 0
    BY DEF AtMostOne
  <1>5. FifoUpdate(ws, ready)
    BY <1>1
  <1>6. /\ IsQueue(outFifo) /\ out_pending \in BOOLEAN /\ outPending \in BOOLEAN /\ given \in Nat
    BY <1>3 DEF FltTypes
  <1> HIDE DEF ws
  <1>7. /\ IsQueue(outFifo') /\ Room' /\ out_pending' \in BOOLEAN /\ given' \in Nat
        /\ Len(outFifo) \in Nat /\ Len(outFifo') \in Nat
        /\ given' + Len(outFifo') = given + Len(outFifo) + Len(ws)
        /\ \A border, W, H :
             CutsFrom(outFifo, given, border, W, H) /\ LastIs(last, given, border, W, H)
             => /\ LastIs(last', given', border, W, H)
                /\ Brings(ws, given + Len(outFifo), border, W, H)
                     => CutsFrom(outFifo', given', border, W, H)
    BY <1>3, <1>4, <1>5, <1>6, FifoStep
  <1>8. FltTypes'
    BY <1>1, <1>2, <1>3, <1>7 DEF FltTypes
  <1>9. given' + Len(outFifo') = Complete /\ Complete' = Complete
    BY <1>1, <1>3, <1>4, <1>6, <1>7 DEF InStep, Complete
  <1>10. InStep'
    BY <1>1, <1>3, <1>9 DEF InStep
  <1>11. OutOfStep'
    <2>1. OutOfStep /\ Complete \in Nat /\ Complete <= taken
      BY <1>3, InStepRanges
    <2>2. given' <= taken
      <3>1. taken \in Int
        BY <1>3, SizeFacts DEF FltTypes
      <3> QED BY <1>7, <1>9, <2>1, <3>1
    <2> QED BY <1>1, <2>1, <2>2 DEF OutOfStep
  <1>12. ASSUME Even PROVE GivenIsCut' /\ HeldIsCut'
    <2>1. /\ CutsFrom(outFifo, given, build.border, size[1], size[2])
          /\ LastIs(last, given, build.border, size[1], size[2])
      BY <1>3, <1>12 DEF GivenIsCut, HeldIsCut
    <2>2. Brings(ws, given + Len(outFifo), build.border, size[1], size[2])
      BY <1>4 DEF Brings
    <2>3. /\ CutsFrom(outFifo', given', build.border, size[1], size[2])
          /\ LastIs(last', given', build.border, size[1], size[2])
      BY <1>7, <2>1, <2>2
    <2>4. Kept(lbw, build.kind, build.border, taken, size[1], size[2])
      BY <1>3, <1>12 DEF HeldIsCut
    <2> QED BY <1>1, <2>3, <2>4 DEF GivenIsCut, HeldIsCut
  <1>13. Even' = Even
    BY <1>1 DEF Even
  <1> QED BY <1>2, <1>7, <1>8, <1>10, <1>11, <1>12, <1>13 DEF FltInv

\* A clock that takes a pixel keeps the invariant.
LEMMA TakeStep ==
  ASSUME FltInv, BusInv, RegTypes, turn = 0, UpdateRegIF, outPending' = out_pending,
         build' = build, NEW ready \in BOOLEAN, TakePixel(ready)
  PROVE  FltInv'
  <1> DEFINE W == reg'.width
             H == reg'.height
             kind == build.kind
             border == build.border
             win == Window(lbw, kind, border, taken + 1, W, H)
             ws == IF Valid(lbw) THEN <<win>> ELSE <<>>
  <1>1. /\ ~init /\ initialized /\ ~outPending /\ taken < MaxIn
        /\ lbw' = Update(lbw, kind, border, taken + 1, W, H)
        /\ FifoUpdate(ws, ready) /\ taken' = taken + 1 /\ size' = size
    BY DEF TakePixel, curReady
  <1>2. /\ ~Stopped /\ initialized' \in BOOLEAN
        /\ initialized' => reg'.reset = 1 /\ SameSizes'
        /\ ~SameSizes' => Stopped'
    BY <1>1, Synced
  <1>3. InStep /\ FltTypes /\ Room /\ (Even => GivenIsCut /\ HeldIsCut)
    BY <1>2 DEF FltInv
  <1>4. AtMostOne(ws) /\ Len(ws) = (IF Valid(lbw) THEN 1 ELSE 0) /\ (Valid(lbw) => ws[1] = win)
    BY DEF AtMostOne
  <1>5. /\ W \in Nat /\ H \in Nat
    <2>1. RegTypes'
      BY RegStep
    <2>2. W \in FW - 1 .. MaxWidth /\ H \in FH - 1 .. MaxIn
      BY <2>1 DEF RegTypes
    <2> QED BY <2>2, SizeBounds
  <1>6. /\ IsQueue(outFifo) /\ out_pending \in BOOLEAN /\ outPending \in BOOLEAN /\ given \in Nat
        /\ lbw.lb \in LbType(kind)
    BY <1>3 DEF FltTypes
  <1>7. /\ size[1] \in Nat /\ size[1] >= 2 * E /\ size[1] >= 2 /\ size[1] <= MaxWidth
        /\ size[2] \in Nat /\ size[2] >= 2 * G /\ size[2] >= 2
        /\ kind \in Kinds /\ border \in {"001", "101"}
        /\ MaxWidth \in Nat /\ MaxIn \in Nat /\ Latency(size[1]) \in Nat
    BY <1>3, SizeFacts
  <1>8. taken \in Nat /\ taken + 1 \in Int
    BY <1>3, <1>7 DEF FltTypes
  <1>9. Counted(lbw, kind, taken, size[1], size[2]) /\ given + Len(outFifo) = Complete
    BY <1>3 DEF InStep
  <1>10. Valid(lbw) <=> taken >= Latency(size[1])
    <2> DEFINE n == Update(lbw, kind, border, 0, size[1], size[2])
    <2>1. n = Update(lbw, kind, border, 0, size[1], size[2])
      OBVIOUS
    <2> HIDE DEF n, kind, border
    <2> QED BY <1>6, <1>7, <1>8, <1>9, <2>1, CountedStep
  <1> HIDE DEF ws, win, W, H, kind, border
  <1>11. /\ IsQueue(outFifo') /\ Room' /\ out_pending' \in BOOLEAN /\ given' \in Nat
         /\ Len(outFifo) \in Nat /\ Len(outFifo') \in Nat
         /\ given' + Len(outFifo') = given + Len(outFifo) + Len(ws)
         /\ \A b, w, h :
              CutsFrom(outFifo, given, b, w, h) /\ LastIs(last, given, b, w, h)
              => /\ LastIs(last', given', b, w, h)
                 /\ Brings(ws, given + Len(outFifo), b, w, h) => CutsFrom(outFifo', given', b, w, h)
    BY <1>1, <1>3, <1>4, <1>6, FifoStep
  <1>12. given' + Len(outFifo') = Complete'
    <2>1. Complete = IF taken > Latency(size[1]) THEN taken - Latency(size[1]) ELSE 0
      BY DEF Complete
    <2>2. Complete' = IF taken + 1 > Latency(size[1]) THEN (taken + 1) - Latency(size[1]) ELSE 0
      BY <1>1 DEF Complete
    <2>3. Len(ws) = IF taken >= Latency(size[1]) THEN 1 ELSE 0
      BY <1>4, <1>10
    <2>4. given' + Len(outFifo') = Complete + Len(ws)
      BY <1>9, <1>11
    <2> DEFINE a == Latency(size[1])
    <2>5. a \in Nat
      BY <1>7
    <2> HIDE DEF a
    <2>6. (IF taken > a THEN taken - a ELSE 0) + (IF taken >= a THEN 1 ELSE 0)
            = IF taken + 1 > a THEN (taken + 1) - a ELSE 0
      BY <1>8, <2>5
    <2> QED BY <2>1, <2>2, <2>3, <2>4, <2>6 DEF a
  <1>13. lbw'.lb \in LbType(kind)
    BY <1>1, <1>5, <1>6, <1>7, <1>8, UpdateTypes
  <1>14. FltTypes'
    <2>1. taken' \in 0 .. MaxIn
      BY <1>1, <1>7, <1>8
    <2>2. build' \in Builds /\ outPending' \in BOOLEAN /\ lbw'.lb \in LbType(build'.kind)
      BY <1>3, <1>13 DEF FltTypes, kind
    <2>3. size'[1] \in FW - 1 .. MaxWidth /\ size'[2] \in FH - 1 .. MaxIn
      BY <1>1, <1>3 DEF FltTypes
    <2> QED BY <1>2, <1>11, <2>1, <2>2, <2>3 DEF FltTypes
  <1>15. ASSUME SameSizes' PROVE W = size[1] /\ H = size[2]
    BY <1>1, <1>15 DEF SameSizes, W, H
  <1>16. ASSUME ~Stopped' PROVE InStep'
    <2>1. lbw' = Update(lbw, kind, border, taken + 1, size[1], size[2])
      BY <1>1, <1>2, <1>15, <1>16
    <2>2. Counted(lbw', kind, taken + 1, size[1], size[2])
      BY <1>6, <1>7, <1>8, <1>9, <2>1, CountedStep
    <2> QED BY <1>1, <1>12, <2>2 DEF InStep, kind
  <1>17. OutOfStep'
    <2>1. /\ lbw.lb.pos_x \in 0 .. size[1] - 1 /\ lbw.lb.lb_pos_y \in 0 .. FHX(kind) - 1
          /\ Complete \in Nat /\ Complete <= taken
      BY <1>3, InStepRanges DEF OutOfStep, kind
    <2>2. PICK m \in LbType(kind) : SamePlace(lbw.lb, m) /\ Moves(m, lbw'.lb, kind, W, H)
      BY <1>1, <1>5, <1>6, <1>7, <1>8, UpdateTypes
    <2>3. m.pos_x = lbw.lb.pos_x /\ m.lb_pos_y = lbw.lb.lb_pos_y
      BY <2>2 DEF SamePlace
    <2>4. lbw'.lb.pos_x = 0 \/ lbw'.lb.pos_x = lbw.lb.pos_x + 1
      BY <2>2, <2>3 DEF Moves
    <2>5. lbw'.lb.pos_x \in 0 .. MaxWidth
      BY <1>7, <2>1, <2>4
    <2>6. \/ lbw'.lb.lb_pos_y = lbw.lb.lb_pos_y
          \/ lbw'.lb.lb_pos_y = 0
          \/ lbw.lb.lb_pos_y # FHX(kind) - 1 /\ lbw'.lb.lb_pos_y = lbw.lb.lb_pos_y + 1
      BY <2>2, <2>3 DEF Moves
    <2>7. lbw'.lb.lb_pos_y \in 0 .. FHX(kind) - 1
      <3>1. FHX(kind) \in Nat /\ FHX(kind) >= 2
        BY <1>7, FhxFacts
      <3> QED BY <2>1, <2>6, <3>1
    <2>8. given' <= taken'
      <3>1. Len(ws) <= 1 /\ Len(ws) \in Nat
        BY <1>4
      <3>2. given' + Len(outFifo') = Complete + Len(ws)
        BY <1>9, <1>11
      <3> QED BY <1>1, <1>8, <1>11, <2>1, <3>1, <3>2
    <2> QED BY <2>5, <2>7, <2>8 DEF OutOfStep, kind
  <1>18. Even' = Even
    BY <1>1 DEF Even
  <1>19. ASSUME Even
         PROVE  /\ CutsFrom(outFifo, given, border, size[1], size[2])
                /\ LastIs(last, given, border, size[1], size[2])
                /\ Kept(lbw, kind, border, taken, size[1], size[2])
    BY <1>3, <1>19 DEF GivenIsCut, HeldIsCut, kind, border
  <1>20. ASSUME Even PROVE GivenIsCut'
    <2>1. LastIs(last', given', border, size[1], size[2])
      BY <1>11, <1>19, <1>20
    <2> QED BY <1>1, <2>1 DEF GivenIsCut, border
  <1>21. ASSUME Even, ~Stopped' PROVE HeldIsCut'
    <2>1. W = size[1] /\ H = size[2]
      BY <1>2, <1>15, <1>21
    <2>2. /\ lbw' = Update(lbw, kind, border, taken + 1, size[1], size[2])
          /\ win = Window(lbw, kind, border, taken + 1, size[1], size[2])
      BY <1>1, <2>1 DEF win
    <2>3. EvenLines(kind, size[1])
      BY <1>21 DEF Even, kind
    <2>4. /\ Kept(lbw', kind, border, taken + 1, size[1], size[2])
          /\ taken >= Latency(size[1]) =>
               Window(lbw, kind, border, taken + 1, size[1], size[2])
                 = Cut(border, taken - Latency(size[1]), size[1], size[2])
      BY <1>6, <1>7, <1>8, <1>9, <1>19, <1>21, <2>2, <2>3, KeptStep, SMTT(30)
    <2>5. Brings(ws, given + Len(outFifo), border, size[1], size[2])
      <3>1. ASSUME Len(ws) = 1
            PROVE  ws[1] = Cut(border, given + Len(outFifo), size[1], size[2])
        <4>1. Valid(lbw) /\ taken >= Latency(size[1])
          BY <1>4, <1>10, <3>1
        <4>2. given + Len(outFifo) = taken - Latency(size[1])
          BY <1>7, <1>8, <1>9, <4>1 DEF Complete
        <4> QED BY <1>4, <2>2, <2>4, <4>1, <4>2
      <3> QED BY <3>1 DEF Brings
    <2>6. CutsFrom(outFifo', given', border, size[1], size[2])
      BY <1>11, <1>19, <1>21, <2>5
    <2> QED BY <1>1, <2>4, <2>6 DEF HeldIsCut, kind, border
  <1> QED BY <1>2, <1>11, <1>14, <1>16, <1>17, <1>18, <1>20, <1>21 DEF FltInv

\* A step that leaves the filter alone keeps its invariant.
LEMMA FltStays ==
  ASSUME FltInv, UNCHANGED <<build, fltvars>>
  PROVE  FltInv'
  <1>1. /\ build' = build /\ reg' = reg /\ initialized' = initialized /\ lbw' = lbw
        /\ outFifo' = outFifo /\ out_pending' = out_pending /\ outPending' = outPending
        /\ size' = size /\ taken' = taken /\ given' = given /\ last' = last
    BY DEF fltvars, regvars
  <1>2. FltTypes' /\ Room'
    BY <1>1 DEF FltInv, FltTypes, Room
  <1>3. /\ SameSizes' <=> SameSizes
        /\ init' <=> init
        /\ Complete' = Complete
        /\ Even' <=> Even
    BY <1>1 DEF SameSizes, init, Complete, Even
  <1>4. Stopped' <=> Stopped
    BY <1>3 DEF Stopped
  <1>5. /\ InStep => InStep'
        /\ OutOfStep => OutOfStep'
        /\ GivenIsCut => GivenIsCut'
        /\ HeldIsCut => HeldIsCut'
    BY <1>1, <1>3 DEF InStep, OutOfStep, GivenIsCut, HeldIsCut
  <1> QED BY <1>1, <1>2, <1>3, <1>4, <1>5 DEF FltInv

\* The filter starts in its invariant.
LEMMA FilterStarts ==
  ASSUME FilterInit
  PROVE  FltInv /\ ops \in 0 .. MaxOps
  <1>1. PICK s \in Sizes : reg = [reset |-> 0, width |-> s[1], height |-> s[2]] /\ size = s
    BY DEF FilterInit
  <1>2. /\ build \in Builds /\ initialized = FALSE /\ lbw = InitLbw(build.kind) /\ outFifo = <<>>
        /\ out_pending = FALSE /\ outPending = FALSE /\ taken = 0 /\ given = 0 /\ ops = 0
    BY DEF FilterInit
  <1>3. size[1] \in FW - 1 .. MaxWidth /\ size[2] \in FH - 1 .. MaxIn
    BY <1>1, SizesAssumption
  <1>4. /\ size[1] \in Nat /\ size[1] >= 2 /\ size[2] \in Nat /\ size[2] >= 2
        /\ Latency(size[1]) \in Nat
    BY <1>3, SizeBounds
  <1>5. build.kind \in Kinds
    BY <1>2, BuildsAssumption DEF Kinds
  <1>6. MaxIn \in Nat /\ MaxOps \in Nat
    BY BoundsAssumption
  <1> DEFINE kind == build.kind
             W == size[1]
             H == size[2]
  <1>7. /\ InitLbw(kind).lb \in LbType(kind)
        /\ Counted(InitLbw(kind), kind, 0, W, H)
        /\ Kept(InitLbw(kind), kind, build.border, 0, W, H)
    <2> HIDE DEF kind, W, H
    <2>1. kind \in Kinds /\ W \in Nat /\ W >= 2 /\ H \in Nat /\ H >= 2
      BY <1>4, <1>5 DEF kind, W, H
    <2> QED BY <2>1, InitLbwIs
  <1>8. Len(outFifo) = 0 /\ outFifo \in Seq({})
    BY <1>2
  <1>9. FltTypes
    <2>1. IsQueue(outFifo)
      BY <1>8 DEF IsQueue
    <2>2. taken \in 0 .. MaxIn /\ given \in Nat
      BY <1>2, <1>6
    <2> QED BY <1>2, <1>3, <1>7, <2>1, <2>2 DEF FltTypes
  <1>10. ~Stopped /\ ~initialized
    BY <1>1, <1>2 DEF Stopped, init
  <1>11. InStep
    <2>1. Complete = 0
      BY <1>2, <1>4 DEF Complete
    <2> QED BY <1>2, <1>7, <1>8, <2>1 DEF InStep
  <1>12. GivenIsCut /\ HeldIsCut
    <2>1. GivenIsCut
      BY <1>2 DEF GivenIsCut, LastIs
    <2>2. CutsFrom(outFifo, given, build.border, W, H)
      BY <1>8 DEF CutsFrom
    <2> QED BY <1>2, <1>7, <2>1, <2>2 DEF HeldIsCut
  <1>13. Room
    BY <1>8 DEF Room
  <1>14. ops \in 0 .. MaxOps
    BY <1>2, <1>6
  <1> QED BY <1>9, <1>10, <1>11, <1>12, <1>13, <1>14 DEF FltInv

FilterInv == BusInv /\ RegTypes /\ FltInv /\ ops \in 0 .. MaxOps

\* Every step keeps the invariant.
LEMMA FilterStep ==
  ASSUME CountedOps, FilterInv, [Next]_vars
  PROVE  FilterInv'
  <1>1. BusInv' /\ RegTypes'
    BY FilterBus DEF FilterInv
  <1>2. BusInv /\ RegTypes /\ FltInv /\ ops \in 0 .. MaxOps
    BY DEF FilterInv
  <1>3. CASE \E ready \in BOOLEAN : Step(ready)
    <2>1. PICK ready \in BOOLEAN : Step(ready)
      BY <1>3
    <2>2. /\ turn = 0 /\ UpdateRegIF /\ outPending' = out_pending /\ build' = build /\ ops' = ops
          /\ (Start \/ Drain(ready) \/ TakePixel(ready))
      BY <2>1 DEF Step, Slave, Call
    <2>3. FltInv'
      BY <1>2, <2>2, StartStep, DrainStep, TakeStep
    <2> QED BY <1>1, <1>2, <2>2, <2>3 DEF FilterInv
  <1>4. CASE \E m \in Masters : Master(m)
    <2>1. UNCHANGED <<build, fltvars>> /\ (ops' = ops \/ (ops < MaxOps /\ ops' = ops + 1))
      BY <1>4 DEF Master
    <2>2. ops' \in 0 .. MaxOps
      BY <1>2, <2>1, BoundsAssumption
    <2>3. FltInv'
      BY <1>2, <2>1, FltStays
    <2> QED BY <1>1, <2>2, <2>3 DEF FilterInv
  <1>5. CASE Connect
    <2>1. UNCHANGED <<build, fltvars>> /\ ops' = ops
      BY <1>5 DEF Connect
    <2>2. FltInv'
      BY <1>2, <2>1, FltStays
    <2> QED BY <1>1, <1>2, <2>1, <2>2 DEF FilterInv
  <1>6. CASE UNCHANGED vars
    <2>1. UNCHANGED <<build, fltvars>> /\ ops' = ops
      BY <1>6 DEF vars
    <2>2. FltInv'
      BY <1>2, <2>1, FltStays
    <2> QED BY <1>1, <1>2, <2>1, <2>2 DEF FilterInv
  <1> QED BY <1>3, <1>4, <1>5, <1>6 DEF Next

LEMMA FilterAlways ==
  ASSUME CountedOps
  PROVE  Spec => []FilterInv
  <1>1. FilterInit => FilterInv
    BY FilterInitBus, FilterStarts DEF FilterInv
  <1>2. FilterInv /\ [Next]_vars => FilterInv'
    BY FilterStep
  <1> QED BY <1>1, <1>2, PTL DEF Spec

\* The bus' invariant gives its types.
LEMMA BusTypesOK ==
  ASSUME BusInv
  PROVE  BusTypeOK
  <1>1. BusTypes
    BY DEF BusInv
  <1>2. ASSUME NEW m \in Masters
        PROVE  /\ rw_state[m] \in {"RW_Init", "RW_RAddr", "RW_WBurstSetup", "RW_WAddr"}
               /\ out[m] \subseteq RChan \cup WChan /\ min[m] \subseteq RChan \cup WChan \cup {"last"}
               /\ burst_count[m] \in Nat /\ dout[m] \in Words /\ mdata[m] \in Words
               /\ rw_state[m] = "RW_Init" => out[m] = {} /\ req[m] = None /\ dout[m] = None
    <2>1. rw_state[m] \in {"RW_Init", "RW_RAddr", "RW_WBurstSetup", "RW_WAddr"}
      BY <1>1 DEF BusTypes
    <2>2. out[m] \subseteq RChan \cup WChan /\ min[m] \subseteq RChan \cup WChan \cup {"last"}
      BY <1>1, Zenon DEF BusTypes
    <2>3. burst_count[m] \in Nat /\ dout[m] \in Words /\ mdata[m] \in Words
      BY <1>1 DEF BusTypes
    <2>4. rw_state[m] = "RW_Init" => out[m] = {} /\ req[m] = None /\ dout[m] = None
      BY DEF BusInv, MasterPhases, Idle
    <2> QED BY <2>1, <2>2, <2>3, <2>4
  <1>3. /\ turn \in 0 .. MC + 1
        /\ r_state \in {"R_Init", "R_Addr", "R_End"} /\ w_state \in {"W_Init", "W_AddrData", "W_End"}
        /\ rout \subseteq RChan \cup {"last"} /\ wout \subseteq WChan /\ rdata \in Words
    BY <1>1, Zenon DEF BusTypes
  <1>4. {raddr_end, burst_end_r, waddr_end, wres_end, writeBurstMode} \subseteq BOOLEAN
    BY <1>1 DEF BusTypes
  <1>5. /\ burst_count_r \in Nat /\ burst_count_w \in Nat
        /\ {rowner, wowner, rconn, wconn} \subseteq Masters \cup {None}
        /\ {roundRobinRVal, roundRobinWVal} \subseteq Masters
    BY <1>1 DEF BusTypes
  <1> QED BY <1>2, <1>3, <1>4, <1>5 DEF BusTypeOK

\* The invariant gives the types.
LEMMA TypesOK ==
  ASSUME FilterInv
  PROVE  TypeOK
  <1>1. BusInv /\ RegTypes /\ FltInv /\ FltTypes /\ Room /\ ops \in 0 .. MaxOps
    BY DEF FilterInv, FltInv
  <1>2. BusTypeOK
    BY <1>1, BusTypesOK
  <1>3. /\ reg.reset \in {0, 1} /\ <<reg.width, reg.height>> \in Seq(Nat)
    <2>1. reg.width \in FW - 1 .. MaxWidth /\ reg.height \in FH - 1 .. MaxIn
      BY <1>1 DEF RegTypes
    <2>2. reg.width \in Nat /\ reg.height \in Nat
      BY <2>1, SizeBounds
    <2> QED BY <1>1, <2>2, RegNames
  <1>4. {initialized, out_pending, outPending} \subseteq BOOLEAN /\ build \in Builds
    BY <1>1 DEF FltTypes
  <1>5. Stopped \/ InStep
    BY <1>1 DEF FltInv
  <1>6. OutOfStep
    BY <1>1, <1>5, InStepRanges DEF FltInv
  <1>7. ASSUME initialized PROVE lbw.lb.pos_x < reg.width /\ lbw.lb.pos_y < reg.height
    <2>1. SameSizes /\ ~Stopped
      BY <1>1, <1>7 DEF FltInv, Stopped, init
    <2>2. lbw.lb.pos_x \in 0 .. size[1] - 1 /\ lbw.lb.pos_y \in 0 .. size[2] - 1
      BY <1>1, <1>5, <2>1, InStepRanges
    <2>3. size[1] \in Nat /\ size[2] \in Nat
      BY <1>1, SizeFacts
    <2> QED BY <2>1, <2>2, <2>3 DEF SameSizes
  <1>8. Len(outFifo) <= DEPTH
    <2>1. PIPE_COUNT \in Nat
      BY BoundsAssumption
    <2>2. Len(outFifo) \in Nat
      BY <1>1 DEF FltTypes, IsQueue
    <2> QED BY <1>1, <2>1, <2>2 DEF Room, DEPTH
  <1>9. taken \in 0 .. MaxIn /\ given \in 0 .. taken
    <2>1. MaxIn \in Nat
      BY BoundsAssumption
    <2> QED BY <1>1, <1>6, <2>1 DEF FltTypes, OutOfStep
  <1> QED BY <1>1, <1>2, <1>3, <1>4, <1>6, <1>7, <1>8, <1>9 DEF TypeOK, OutOfStep

\* TypeOK: every variable of bus, registers and filter keeps its type; the positions stay
\* in the picture while the filter runs, and within the memory (or one past it) whatever
\* is written to the registers; the queue never holds more than its depth.
THEOREM FilterTypes ==
  ASSUME CountedOps
  PROVE  Spec => []TypeOK
  <1>1. FilterInv => TypeOK
    BY TypesOK
  <1> QED BY <1>1, FilterAlways, PTL

\* StreamIsFiltered: for every size of window and picture, every line buffer and border,
\* and every way the pixels come, the queue is drained and the registers are written, the
\* windows that leave are those cut out of the picture, in order and without a gap, of
\* the interleaved buffer at an odd width only as many.
THEOREM StreamFiltered ==
  ASSUME CountedOps
  PROVE  Spec => []StreamIsFiltered
  <1>1. ASSUME FilterInv PROVE StreamIsFiltered
    <2>1. FltInv /\ (EvenWidth => Even)
      BY <1>1 DEF FilterInv, EvenWidth, Even, EvenLines
    <2>2. EvenWidth /\ given > 0 => last = Cut(build.border, given - 1, size[1], size[2])
      BY <2>1 DEF FltInv, GivenIsCut, LastIs
    <2>3. ASSUME size = <<reg.width, reg.height>>
          PROVE  /\ given + Len(outFifo) = Complete
                 /\ EvenWidth => \A i \in DOMAIN outFifo :
                                   outFifo[i] = Cut(build.border, given + i - 1, size[1], size[2])
      <3>1. SameSizes
        BY <2>3 DEF SameSizes
      <3>2. InStep /\ (EvenWidth => HeldIsCut)
        BY <2>1, <3>1 DEF FltInv, Stopped
      <3>3. DOMAIN outFifo = 1 .. Len(outFifo)
        BY <2>1 DEF FltInv, FltTypes, IsQueue
      <3> QED BY <3>2, <3>3 DEF InStep, HeldIsCut, CutsFrom
    <2> QED BY <2>2, <2>3 DEF StreamIsFiltered
  <1>2. FilterInv => StreamIsFiltered
    BY <1>1
  <1> QED BY <1>2, FilterAlways, PTL
=============================================================================
