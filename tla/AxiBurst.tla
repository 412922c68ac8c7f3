------------------------------ MODULE AxiBurst ------------------------------
(***************************************************************************)
(* The AXI4 bus of the C2R library (axi4.h), from which the SoC's AXI4-Lite *)
(* bus (AxiBus) descends: operations of several words, for which the write *)
(* channel has a set-up state of its own.  Several masters, one slave.     *)
(*                                                                         *)
(* A clock is one call of the slave, of every master, and connectChannel,  *)
(* in this order (turn); slave and masters see what connectChannel brought *)
(* them in the last clock.  The signals are named as in AxiBus; here a     *)
(* slave's outputs reach its channel at once.  Left out: interrupts, which *)
(* only the UART is connected to; the mutex, which no device asks for, and *)
(* with it the retry after a bad response.  A device answers in every      *)
(* clock, as the register interface that is generated for a slave does.    *)
(***************************************************************************)
EXTENDS Integers, Sequences

CONSTANTS MC,       \* masters
          CountMod, \* the slave counts modulo this: 16 in hardware (ST_UINT4); in the
                    \* simulation, where ST_UINT4 is a byte, 256
          None      \* no master, no operation, no word

\* There is a master, and no word is mistaken for none.
ASSUME MastersAssumption == MC \in Nat \ {0}
ASSUME NoneAssumption == None \notin Int
ASSUME CountAssumption == CountMod \in Nat \ {0}

Masters == 0 .. MC - 1
RChan == {"raddr", "rdat"}
WChan == {"waddr", "wdat", "wres"}

\* An operation: [kind, addr, len, words]; len + 1 words are to be moved, and len has
\* eight bits.
VARIABLES
  turn,
  \* MasterFSM: state, operation held by the caller, outputs, words still to come,
  \* word shown
  rw_state, req, out, burst_count, dout,
  \* what connectChannel last brought each master: signals and word
  min, mdata,
  \* SlaveFSM
  r_state, raddr, rout, rdata, raddr_end, burst_count_r, burst_end_r,
  w_state, waddr, wout, waddr_end, wres_end, burst_count_w, writeBurstMode,
  \* CTRL: owner of the slave, round robin, master connected to the slave
  rowner, wowner, roundRobinRVal, roundRobinWVal, rconn, wconn,
  \* history: words a master was given, words the slave was given or gave
  got, served

mvars == <<rw_state, req, out, burst_count, dout, got>>
rvars == <<r_state, raddr, rout, rdata, raddr_end, burst_count_r, burst_end_r>>
wvars == <<w_state, waddr, wout, waddr_end, wres_end, burst_count_w, writeBurstMode>>
cvars == <<rowner, wowner, roundRobinRVal, roundRobinWVal, rconn, wconn, min, mdata>>
busvars == <<turn, mvars, rvars, wvars, cvars, served>>

\* Calls 0 .. MC + 1.
Call(k) == turn = k /\ turn' = IF k = MC + 1 THEN 0 ELSE k + 1

Each(v) == [m \in Masters |-> v]
Init ==
  /\ turn = 0
  /\ rw_state = Each("RW_Init") /\ req = Each(None) /\ out = Each({})
  /\ burst_count = Each(0) /\ dout = Each(None) /\ got = Each(<<>>)
  /\ min = Each({}) /\ mdata = Each(None)
  /\ r_state = "R_Init" /\ raddr = None /\ rout = {} /\ rdata = None
  /\ raddr_end = FALSE /\ burst_count_r = 0 /\ burst_end_r = FALSE
  /\ w_state = "W_Init" /\ waddr = None /\ wout = {}
  /\ waddr_end = FALSE /\ wres_end = FALSE /\ burst_count_w = 0 /\ writeBurstMode = FALSE
  /\ rowner = None /\ wowner = None /\ roundRobinRVal = 0 /\ roundRobinWVal = 0
  /\ rconn = None /\ wconn = None /\ served = Each(<<>>)

-----------------------------------------------------------------------------
(* SlaveFSM.  word is what devRead answers. *)

RSees(ch) == rconn # None /\ ch \in out[rconn]
WSees(ch) == wconn # None /\ ch \in out[wconn]
\* The clocks in which the device is asked for a word, and given one.
devRead == r_state = "R_Addr" /\ ~burst_end_r
devWriteFlag == w_state = "W_AddrData" /\ WSees("wdat")

ReadIdle ==
  /\ r_state = "R_Init" /\ ~RSees("raddr")
  /\ UNCHANGED rvars
ReadAccept ==
  /\ r_state = "R_Init" /\ RSees("raddr")
  /\ r_state' = "R_Addr" /\ raddr' = req[rconn].addr /\ burst_count_r' = req[rconn].len % CountMod
  /\ rout' = {"raddr"} /\ raddr_end' = FALSE /\ burst_end_r' = FALSE
  /\ UNCHANGED rdata

\* Mutation of ReadAnswer: the last word is announced one word late.
ReadAnswerLate(word) ==
  /\ r_state = "R_Addr"
  /\ raddr_end' = (raddr_end \/ ~RSees("raddr"))
  /\ rdata' = word
  /\ rout' = {"rdat"} \cup (IF burst_end_r THEN {"last"} ELSE {})
  /\ burst_end_r' = (burst_count_r = 0)
  /\ burst_count_r' = IF burst_count_r = 0 THEN 0 ELSE burst_count_r - 1
  /\ r_state' = IF burst_end_r /\ RSees("rdat") THEN "R_End" ELSE "R_Addr"
  /\ UNCHANGED raddr

\* A word in every clock; the last one stays until the master has been ready for it.
ReadAnswer(word) ==
  /\ r_state = "R_Addr"
  /\ raddr_end' = (raddr_end \/ ~RSees("raddr"))
  /\ rdata' = IF burst_end_r THEN rdata ELSE word
  /\ rout' = {"rdat"} \cup (IF burst_count_r = 0 THEN {"last"} ELSE {})
  /\ burst_end_r' = (burst_count_r = 0)
  /\ burst_count_r' = IF burst_count_r = 0 THEN 0 ELSE burst_count_r - 1
  /\ r_state' = IF burst_count_r = 0 /\ RSees("rdat") THEN "R_End" ELSE "R_Addr"
  /\ UNCHANGED raddr

ReadEnd ==
  /\ r_state = "R_End"
  /\ rout' = {} /\ rdata' = None
  /\ r_state' = IF raddr_end \/ ~RSees("raddr") THEN "R_Init" ELSE "R_End"
  /\ UNCHANGED <<raddr, raddr_end, burst_count_r, burst_end_r>>

WriteIdle ==
  /\ w_state = "W_Init" /\ ~WSees("waddr")
  /\ UNCHANGED wvars
\* A burst is told with the address that its data may come.
WriteAccept ==
  /\ w_state = "W_Init" /\ WSees("waddr")
  /\ w_state' = "W_AddrData" /\ waddr' = req[wconn].addr /\ burst_count_w' = req[wconn].len % CountMod
  /\ wout' = {"waddr"} \cup (IF req[wconn].len > 0 THEN {"wdat"} ELSE {})
  /\ writeBurstMode' = (writeBurstMode \/ req[wconn].len > 0)
  /\ waddr_end' = FALSE
  /\ UNCHANGED wres_end

WriteWait ==
  /\ w_state = "W_AddrData" /\ ~devWriteFlag
  /\ wout' = IF writeBurstMode THEN {"wdat"} ELSE wout \ {"waddr"}
  /\ waddr_end' = (waddr_end \/ ~WSees("waddr"))
  /\ UNCHANGED <<w_state, waddr, wres_end, burst_count_w, writeBurstMode>>
\* Mutation of WriteData: the response comes with the word before the last.
WriteDataShort ==
  /\ devWriteFlag
  /\ wout' = {"wdat"} \cup (IF burst_count_w <= 1 THEN {"wres"} ELSE {})
  /\ w_state' = IF burst_count_w <= 1 THEN "W_End" ELSE "W_AddrData"
  /\ burst_count_w' = IF burst_count_w <= 1 THEN 0 ELSE burst_count_w - 1
  /\ waddr_end' = (waddr_end \/ ~WSees("waddr"))
  /\ wres_end' = FALSE
  /\ UNCHANGED <<waddr, writeBurstMode>>
WriteData ==
  /\ devWriteFlag
  /\ wout' = {"wdat"} \cup (IF burst_count_w = 0 THEN {"wres"} ELSE {})
  /\ w_state' = IF burst_count_w = 0 THEN "W_End" ELSE "W_AddrData"
  /\ burst_count_w' = IF burst_count_w = 0 THEN 0 ELSE burst_count_w - 1
  /\ waddr_end' = (waddr_end \/ ~WSees("waddr"))
  /\ wres_end' = FALSE
  /\ UNCHANGED <<waddr, writeBurstMode>>

WriteEnd ==
  LET taken == wres_end \/ WSees("wres")
      over  == taken /\ (waddr_end \/ ~WSees("waddr"))
  IN /\ w_state = "W_End"
     /\ wres_end' = taken
     /\ wout' = IF over THEN {} ELSE {"wres"}
     /\ w_state' = IF over THEN "W_Init" ELSE "W_End"
     /\ UNCHANGED <<waddr, waddr_end, burst_count_w, writeBurstMode>>

Slave(word) ==
  /\ Call(0)
  /\ \/ ReadIdle \/ ReadAccept \/ ReadAnswer(word) \/ ReadEnd
  /\ \/ WriteIdle \/ WriteAccept \/ WriteWait \/ WriteData \/ WriteEnd
  /\ served' = [m \in Masters |->
                  CASE devRead /\ m = rconn -> Append(served[m], word)
                    [] devWriteFlag /\ m = wconn -> Append(served[m], dout[m])
                    [] OTHER -> served[m]]
  /\ UNCHANGED <<mvars, cvars>>

-----------------------------------------------------------------------------
(* MasterFSM *)

MasterIdle(m) ==
  /\ rw_state[m] = "RW_Init"
  /\ UNCHANGED <<mvars, served>>

\* A burst that is written shows its address first.
Issue(m, op) ==
  LET single == op.kind = "Write" /\ op.len = 0
  IN /\ rw_state[m] = "RW_Init"
     /\ req' = [req EXCEPT ![m] = op]
     /\ out' = [out EXCEPT ![m] = IF op.kind = "Read" THEN RChan
                                  ELSE IF single THEN WChan ELSE {"waddr"}]
     /\ dout' = [dout EXCEPT ![m] = IF single THEN op.words[1] ELSE @]
     /\ burst_count' = [burst_count EXCEPT ![m] = op.len]
     /\ rw_state' = [rw_state EXCEPT ![m] = IF op.kind = "Read" THEN "RW_RAddr"
                                            ELSE IF single THEN "RW_WAddr" ELSE "RW_WBurstSetup"]
     /\ UNCHANGED <<got, served>>

\* The operation is over when every handshake is; the history with it.
Ends(m, left) ==
  /\ out' = [out EXCEPT ![m] = left]
  /\ rw_state' = [rw_state EXCEPT ![m] = IF left = {} THEN "RW_Init" ELSE @]
  /\ req' = [req EXCEPT ![m] = IF left = {} THEN None ELSE @]
  /\ served' = [served EXCEPT ![m] = IF left = {} THEN <<>> ELSE @]

Received(m) == IF "rdat" \in min[m] THEN Append(got[m], mdata[m]) ELSE got[m]
AwaitRead(m) ==
  LET last == burst_count[m] = 0
      left == out[m] \ (min[m] \cap (IF last THEN RChan ELSE {"raddr"}))
  IN /\ rw_state[m] = "RW_RAddr"
     /\ burst_count' = [burst_count EXCEPT ![m] = IF "rdat" \in min[m] /\ ~last THEN @ - 1 ELSE @]
     /\ Ends(m, left)
     /\ got' = [got EXCEPT ![m] = IF left = {} THEN <<>> ELSE Received(m)]
     /\ UNCHANGED dout

\* The words follow one a clock once address and data have been told ready.
SetupBurst(m) ==
  LET told == "waddr" \in min[m] \/ "waddr" \notin out[m]
      go   == told /\ "wdat" \in min[m]
  IN /\ rw_state[m] = "RW_WBurstSetup"
     /\ out' = [out EXCEPT ![m] = IF go THEN {"wdat", "wres"} ELSE IF told THEN {} ELSE @]
     /\ dout' = [dout EXCEPT ![m] = IF go THEN req[m].words[1] ELSE @]
     /\ rw_state' = [rw_state EXCEPT ![m] = IF go THEN "RW_WAddr" ELSE @]
     /\ UNCHANGED <<req, burst_count, got, served>>

AwaitWrite(m) ==
  LET last == burst_count[m] = 0
      next == "wdat" \in out[m] \cap min[m] /\ ~last
      left == out[m] \ (min[m] \cap (IF last THEN WChan ELSE {"waddr", "wres"}))
      sent == req[m].len - burst_count[m]
  IN /\ rw_state[m] = "RW_WAddr"
     /\ dout' = [dout EXCEPT ![m] = IF next THEN req[m].words[sent + 2]
                                    ELSE IF "wdat" \in left THEN @ ELSE None]
     /\ burst_count' = [burst_count EXCEPT ![m] = IF next THEN @ - 1 ELSE @]
     /\ Ends(m, left)
     /\ UNCHANGED got

\* What fsm returns, !stalled: 1 when the operation is over, and in every clock in which
\* a burst is being set up, for stalled is not set there.
fsmReturns(m) == rw_state[m] = "RW_WBurstSetup" \/ rw_state'[m] = "RW_Init"

MasterFsm(m) ==
  /\ Call(m + 1)
  /\ MasterIdle(m) \/ AwaitRead(m) \/ SetupBurst(m) \/ AwaitWrite(m)
  /\ UNCHANGED <<rvars, wvars, cvars>>
MasterStarts(m, op) ==
  /\ Call(m + 1)
  /\ Issue(m, op)
  /\ UNCHANGED <<rvars, wvars, cvars>>

-----------------------------------------------------------------------------
(* CTRL::connectChannel *)

ReadRequests == {m \in Masters : "raddr" \in out[m] /\ rowner = None /\ "rdat" \notin rout}
WriteRequests == {m \in Masters : "waddr" \in out[m] /\ wowner = None /\ "wres" \notin wout}

\* arbitrate: the first from rr on, else the first of all.
Grant(reqs, rr) ==
  LET late == {m \in reqs : m >= rr}
      from == IF late = {} THEN reqs ELSE late
  IN IF reqs = {} THEN None ELSE CHOOSE m \in from : \A k \in from : m <= k
Turned(grant, rr) == IF grant = None THEN rr ELSE (rr + 1) % MC

\* updateMRStat, updateMWStat: with the last word, or the response, the slave
\* is given back, but connected once more.
ReadOver  == rowner # None /\ "rdat" \in out[rowner] /\ "last" \in rout
WriteOver == wowner # None /\ "wres" \in out[wowner] /\ "wres" \in wout

ConnectChannel ==
  LET rgrant == Grant(ReadRequests, roundRobinRVal)
      wgrant == Grant(WriteRequests, roundRobinWVal)
      rc == IF rgrant # None THEN rgrant ELSE rowner
      wc == IF wgrant # None THEN wgrant ELSE wowner
  IN /\ Call(MC + 1)
     /\ rconn' = rc /\ wconn' = wc
     /\ rowner' = IF ReadOver THEN None ELSE rc
     /\ wowner' = IF WriteOver THEN None ELSE wc
     /\ roundRobinRVal' = Turned(rgrant, roundRobinRVal)
     /\ roundRobinWVal' = Turned(wgrant, roundRobinWVal)
     /\ min' = [m \in Masters |-> (IF m = rc THEN rout ELSE {}) \cup (IF m = wc THEN wout ELSE {})]
     /\ mdata' = [m \in Masters |-> IF m = rc THEN rdata ELSE None]
     /\ UNCHANGED <<mvars, rvars, wvars, served>>

-----------------------------------------------------------------------------
Words == Int \cup {None}
BusTypeOK ==
  /\ turn \in 0 .. MC + 1
  /\ \A m \in Masters :
       /\ rw_state[m] \in {"RW_Init", "RW_RAddr", "RW_WBurstSetup", "RW_WAddr"}
       /\ out[m] \subseteq RChan \cup WChan /\ min[m] \subseteq RChan \cup WChan \cup {"last"}
       /\ burst_count[m] \in Nat /\ dout[m] \in Words /\ mdata[m] \in Words
       /\ rw_state[m] = "RW_Init" => out[m] = {} /\ req[m] = None /\ dout[m] = None
  /\ r_state \in {"R_Init", "R_Addr", "R_End"} /\ w_state \in {"W_Init", "W_AddrData", "W_End"}
  /\ rout \subseteq RChan \cup {"last"} /\ wout \subseteq WChan /\ rdata \in Words
  /\ {raddr_end, burst_end_r, waddr_end, wres_end, writeBurstMode} \subseteq BOOLEAN
  /\ burst_count_r \in Nat /\ burst_count_w \in Nat
  /\ {rowner, wowner, rconn, wconn} \subseteq Masters \cup {None}
  /\ {roundRobinRVal, roundRobinWVal} \subseteq Masters

\* Property: a transfer that is over is whole.  A master that has read has received, in
\* order, exactly the words the device gave for it, as many as it asked for; one that
\* has written has had its words taken by the device once each, in order, though nothing
\* in a burst tells the slave which word it is shown.  A transfer longer than the slave
\* can count, whose end comes too early there, is never over.  What fsm returns tells
\* this to the caller, except that it returns 1, too, while a burst is being set up,
\* before any word has moved (the caches of the library count words instead:
\* cacheTemplate.h:350, 406).
BurstIsWhole(m) ==
  turn = m + 1 /\ req[m] # None /\ fsmReturns(m) =>
    IF rw_state[m] = "RW_WBurstSetup" THEN served[m] = <<>>
    ELSE /\ req[m].len < CountMod
         /\ IF req[m].kind = "Read"
            THEN Received(m) = served[m] /\ Len(served[m]) = req[m].len + 1
            ELSE served[m] = req[m].words
BurstsWhole == [][\A m \in Masters : BurstIsWhole(m)]_busvars
=============================================================================
