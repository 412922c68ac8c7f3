------------------------------- MODULE AxiBus -------------------------------
(***************************************************************************)
(* The AXI4-Lite interconnect of the SoC (rv32_io.h, rv32_io.cpp): the     *)
(* master state machine of a core, the slave state machine of a device,    *)
(* and the bus controller that arbitrates and connects their channels.     *)
(*                                                                         *)
(* A clock is one call of every component in the order of RV32I_SOC_ARCH1: *)
(* for each slave fsmRead then fsmWrite, each master's fsm, and            *)
(* connectChannel.  turn says whose call is next.  A component sees the    *)
(* signals connectChannel copied to it in the previous clock.              *)
(*                                                                         *)
(* An asserted valid or ready bit is the name of its channel in a set.     *)
(* Bursts are left out: RV_AXI4_Master::fsm always sets burst_length = 0,  *)
(* so a slave's rdat.last is its rdat.valid.  So is the retry on a bad     *)
(* response: no device of the SoC sets mutexError.                         *)
(***************************************************************************)
EXTENDS Integers, Sequences

CONSTANTS MC,     \* NUM_MASTERS
          SC,     \* NUM_SLAVES
          Data,   \* the words
          None    \* no master, no slave, no word

ASSUME CountsAssumption == MC \in Nat \ {0} /\ SC \in Nat \ {0}
ASSUME NoneAssumption == None \notin Int /\ None \notin Data

Masters == 0 .. MC - 1
Slaves  == 0 .. SC - 1
Addr    == 0 .. SC        \* SC stands for every address no device decodes

RChan == {"raddr", "rdat"}
WChan == {"waddr", "wdat", "wres"}

Requests == [kind : {"Read"}, addr : Addr, data : {None}]
            \cup [kind : {"Write"}, addr : Addr, data : Data]

ASSUME NoneIsNoRequest == None \notin Requests

VARIABLES
  turn,
  \* MasterFSM: state, operation held by the core, asserted outputs
  rw_state, req, out,
  \* the slave signals on each master's channel, and the word read
  min, mdata,
  \* the word latched for the core (data_latched, IO::latched_data)
  got,
  \* SlaveFSM: states and registered outputs.  The read outputs rout, rdata
  \* reach the channel (rdrv, rword) one clock later, the write outputs at once.
  r_state, w_state, rout, wout, rdrv, rdata, rword, raddr_end, waddr_end,
  wres_end,
  \* CTRL: which slave a master owns, which slaves are owned, round robin
  MRStat, MWStat, SRStat, SWStat, roundRobinRVal, roundRobinWVal,
  \* the master whose signals connectChannel last put on a slave's channel
  rconn, wconn,
  \* history: whose address a slave latched, the accesses made for an operation
  rfor, wfor, served

mvars == <<rw_state, req, out, got>>
rvars == <<r_state, rout, rdrv, rdata, rword, raddr_end, rfor>>
wvars == <<w_state, wout, waddr_end, wres_end, wfor>>
cvars == <<MRStat, MWStat, SRStat, SWStat, roundRobinRVal, roundRobinWVal,
           rconn, wconn, min, mdata>>
vars  == <<turn, mvars, rvars, wvars, cvars, served>>

\* One clock: calls 0 .. Calls - 1.
Calls == 2 * SC + MC + 1
Call(k) == turn = k /\ turn' = IF k + 1 = Calls THEN 0 ELSE k + 1

Init ==
  /\ turn = 0
  /\ rw_state = [m \in Masters |-> "RW_Init"]
  /\ req = [m \in Masters |-> None]
  /\ out = [m \in Masters |-> {}]
  /\ got = [m \in Masters |-> None]
  /\ min = [m \in Masters |-> {}]
  /\ mdata = [m \in Masters |-> None]
  /\ r_state = [s \in Slaves |-> "R_Init"]
  /\ w_state = [s \in Slaves |-> "W_Init"]
  /\ rout = [s \in Slaves |-> {}]
  /\ rdrv = [s \in Slaves |-> {}]
  /\ wout = [s \in Slaves |-> {}]
  /\ rdata = [s \in Slaves |-> None]
  /\ rword = [s \in Slaves |-> None]
  /\ raddr_end = [s \in Slaves |-> FALSE]
  /\ waddr_end = [s \in Slaves |-> FALSE]
  /\ wres_end = [s \in Slaves |-> FALSE]
  /\ MRStat = [m \in Masters |-> None]
  /\ MWStat = [m \in Masters |-> None]
  /\ SRStat = [s \in Slaves |-> FALSE]
  /\ SWStat = [s \in Slaves |-> FALSE]
  /\ roundRobinRVal = 0 /\ roundRobinWVal = 0
  /\ rconn = [s \in Slaves |-> None]
  /\ wconn = [s \in Slaves |-> None]
  /\ rfor = [s \in Slaves |-> None]
  /\ wfor = [s \in Slaves |-> None]
  /\ served = [m \in Masters |-> <<>>]

-----------------------------------------------------------------------------
(* SlaveFSM::fsmRead *)

\* The master's signals as the slave's channel carries them.
RSees(s, ch) == rconn[s] # None /\ ch \in out[rconn[s]]
WSees(s, ch) == wconn[s] # None /\ ch \in out[wconn[s]]

Serve(m, s, d) ==
  served' = [served EXCEPT ![m] = Append(@, [dev |-> s, data |-> d])]

ReadIdle(s) ==
  /\ r_state[s] = "R_Init" /\ ~RSees(s, "raddr")
  /\ UNCHANGED <<r_state, rout, rdata, raddr_end, rfor, served>>

ReadAccept(s) ==
  /\ r_state[s] = "R_Init" /\ RSees(s, "raddr")
  /\ r_state' = [r_state EXCEPT ![s] = "R_Addr"]
  /\ rout' = [rout EXCEPT ![s] = @ \cup {"raddr"}]
  /\ raddr_end' = [raddr_end EXCEPT ![s] = FALSE]
  /\ rfor' = [rfor EXCEPT ![s] = rconn[s]]
  /\ UNCHANGED <<rdata, served>>

\* devRead says no: a UART data register with nothing received.
ReadWait(s) ==
  /\ r_state[s] = "R_Addr" /\ "rdat" \notin rout[s]
  /\ rout' = [rout EXCEPT ![s] = @ \ {"raddr"}]
  /\ raddr_end' = [raddr_end EXCEPT ![s] = @ \/ ~RSees(s, "raddr")]
  /\ UNCHANGED <<r_state, rdata, rfor, served>>

\* devRead answers d, or its answer is already out and waits for the master.
ReadAnswer(s, d) ==
  /\ r_state[s] = "R_Addr"
  /\ rout' = [rout EXCEPT ![s] = {"rdat"}]
  /\ raddr_end' = [raddr_end EXCEPT ![s] = @ \/ ~RSees(s, "raddr")]
  /\ IF "rdat" \in rout[s]
     THEN UNCHANGED <<rdata, served>>
     ELSE rdata' = [rdata EXCEPT ![s] = d] /\ Serve(rfor[s], s, d)
  /\ r_state' = [r_state EXCEPT ![s] = IF RSees(s, "rdat") THEN "R_End" ELSE @]
  /\ UNCHANGED rfor

\* Mutation of ReadEnd: the answer stays on the channel.
ReadEndHeld(s) ==
  LET over == raddr_end[s] \/ ~RSees(s, "raddr")
  IN  /\ r_state[s] = "R_End"
      /\ r_state' = [r_state EXCEPT ![s] = IF over THEN "R_Init" ELSE @]
      /\ rfor' = [rfor EXCEPT ![s] = IF over THEN None ELSE @]
      /\ raddr_end' = [raddr_end EXCEPT ![s] = @ /\ ~over]
      /\ UNCHANGED <<rout, rdata, served>>

\* The slave waits for the master to take its address away.  raddr_end, and
\* the flags of a write, mean nothing between two accesses: the code clears
\* them when the next one starts, the model when this one is over.
ReadEnd(s) ==
  LET over == raddr_end[s] \/ ~RSees(s, "raddr")
  IN  /\ r_state[s] = "R_End"
      /\ rout' = [rout EXCEPT ![s] = @ \ {"rdat"}]
      /\ rdata' = [rdata EXCEPT ![s] = None]
      /\ r_state' = [r_state EXCEPT ![s] = IF over THEN "R_Init" ELSE @]
      /\ rfor' = [rfor EXCEPT ![s] = IF over THEN None ELSE @]
      /\ raddr_end' = [raddr_end EXCEPT ![s] = @ /\ ~over]
      /\ UNCHANGED served

\* setSLRead comes first: the channel carries the outputs of the last clock.
fsmRead(s) ==
  /\ Call(2 * s)
  /\ rdrv' = [rdrv EXCEPT ![s] = rout[s]]
  /\ rword' = [rword EXCEPT ![s] = rdata[s]]
  /\ \/ ReadIdle(s) \/ ReadAccept(s) \/ ReadWait(s) \/ ReadEnd(s)
     \/ \E d \in Data : ReadAnswer(s, d)
  /\ UNCHANGED <<mvars, wvars, cvars>>

-----------------------------------------------------------------------------
(* SlaveFSM::fsmWrite *)

WriteIdle(s) ==
  /\ w_state[s] = "W_Init" /\ ~WSees(s, "waddr")
  /\ UNCHANGED <<wvars, served>>

WriteAccept(s) ==
  /\ w_state[s] = "W_Init" /\ WSees(s, "waddr")
  /\ w_state' = [w_state EXCEPT ![s] = "W_AddrData"]
  /\ wout' = [wout EXCEPT ![s] = @ \cup {"waddr"}]
  /\ waddr_end' = [waddr_end EXCEPT ![s] = FALSE]
  /\ wfor' = [wfor EXCEPT ![s] = wconn[s]]
  /\ UNCHANGED <<wres_end, served>>

\* No data yet, or devWrite says no: a UART whose transmit buffer is full.
WriteWait(s) ==
  /\ w_state[s] = "W_AddrData"
  /\ wout' = [wout EXCEPT ![s] = @ \ {"waddr"}]
  /\ waddr_end' = [waddr_end EXCEPT ![s] = @ \/ ~WSees(s, "waddr")]
  /\ UNCHANGED <<w_state, wres_end, wfor, served>>

WriteData(s) ==
  /\ w_state[s] = "W_AddrData" /\ WSees(s, "wdat")
  /\ w_state' = [w_state EXCEPT ![s] = "W_End"]
  /\ wout' = [wout EXCEPT ![s] = {"wdat", "wres"}]
  /\ waddr_end' = [waddr_end EXCEPT ![s] = @ \/ ~WSees(s, "waddr")]
  /\ wres_end' = [wres_end EXCEPT ![s] = FALSE]
  /\ Serve(wfor[s], s, req[wconn[s]].data)
  /\ UNCHANGED wfor

WriteEnd(s) ==
  LET taken == wres_end[s] \/ WSees(s, "wres")
      over  == taken /\ (waddr_end[s] \/ ~WSees(s, "waddr"))
  IN  /\ w_state[s] = "W_End"
      /\ wres_end' = [wres_end EXCEPT ![s] = taken /\ ~over]
      /\ wout' = [wout EXCEPT ![s] = IF over THEN {} ELSE {"wres"}]
      /\ w_state' = [w_state EXCEPT ![s] = IF over THEN "W_Init" ELSE @]
      /\ wfor' = [wfor EXCEPT ![s] = IF over THEN None ELSE @]
      /\ waddr_end' = [waddr_end EXCEPT ![s] = @ /\ ~over]
      /\ UNCHANGED served

fsmWrite(s) ==
  /\ Call(2 * s + 1)
  /\ \/ WriteIdle(s) \/ WriteAccept(s) \/ WriteWait(s) \/ WriteData(s)
     \/ WriteEnd(s)
  /\ UNCHANGED <<mvars, rvars, cvars>>

-----------------------------------------------------------------------------
(* MasterFSM::fsm, called by RV_AXI4_Master::fsm *)

MasterIdle(m) ==
  /\ rw_state[m] = "RW_Init"
  /\ UNCHANGED <<mvars, served>>

\* The core's load or store: address, data and both or all three handshakes
\* are put out at once.
Issue(m, r) ==
  /\ rw_state[m] = "RW_Init"
  /\ rw_state' = [rw_state EXCEPT ![m] =
                    IF r.kind = "Read" THEN "RW_RAddr" ELSE "RW_WAddr"]
  /\ req' = [req EXCEPT ![m] = r]
  /\ out' = [out EXCEPT ![m] = IF r.kind = "Read" THEN RChan ELSE WChan]
  /\ got' = [got EXCEPT ![m] = None]
  /\ UNCHANGED served

\* Mutation of Handshake: the address stays out after the slave has taken it.
HandshakeKeepsAddr(m, chans) ==
  LET left == out[m] \ ((min[m] \cap chans) \ {"raddr", "waddr"})
      ends == left \ {"raddr", "waddr"} = {}
  IN  /\ out' = [out EXCEPT ![m] = left]
      /\ rw_state' = [rw_state EXCEPT ![m] = IF ends THEN "RW_Init" ELSE @]
      /\ UNCHANGED req
      /\ served' = [served EXCEPT ![m] = IF ends THEN <<>> ELSE @]

\* Every handshake the slave completes withdraws its output (the in registers
\* hold the same bits the other way up); when all are done the core goes on.
Handshake(m, chans) ==
  LET left == out[m] \ (min[m] \cap chans)
      ends == left = {}
  IN  /\ out' = [out EXCEPT ![m] = left]
      /\ rw_state' = [rw_state EXCEPT ![m] = IF ends THEN "RW_Init" ELSE @]
      /\ req' = [req EXCEPT ![m] = IF ends THEN None ELSE @]
      /\ served' = [served EXCEPT ![m] = IF ends THEN <<>> ELSE @]

AwaitRead(m) ==
  /\ rw_state[m] = "RW_RAddr"
  /\ Handshake(m, RChan)
  /\ got' = [got EXCEPT ![m] = IF "rdat" \in min[m] THEN mdata[m] ELSE @]

AwaitWrite(m) ==
  /\ rw_state[m] = "RW_WAddr"
  /\ Handshake(m, WChan)
  /\ UNCHANGED got

MasterFsm(m) ==
  /\ Call(2 * SC + m)
  /\ \/ MasterIdle(m) \/ AwaitRead(m) \/ AwaitWrite(m)
     \/ \E r \in Requests : Issue(m, r)
  /\ UNCHANGED <<rvars, wvars, cvars>>

-----------------------------------------------------------------------------
(* CTRL::connectChannel *)

\* An address nobody decodes goes to the first UART.
decodeAddr(a) == IF a \in Slaves THEN a ELSE 0

Device(r) == decodeAddr(r.addr)
Target(m) == Device(req[m])

\* Mutation of ReadRequested: a slave that another master owns is asked.
ReadRequestedBusy(m) ==
  /\ MRStat[m] = None /\ "raddr" \in out[m]
  /\ "rdat" \notin rdrv[Target(m)]

\* checkMRReq, checkMWReq: a master without a slave asks for one that is
\* neither owned nor still answering.
ReadRequested(m) ==
  /\ MRStat[m] = None /\ "raddr" \in out[m]
  /\ ~SRStat[Target(m)] /\ "rdat" \notin rdrv[Target(m)]

WriteRequested(m) ==
  /\ MWStat[m] = None /\ "waddr" \in out[m]
  /\ ~SWStat[Target(m)] /\ "wres" \notin wout[Target(m)]

\* Mutation of NextRR: one past the last master.
NextRRPast(rr) == IF rr < MC THEN rr + 1 ELSE 0

NextRR(rr) == IF rr < MC - 1 THEN rr + 1 ELSE 0

\* arbitrate looks at masters rr .. MC-1 first, then at all from 0.
Before(j, k, rr) == \/ j >= rr /\ k < rr
                    \/ (j >= rr <=> k >= rr) /\ j < k

\* Mutation of Granted: a requester must come before itself, too.
GrantedBeforeAll(reqs, rr) ==
  {m \in reqs : \A k \in reqs : Target(k) = Target(m) => Before(m, k, rr)}

\* arbitrateMR, arbitrateMW: the first requester of each slave.
Granted(reqs, rr) ==
  {m \in reqs : \A k \in reqs : Target(k) = Target(m) => ~Before(k, m, rr)}

\* The last master the connection loop joins to slave s.
Joined(link, s) ==
  IF \E m \in Masters : link[m] = s
  THEN CHOOSE m \in Masters : /\ link[m] = s
                              /\ \A k \in Masters : link[k] = s => k <= m
  ELSE None

ReadGrants  == Granted({m \in Masters : ReadRequested(m)}, roundRobinRVal)
WriteGrants == Granted({m \in Masters : WriteRequested(m)}, roundRobinWVal)

\* updateMRStat, updateMWStat: a grant connects from this clock on, the answer
\* of the slave connects for the last time.
ReadLink == [m \in Masters |-> IF m \in ReadGrants THEN Target(m) ELSE MRStat[m]]
WriteLink == [m \in Masters |-> IF m \in WriteGrants THEN Target(m) ELSE MWStat[m]]

ReadReleases ==
  {m \in Masters \ ReadGrants :
     /\ MRStat[m] # None
     /\ "rdat" \in out[m] /\ "rdat" \in rdrv[MRStat[m]]}

WriteReleases ==
  {m \in Masters \ WriteGrants :
     /\ MWStat[m] # None
     /\ "wres" \in out[m] /\ "wres" \in wout[MWStat[m]]}

\* The ownership tables after the grants and the releases of one clock.
Owner(link, releases) ==
  [m \in Masters |-> IF m \in releases THEN None ELSE link[m]]
Owned(stat, link, grants, releases) ==
  [s \in Slaves |-> \/ \E m \in grants : link[m] = s
                    \/ stat[s] /\ \A m \in releases : link[m] # s]

ConnectChannel ==
  /\ Call(2 * SC + MC)
  /\ MRStat' = Owner(ReadLink, ReadReleases)
  /\ MWStat' = Owner(WriteLink, WriteReleases)
  /\ SRStat' = Owned(SRStat, ReadLink, ReadGrants, ReadReleases)
  /\ SWStat' = Owned(SWStat, WriteLink, WriteGrants, WriteReleases)
  /\ roundRobinRVal' = IF ReadGrants # {} THEN NextRR(roundRobinRVal)
                                          ELSE roundRobinRVal
  /\ roundRobinWVal' = IF WriteGrants # {} THEN NextRR(roundRobinWVal)
                                           ELSE roundRobinWVal
  /\ rconn' = [s \in Slaves |-> Joined(ReadLink, s)]
  /\ wconn' = [s \in Slaves |-> Joined(WriteLink, s)]
  /\ min' = [m \in Masters |->
               (IF ReadLink[m] = None THEN {} ELSE rdrv[ReadLink[m]]) \cup
               (IF WriteLink[m] = None THEN {} ELSE wout[WriteLink[m]])]
  /\ mdata' = [m \in Masters |->
                 IF ReadLink[m] = None THEN None ELSE rword[ReadLink[m]]]
  /\ UNCHANGED <<mvars, rvars, wvars, served>>

Next == \/ \E s \in Slaves : fsmRead(s) \/ fsmWrite(s)
        \/ \E m \in Masters : MasterFsm(m)
        \/ ConnectChannel

Spec == Init /\ [][Next]_vars

\* The clock never stops.  A device that is asked for a word or offered one
\* again and again gives or takes it in the end: GPIO and the status and
\* control registers at once, a UART when the line delivers or drains.
ReadAnswers(s) == fsmRead(s) /\ \E d \in Data : ReadAnswer(s, d)
WriteTakes(s) == fsmWrite(s) /\ WriteData(s)

FairSpec == /\ Spec
            /\ WF_vars(Next)
            /\ \A s \in Slaves : SF_vars(ReadAnswers(s)) /\ SF_vars(WriteTakes(s))

-----------------------------------------------------------------------------
Transaction ==
  INSTANCE BusTransaction
  WITH op <- [m \in Masters |-> IF rw_state[m] = "RW_Init" THEN None ELSE req[m]],
       served <- served,
       result <- [m \in Masters |-> IF rw_state[m] = "RW_Init" THEN got[m] ELSE None],
       Device <- Device

Asserted == SUBSET (RChan \cup WChan)
Word     == Data \cup {None}

MasterType ==
  /\ rw_state \in [Masters -> {"RW_Init", "RW_RAddr", "RW_WAddr"}]
  /\ req \in [Masters -> Requests \cup {None}]
  /\ out \in [Masters -> Asserted]
  /\ got \in [Masters -> Word]
  /\ served \in [Masters -> Seq([dev : Slaves, data : Data])]

ReadType ==
  /\ r_state \in [Slaves -> {"R_Init", "R_Addr", "R_End"}]
  /\ rout \in [Slaves -> SUBSET RChan] /\ rdrv \in [Slaves -> SUBSET RChan]
  /\ rdata \in [Slaves -> Word] /\ rword \in [Slaves -> Word]
  /\ raddr_end \in [Slaves -> BOOLEAN]
  /\ rfor \in [Slaves -> Masters \cup {None}]

WriteType ==
  /\ w_state \in [Slaves -> {"W_Init", "W_AddrData", "W_End"}]
  /\ wout \in [Slaves -> SUBSET WChan]
  /\ waddr_end \in [Slaves -> BOOLEAN] /\ wres_end \in [Slaves -> BOOLEAN]
  /\ wfor \in [Slaves -> Masters \cup {None}]

BusType ==
  /\ min \in [Masters -> Asserted] /\ mdata \in [Masters -> Word]
  /\ MRStat \in [Masters -> Slaves \cup {None}]
  /\ MWStat \in [Masters -> Slaves \cup {None}]
  /\ SRStat \in [Slaves -> BOOLEAN] /\ SWStat \in [Slaves -> BOOLEAN]
  /\ roundRobinRVal \in Masters /\ roundRobinWVal \in Masters
  /\ rconn \in [Slaves -> Masters \cup {None}]
  /\ wconn \in [Slaves -> Masters \cup {None}]

\* Type correctness.
TypeOK == /\ turn \in 0 .. Calls - 1
          /\ MasterType /\ ReadType /\ WriteType /\ BusType

\* What a master asserts always belongs to the operation its state machine is
\* in: nothing when it waits for the core, no write handshake during a load, no
\* read handshake during a store.  A valid bit left over from the last operation
\* would start an access the core never asked for.
OutputsMatchState ==
  \A m \in Masters :
    /\ rw_state[m] = "RW_Init" => out[m] = {}
    /\ rw_state[m] = "RW_RAddr" =>
         out[m] \in SUBSET RChan /\ req[m] \in Requests /\ req[m].kind = "Read"
    /\ rw_state[m] = "RW_WAddr" =>
         out[m] \in SUBSET WChan /\ req[m] \in Requests /\ req[m].kind = "Write"

\* The two ownership tables tell the same story: a slave is marked owned
\* exactly when one master owns it, and never two.
Agree(mstat, sstat) ==
  /\ \A s \in Slaves : sstat[s] <=> \E m \in Masters : mstat[m] = s
  /\ \A m, k \in Masters : mstat[m] = mstat[k] /\ mstat[m] # None => m = k

\* Whatever is requested, granted and released in one clock, no slave's read or
\* write channel ever has two masters, and none is left marked owned by nobody.
OwnershipAgrees == Agree(MRStat, SRStat) /\ Agree(MWStat, SWStat)

\* Over any interleaving of masters, slow devices and arbitration, an operation
\* makes one access to the addressed device and a load returns that access's
\* word.
ExactlyOneAccess == Transaction!Spec

\* Every operation ends: arbitration starves nobody and the withdrawal of the
\* handshakes never leaves master and slave waiting for each other.
EveryOperationEnds ==
  \A m \in Masters : rw_state[m] # "RW_Init" ~> rw_state[m] = "RW_Init"
=============================================================================
