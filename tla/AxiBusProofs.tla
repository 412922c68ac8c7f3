---------------------------- MODULE AxiBusProofs ----------------------------
(***************************************************************************)
(* Proofs about the interconnect, for any number of masters and slaves and *)
(* any words: its registers keep their types, a master asserts only what   *)
(* its operation calls for, a slave's channel never has two masters, and   *)
(* every operation is one access of the addressed device.                  *)
(***************************************************************************)
EXTENDS AxiBus, TLAPS

\* TypeOK is not inductive alone: a device could be handed the None of a load
\* as the word of a store, which OutputsMatchState excludes, and the highest
\* of several masters joined to one slave would have to exist, which
\* OwnershipAgrees makes trivial.
IInv == TypeOK /\ OutputsMatchState /\ OwnershipAgrees

-----------------------------------------------------------------------------
\* An address goes to some slave, whatever it is.
LEMMA DecodeInRange == \A a : decodeAddr(a) \in Slaves
  BY CountsAssumption DEF decodeAddr, Slaves

LEMMA TargetInRange == \A m : Target(m) \in Slaves
  BY DecodeInRange DEF Target, Device

\* A request is a load without a word or a store with one.
LEMMA RequestFields ==
  ASSUME NEW r \in Requests
  PROVE  /\ r.kind \in {"Read", "Write"}
         /\ r.kind = "Write" => r.data \in Data
  BY DEF Requests

LEMMA TurnType ==
  ASSUME NEW k \in 0 .. Calls - 1, Call(k)
  PROVE  turn' \in 0 .. Calls - 1
  BY CountsAssumption DEF Call, Calls

LEMMA CallsInRange ==
  /\ \A s \in Slaves : 2 * s \in 0 .. Calls - 1 /\ 2 * s + 1 \in 0 .. Calls - 1
  /\ \A m \in Masters : 2 * SC + m \in 0 .. Calls - 1
  /\ 2 * SC + MC \in 0 .. Calls - 1
  BY CountsAssumption DEF Calls, Slaves, Masters

\* Recording an access keeps the history well formed.
LEMMA ServeType ==
  ASSUME MasterType, NEW m, NEW s \in Slaves, NEW d \in Data, Serve(m, s, d)
  PROVE  served' \in [Masters -> Seq([dev : Slaves, data : Data])]
  <1> DEFINE S == [dev : Slaves, data : Data]
             e == [dev |-> s, data |-> d]
  <1>1. e \in S
    OBVIOUS
  <1>2. served \in [Masters -> Seq(S)]
    BY DEF MasterType
  <1>3. served' = [served EXCEPT ![m] = Append(@, e)]
    BY DEF Serve
  <1> HIDE DEF S, e
  <1>4. \A k \in Masters : Append(served[k], e) \in Seq(S)
    BY <1>1, <1>2
  <1>5. served' \in [Masters -> Seq(S)]
    BY <1>2, <1>3, <1>4
  <1> QED BY <1>5 DEF S

-----------------------------------------------------------------------------
LEMMA InitInv == Init => IInv
  <1> SUFFICES ASSUME Init PROVE IInv
    OBVIOUS
  <1>1. turn \in 0 .. Calls - 1
    BY CountsAssumption DEF Init, Calls
  <1>2. MasterType
    BY DEF Init, MasterType, Word, Asserted
  <1>3. ReadType
    BY DEF Init, ReadType, Word
  <1>4. WriteType
    BY DEF Init, WriteType
  <1>5. BusType
    BY CountsAssumption DEF Init, BusType, Word, Asserted, Masters
  <1>6. OutputsMatchState
    BY DEF Init, OutputsMatchState
  <1>7. OwnershipAgrees
    BY NoneAssumption DEF Init, OwnershipAgrees, Agree, Slaves
  <1> QED BY <1>1, <1>2, <1>3, <1>4, <1>5, <1>6, <1>7 DEF IInv, TypeOK

LEMMA ReadStep ==
  ASSUME IInv, NEW s \in Slaves, fsmRead(s)
  PROVE  IInv'
  <1> USE DEF IInv, TypeOK
  <1>1. turn' \in 0 .. Calls - 1
    BY CallsInRange, TurnType DEF fsmRead
  <1>2. UNCHANGED <<mvars, wvars, cvars>>
    BY DEF fsmRead
  <1>3. WriteType' /\ BusType' /\ OutputsMatchState' /\ OwnershipAgrees'
    BY <1>2 DEF WriteType, BusType, OutputsMatchState, OwnershipAgrees, Agree,
                mvars, wvars, cvars
  <1>4. rdrv' \in [Slaves -> SUBSET RChan] /\ rword' \in [Slaves -> Word]
    BY DEF fsmRead, ReadType
  <1>5. ReadType' /\ MasterType'
    <2>1. CASE ReadIdle(s)
      BY <1>2, <1>4, <2>1 DEF ReadIdle, ReadType, MasterType, mvars
    <2>2. CASE ReadAccept(s)
      <3>1. rconn[s] \in Masters \cup {None}
        BY DEF BusType
      <3> QED BY <1>2, <1>4, <2>2, <3>1
              DEF ReadAccept, ReadType, MasterType, mvars, RChan
    <2>3. CASE ReadWait(s)
      BY <1>2, <1>4, <2>3 DEF ReadWait, ReadType, MasterType, mvars, RSees
    <2>4. CASE ReadEnd(s)
      BY <1>2, <1>4, <2>4 DEF ReadEnd, ReadType, MasterType, mvars, RSees, Word
    <2>5. ASSUME NEW d \in Data, ReadAnswer(s, d)
          PROVE  ReadType' /\ MasterType'
      <3>1. /\ rdata' \in [Slaves -> Word]
            /\ served' \in [Masters -> Seq([dev : Slaves, data : Data])]
        <4>1. CASE "rdat" \in rout[s]
          BY <2>5, <4>1 DEF ReadAnswer, ReadType, MasterType
        <4>2. CASE "rdat" \notin rout[s]
          <5>1. rdata' = [rdata EXCEPT ![s] = d] /\ Serve(rfor[s], s, d)
            BY <2>5, <4>2 DEF ReadAnswer
          <5> QED BY <5>1, ServeType DEF ReadType, Word
        <4> QED BY <4>1, <4>2
      <3>2. MasterType'
        BY <1>2, <3>1 DEF MasterType, mvars
      <3>3. ReadType'
        BY <1>4, <2>5, <3>1 DEF ReadAnswer, ReadType, RChan, RSees
      <3> QED BY <3>2, <3>3
    <2> QED BY <2>1, <2>2, <2>3, <2>4, <2>5 DEF fsmRead
  <1> QED BY <1>1, <1>3, <1>5

LEMMA WriteStep ==
  ASSUME IInv, NEW s \in Slaves, fsmWrite(s)
  PROVE  IInv'
  <1> USE DEF IInv, TypeOK
  <1>1. turn' \in 0 .. Calls - 1
    BY CallsInRange, TurnType DEF fsmWrite
  <1>2. UNCHANGED <<mvars, rvars, cvars>>
    BY DEF fsmWrite
  <1>3. ReadType' /\ BusType' /\ OutputsMatchState' /\ OwnershipAgrees'
    BY <1>2 DEF ReadType, BusType, OutputsMatchState, OwnershipAgrees, Agree,
                mvars, rvars, cvars
  <1>4. WriteType' /\ MasterType'
    <2>1. CASE WriteIdle(s)
      BY <1>2, <2>1 DEF WriteIdle, WriteType, MasterType, mvars, wvars
    <2>2. CASE WriteAccept(s)
      <3>1. wconn[s] \in Masters \cup {None}
        BY DEF BusType
      <3> QED BY <1>2, <2>2, <3>1
              DEF WriteAccept, WriteType, MasterType, mvars, WChan
    <2>3. CASE WriteWait(s)
      BY <1>2, <2>3 DEF WriteWait, WriteType, MasterType, mvars, WSees
    <2>4. CASE WriteData(s)
      <3>1. PICK m \in Masters : m = wconn[s] /\ "wdat" \in out[m]
        BY <2>4 DEF WriteData, WSees, BusType
      <3>2. req[m] \in Requests /\ req[m].kind = "Write"
        <4>1. rw_state[m] \in {"RW_Init", "RW_RAddr", "RW_WAddr"}
          BY DEF MasterType
        <4>2. rw_state[m] # "RW_Init"
          BY <3>1 DEF OutputsMatchState
        <4>3. rw_state[m] # "RW_RAddr"
          BY <3>1 DEF OutputsMatchState, RChan
        <4> QED BY <4>1, <4>2, <4>3 DEF OutputsMatchState
      <3>3. req[m].data \in Data
        BY <3>2, RequestFields
      <3>4. served' \in [Masters -> Seq([dev : Slaves, data : Data])]
        BY <2>4, <3>1, <3>3, ServeType DEF WriteData
      <3> QED BY <1>2, <2>4, <3>4
              DEF WriteData, WriteType, MasterType, mvars, WChan, WSees
    <2>5. CASE WriteEnd(s)
      BY <1>2, <2>5 DEF WriteEnd, WriteType, MasterType, mvars, WSees, WChan
    <2> QED BY <2>1, <2>2, <2>3, <2>4, <2>5 DEF fsmWrite
  <1> QED BY <1>1, <1>3, <1>4

LEMMA EmptyIsSeq == \A S : <<>> \in Seq(S)
  OBVIOUS

LEMMA MasterStep ==
  ASSUME IInv, NEW m \in Masters, MasterFsm(m)
  PROVE  IInv'
  <1> USE DEF IInv, TypeOK
  <1>1. turn' \in 0 .. Calls - 1
    BY CallsInRange, TurnType DEF MasterFsm
  <1>2. UNCHANGED <<rvars, wvars, cvars>>
    BY DEF MasterFsm
  <1>3. ReadType' /\ WriteType' /\ BusType' /\ OwnershipAgrees'
    BY <1>2 DEF ReadType, WriteType, BusType, OwnershipAgrees, Agree,
                rvars, wvars, cvars
  <1>4. ASSUME NEW chans, Handshake(m, chans)
        PROVE  /\ rw_state' \in [Masters -> {"RW_Init", "RW_RAddr", "RW_WAddr"}]
               /\ req' \in [Masters -> Requests \cup {None}]
               /\ out' \in [Masters -> Asserted]
               /\ served' \in [Masters -> Seq([dev : Slaves, data : Data])]
               /\ OutputsMatchState'
    <2> DEFINE left == out[m] \ (min[m] \cap chans)
               S == Seq([dev : Slaves, data : Data])
    <2>1. /\ out' = [out EXCEPT ![m] = left]
          /\ rw_state' = [rw_state EXCEPT ![m] = IF left = {} THEN "RW_Init" ELSE @]
          /\ req' = [req EXCEPT ![m] = IF left = {} THEN None ELSE @]
          /\ served' = [served EXCEPT ![m] = IF left = {} THEN <<>> ELSE @]
      BY <1>4 DEF Handshake
    <2>2. left \in Asserted /\ left \subseteq out[m]
      BY DEF MasterType, Asserted
    <2>3. <<>> \in S /\ served \in [Masters -> S]
      BY EmptyIsSeq, Zenon DEF MasterType
    <2> HIDE DEF left, S
    <2>4. served' \in [Masters -> S]
      BY <2>1, <2>3
    <2>5. /\ rw_state' \in [Masters -> {"RW_Init", "RW_RAddr", "RW_WAddr"}]
          /\ req' \in [Masters -> Requests \cup {None}]
          /\ out' \in [Masters -> Asserted]
      <3>1. CASE left = {}
        BY <2>1, <2>2, <3>1 DEF MasterType
      <3>2. CASE left # {}
        BY <2>1, <2>2, <3>2 DEF MasterType
      <3> QED BY <3>1, <3>2
    <2>6. OutputsMatchState'
      <3>1. ASSUME NEW k \in Masters, k # m
            PROVE  rw_state'[k] = rw_state[k] /\ out'[k] = out[k] /\ req'[k] = req[k]
        BY <2>1, <3>1 DEF MasterType
      <3>2. /\ out'[m] = left /\ left \subseteq out[m]
            /\ rw_state'[m] = IF left = {} THEN "RW_Init" ELSE rw_state[m]
            /\ req'[m] = IF left = {} THEN None ELSE req[m]
        BY <2>1, <2>2 DEF MasterType
      <3>3. CASE left = {}
        BY <3>1, <3>2, <3>3 DEF OutputsMatchState
      <3>4. CASE left # {}
        BY <3>1, <3>2, <3>4 DEF OutputsMatchState
      <3> QED BY <3>3, <3>4
    <2> QED BY <2>4, <2>5, <2>6 DEF S
  <1>5. MasterType' /\ OutputsMatchState'
    <2>1. CASE MasterIdle(m)
      BY <2>1 DEF MasterIdle, mvars, MasterType, OutputsMatchState
    <2>2. CASE AwaitRead(m)
      <3>1. got' \in [Masters -> Word]
        BY <2>2 DEF AwaitRead, MasterType, BusType
      <3>2. Handshake(m, RChan)
        BY <2>2 DEF AwaitRead
      <3> QED BY <1>4, <3>1, <3>2 DEF MasterType
    <2>3. CASE AwaitWrite(m)
      <3>1. got' \in [Masters -> Word]
        BY <2>3 DEF AwaitWrite, MasterType
      <3>2. Handshake(m, WChan)
        BY <2>3 DEF AwaitWrite
      <3> QED BY <1>4, <3>1, <3>2 DEF MasterType
    <2>4. ASSUME NEW r \in Requests, Issue(m, r)
          PROVE  MasterType' /\ OutputsMatchState'
      <3>1. r.kind \in {"Read", "Write"}
        BY RequestFields
      <3>2. MasterType'
        BY <2>4 DEF Issue, MasterType, Asserted, Word
      <3>3. OutputsMatchState'
        BY <2>4, <3>1 DEF Issue, MasterType, OutputsMatchState
      <3> QED BY <3>2, <3>3
    <2> QED BY <2>1, <2>2, <2>3, <2>4 DEF MasterFsm
  <1> QED BY <1>1, <1>3, <1>5

-----------------------------------------------------------------------------
(* What one call of connectChannel computes. *)

LEMMA NextRRType ==
  ASSUME NEW rr \in Masters
  PROVE  NextRR(rr) \in Masters
  BY CountsAssumption DEF Masters, NextRR

\* No two masters are joined to one slave.
Injective(link) ==
  \A m, k \in Masters : link[m] = link[k] /\ link[m] # None => m = k

\* A slave's channel is then joined to a master or to nobody.
LEMMA JoinedType ==
  ASSUME NEW link, Injective(link), NEW s \in Slaves
  PROVE  Joined(link, s) \in Masters \cup {None}
  <1>1. CASE ~\E m \in Masters : link[m] = s
    BY <1>1 DEF Joined
  <1>2. CASE \E m \in Masters : link[m] = s
    <2>1. s # None
      BY NoneAssumption DEF Slaves
    <2>2. \E m \in Masters : /\ link[m] = s
                             /\ \A k \in Masters : link[k] = s => k <= m
      BY <1>2, <2>1 DEF Injective, Masters
    <2> QED BY <1>2, <2>2 DEF Joined
  <1> QED BY <1>1, <1>2

\* The round robin order is total, so a slave is granted to one requester.
LEMMA GrantUnique ==
  ASSUME NEW reqs \in SUBSET Masters, NEW rr \in Masters,
         NEW m \in Granted(reqs, rr), NEW k \in Granted(reqs, rr),
         Target(m) = Target(k)
  PROVE  m = k
  <1>1. m \in reqs /\ k \in reqs /\ ~Before(k, m, rr) /\ ~Before(m, k, rr)
    BY DEF Granted
  <1>2. m \in Int /\ k \in Int /\ rr \in Int
    BY <1>1 DEF Masters
  <1> QED BY <1>1, <1>2 DEF Before

\* One clock of arbitration, grants and releases, on either kind of channel,
\* keeps the two ownership tables in step.
LEMMA Arbitration ==
  ASSUME NEW mstat, NEW sstat, Agree(mstat, sstat),
         NEW reqs \in SUBSET Masters, NEW rr \in Masters,
         \A m \in reqs : mstat[m] = None /\ ~sstat[Target(m)],
         NEW grants, grants = Granted(reqs, rr),
         NEW releases \in SUBSET (Masters \ grants),
         NEW link,
         link = [m \in Masters |-> IF m \in grants THEN Target(m) ELSE mstat[m]]
  PROVE  /\ Injective(link)
         /\ Agree(Owner(link, releases), Owned(sstat, link, grants, releases))
  <1>1. /\ grants \in SUBSET Masters
        /\ \A m \in grants : /\ mstat[m] = None /\ ~sstat[Target(m)]
                             /\ link[m] = Target(m)
        /\ \A m \in Masters \ grants : link[m] = mstat[m]
    BY DEF Granted
  <1>2. \A s \in Slaves : s # None
    BY NoneAssumption DEF Slaves
  <1>3. Injective(link)
    <2> SUFFICES ASSUME NEW m \in Masters, NEW k \in Masters,
                        link[m] = link[k], link[m] # None
                 PROVE  m = k
      BY DEF Injective
    <2>1. CASE m \in grants /\ k \in grants
      BY <1>1, <2>1, GrantUnique
    <2>2. CASE m \notin grants /\ k \notin grants
      BY <1>1, <2>2 DEF Agree
    <2>3. CASE m \in grants /\ k \notin grants
      BY <1>1, <2>3, TargetInRange DEF Agree
    <2>4. CASE m \notin grants /\ k \in grants
      BY <1>1, <2>4, TargetInRange DEF Agree
    <2> QED BY <2>1, <2>2, <2>3, <2>4
  <1> DEFINE owner == Owner(link, releases)
             owned == Owned(sstat, link, grants, releases)
  <1>4. /\ \A m \in Masters : owner[m] = IF m \in releases THEN None ELSE link[m]
        /\ \A s \in Slaves : owned[s] <=>
             \/ \E m \in grants : link[m] = s
             \/ sstat[s] /\ \A m \in releases : link[m] # s
    BY DEF Owner, Owned
  <1> HIDE DEF owner, owned
  <1>5. ASSUME NEW m \in Masters, NEW k \in Masters,
               owner[m] = owner[k], owner[m] # None
        PROVE  m = k
    BY <1>3, <1>4, <1>5 DEF Injective
  <1>6. ASSUME NEW s \in Slaves, owned[s]
        PROVE  \E m \in Masters : owner[m] = s
    <2>1. CASE \E m \in grants : link[m] = s
      BY <1>1, <1>4, <2>1
    <2>2. CASE sstat[s] /\ \A m \in releases : link[m] # s
      <3>1. PICK m \in Masters : mstat[m] = s
        BY <2>2 DEF Agree
      <3>2. m \notin grants /\ link[m] = s
        BY <1>1, <1>2, <3>1
      <3> QED BY <1>4, <2>2, <3>2
    <2> QED BY <1>4, <1>6, <2>1, <2>2
  <1>7. ASSUME NEW s \in Slaves, NEW m \in Masters, owner[m] = s
        PROVE  owned[s]
    <2>1. m \notin releases /\ link[m] = s
      BY <1>2, <1>4, <1>7
    <2>2. CASE m \in grants
      BY <1>4, <2>1, <2>2
    <2>3. CASE m \notin grants
      <3>1. sstat[s]
        BY <1>1, <2>1, <2>3 DEF Agree
      <3>2. \A k \in releases : link[k] # s
        BY <1>2, <1>3, <2>1 DEF Injective
      <3> QED BY <1>4, <3>1, <3>2
    <2> QED BY <2>2, <2>3
  <1>8. Agree(owner, owned)
    BY <1>5, <1>6, <1>7 DEF Agree
  <1> QED BY <1>3, <1>8 DEF owner, owned

LEMMA ReadArbitration ==
  ASSUME IInv
  PROVE  /\ Injective(ReadLink)
         /\ Agree(Owner(ReadLink, ReadReleases),
                  Owned(SRStat, ReadLink, ReadGrants, ReadReleases))
  <1> DEFINE reqs == {m \in Masters : ReadRequested(m)}
  <1>1. \A m \in reqs : MRStat[m] = None /\ ~SRStat[Target(m)]
    BY DEF ReadRequested
  <1>2. ReadReleases \in SUBSET (Masters \ ReadGrants)
    BY DEF ReadReleases
  <1>3. Agree(MRStat, SRStat) /\ roundRobinRVal \in Masters
    BY DEF IInv, TypeOK, BusType, OwnershipAgrees
  <1>4. ReadGrants = Granted(reqs, roundRobinRVal)
    BY DEF ReadGrants
  <1>5. reqs \in SUBSET Masters
    OBVIOUS
  <1> HIDE DEF reqs
  <1> QED BY <1>1, <1>2, <1>3, <1>4, <1>5, Arbitration DEF ReadLink

LEMMA WriteArbitration ==
  ASSUME IInv
  PROVE  /\ Injective(WriteLink)
         /\ Agree(Owner(WriteLink, WriteReleases),
                  Owned(SWStat, WriteLink, WriteGrants, WriteReleases))
  <1> DEFINE reqs == {m \in Masters : WriteRequested(m)}
  <1>1. \A m \in reqs : MWStat[m] = None /\ ~SWStat[Target(m)]
    BY DEF WriteRequested
  <1>2. WriteReleases \in SUBSET (Masters \ WriteGrants)
    BY DEF WriteReleases
  <1>3. Agree(MWStat, SWStat) /\ roundRobinWVal \in Masters
    BY DEF IInv, TypeOK, BusType, OwnershipAgrees
  <1>4. WriteGrants = Granted(reqs, roundRobinWVal)
    BY DEF WriteGrants
  <1>5. reqs \in SUBSET Masters
    OBVIOUS
  <1> HIDE DEF reqs
  <1> QED BY <1>1, <1>2, <1>3, <1>4, <1>5, Arbitration DEF WriteLink

LEMMA ReadLinkType ==
  ASSUME IInv
  PROVE  ReadLink \in [Masters -> Slaves \cup {None}]
  BY TargetInRange DEF IInv, TypeOK, BusType, ReadLink

LEMMA WriteLinkType ==
  ASSUME IInv
  PROVE  WriteLink \in [Masters -> Slaves \cup {None}]
  BY TargetInRange DEF IInv, TypeOK, BusType, WriteLink

LEMMA ConnectStep ==
  ASSUME IInv, ConnectChannel
  PROVE  IInv'
  <1> USE DEF IInv, TypeOK
  <1>1. turn' \in 0 .. Calls - 1
    BY CallsInRange, TurnType DEF ConnectChannel
  <1>2. UNCHANGED <<mvars, rvars, wvars, served>>
    BY DEF ConnectChannel
  <1>3. MasterType' /\ ReadType' /\ WriteType' /\ OutputsMatchState'
    BY <1>2 DEF MasterType, ReadType, WriteType, OutputsMatchState,
                mvars, rvars, wvars
  <1>4. BusType'
    <2>1. /\ MRStat' \in [Masters -> Slaves \cup {None}]
          /\ MWStat' \in [Masters -> Slaves \cup {None}]
      BY ReadLinkType, WriteLinkType DEF ConnectChannel, Owner
    <2>2. SRStat' \in [Slaves -> BOOLEAN] /\ SWStat' \in [Slaves -> BOOLEAN]
      BY DEF ConnectChannel, Owned, BusType
    <2>3. roundRobinRVal' \in Masters /\ roundRobinWVal' \in Masters
      BY NextRRType DEF ConnectChannel, BusType
    <2>4. /\ rconn' \in [Slaves -> Masters \cup {None}]
          /\ wconn' \in [Slaves -> Masters \cup {None}]
      BY JoinedType, ReadArbitration, WriteArbitration DEF ConnectChannel
    <2>5. min' \in [Masters -> Asserted] /\ mdata' \in [Masters -> Word]
      <3>1. ASSUME NEW m \in Masters
            PROVE  /\ ReadLink[m] # None => rdrv[ReadLink[m]] \in SUBSET RChan
                   /\ WriteLink[m] # None => wout[WriteLink[m]] \in SUBSET WChan
                   /\ ReadLink[m] # None => rword[ReadLink[m]] \in Word
        BY ReadLinkType, WriteLinkType DEF ReadType, WriteType
      <3> QED BY <3>1 DEF ConnectChannel, Asserted, Word
    <2> QED BY <2>1, <2>2, <2>3, <2>4, <2>5 DEF BusType
  <1>5. OwnershipAgrees'
    BY ReadArbitration, WriteArbitration DEF ConnectChannel, OwnershipAgrees
  <1> QED BY <1>1, <1>3, <1>4, <1>5

LEMMA StutterStep ==
  ASSUME IInv, UNCHANGED vars
  PROVE  IInv'
  BY DEF IInv, TypeOK, MasterType, ReadType, WriteType, BusType,
         OutputsMatchState, OwnershipAgrees, Agree, vars, mvars, rvars, wvars, cvars

LEMMA NextInv == IInv /\ [Next]_vars => IInv'
  <1> SUFFICES ASSUME IInv, [Next]_vars PROVE IInv'
    OBVIOUS
  <1>1. CASE \E s \in Slaves : fsmRead(s) \/ fsmWrite(s)
    BY <1>1, ReadStep, WriteStep
  <1>2. CASE \E m \in Masters : MasterFsm(m)
    BY <1>2, MasterStep
  <1>3. CASE ConnectChannel
    BY <1>3, ConnectStep
  <1>4. CASE UNCHANGED vars
    BY <1>4, StutterStep
  <1> QED BY <1>1, <1>2, <1>3, <1>4 DEF Next

THEOREM Invariance == Spec => []IInv
  BY InitInv, NextInv, PTL DEF Spec

\* The registers of master, slaves and controller keep their types.
THEOREM TypeCorrect == Spec => []TypeOK
  BY Invariance, PTL DEF IInv

\* A master asserts only handshakes of the operation it is in.
THEOREM OutputsCorrect == Spec => []OutputsMatchState
  BY Invariance, PTL DEF IInv

\* Every slave's read and write channel has one owner or none, and is marked
\* accordingly, after any history of requests from any number of masters.
THEOREM OwnershipCorrect == Spec => []OwnershipAgrees
  BY Invariance, PTL DEF IInv

-----------------------------------------------------------------------------
(***************************************************************************)
(* Proof that the interconnect implements BusTransaction, for any number   *)
(* of masters and slaves and any words: an operation makes one access of   *)
(* the addressed device and a load returns the word of that access.        *)
(*                                                                         *)
(* The handshakes of one access take several clocks, and a slave has no    *)
(* way to tell a master's address of this access from one of the next: all *)
(* depends on the order in which both take their signals away.  The        *)
(* invariant Phases lists, for a slave and the master its channel is       *)
(* connected to, the combinations of states and signals that occur, by     *)
(* where the clock is: before the slave's call, between the slave's call   *)
(* and the master's, after the master's.  Each call takes a channel from a *)
(* combination of one list to one of the next; connectChannel closes the   *)
(* circle, and connects only a free slave to a master that has just issued *)
(* its operation.                                                          *)
(***************************************************************************)
-----------------------------------------------------------------------------
\* The k-th call of this clock has been made.
Called(k) == turn > k

\* The read wires between slave s and master m.
RWires(s, m, o, d, a, i) ==
  rout[s] = o /\ rdrv[s] = d /\ out[m] = a /\ min[m] = i

\* The address or the data handshake of a read alone.
RA == {"raddr"}
RD == {"rdat"}

\* The accesses made for m's operation: one, of slave s, or none yet.
Accessed(m, s, d) == served[m] = <<[dev |-> s, data |-> d]>>
Untouched(m) == served[m] = <<>>

\* While the master holds its address the slave has not seen it withdrawn.
AddrHeld(s, m) ==
  r_state[s] # "R_Init" /\ "raddr" \in out[m] => raddr_end[s] = FALSE

\* Waiting for the address, for the device, answering, and answered: the
\* stages of a read of s by m when the slave's call is next.
ReadBefore(s, m) ==
  /\ rw_state[m] = "RW_RAddr" /\ Target(m) = s /\ AddrHeld(s, m)
  /\ \/ /\ r_state[s] = "R_Init" /\ rfor[s] = None /\ MRStat[m] = s /\ Untouched(m)
        /\ RWires(s, m, {}, {}, RChan, {})
     \/ /\ r_state[s] = "R_Addr" /\ rfor[s] = m /\ MRStat[m] = s /\ Untouched(m)
        /\ \/ RWires(s, m, RA, {}, RChan, {})
           \/ RWires(s, m, {}, RA, RChan, RA)
           \/ RWires(s, m, {}, {}, RD, {})
     \/ /\ r_state[s] = "R_End" /\ rfor[s] = m /\ MRStat[m] = s
        /\ Accessed(m, s, rdata[s])
        /\ \/ RWires(s, m, RD, RA, RChan, RA)
           \/ RWires(s, m, RD, {}, RD, {})
     \/ /\ \/ r_state[s] = "R_End" /\ rfor[s] = m
           \/ r_state[s] = "R_Init" /\ rfor[s] = None
        /\ MRStat[m] = None /\ Accessed(m, s, mdata[m])
        /\ RWires(s, m, {}, RD, RD, RD)

\* The same stages between the slave's call and the master's.
ReadDuring(s, m) ==
  /\ rw_state[m] = "RW_RAddr" /\ Target(m) = s /\ AddrHeld(s, m)
  /\ \/ /\ r_state[s] = "R_Addr" /\ rfor[s] = m /\ MRStat[m] = s /\ Untouched(m)
        /\ \/ RWires(s, m, RA, {}, RChan, {})
           \/ RWires(s, m, {}, RA, RChan, {})
           \/ RWires(s, m, {}, {}, RChan, RA)
           \/ RWires(s, m, {}, {}, RD, {})
     \/ /\ r_state[s] = "R_End" /\ rfor[s] = m /\ MRStat[m] = s
        /\ Accessed(m, s, rdata[s])
        /\ \/ RWires(s, m, RD, RA, RChan, {})
           \/ RWires(s, m, RD, {}, RChan, RA)
           \/ RWires(s, m, RD, {}, RD, {})
     \/ /\ MRStat[m] = s /\ Accessed(m, s, rword[s])
        /\ \/ r_state[s] = "R_End" /\ rfor[s] = m /\ RWires(s, m, {}, RD, RChan, RA)
           \/ r_state[s] = "R_Init" /\ rfor[s] = None /\ RWires(s, m, {}, RD, RD, {})
     \/ /\ r_state[s] = "R_Init" /\ rfor[s] = None
        /\ MRStat[m] = None /\ Accessed(m, s, mdata[m])
        /\ RWires(s, m, {}, {}, RD, RD)

\* And after the master's call, which may have ended the operation.
ReadAfter(s, m) ==
  \/ /\ rw_state[m] = "RW_RAddr" /\ Target(m) = s /\ MRStat[m] = s /\ AddrHeld(s, m)
     /\ \/ /\ r_state[s] = "R_Addr" /\ rfor[s] = m /\ Untouched(m)
           /\ \/ RWires(s, m, RA, {}, RChan, {})
              \/ RWires(s, m, {}, RA, RChan, {})
              \/ RWires(s, m, {}, {}, RD, RA)
              \/ RWires(s, m, {}, {}, RD, {})
        \/ /\ r_state[s] = "R_End" /\ rfor[s] = m /\ Accessed(m, s, rdata[s])
           /\ \/ RWires(s, m, RD, RA, RChan, {})
              \/ RWires(s, m, RD, {}, RD, RA)
              \/ RWires(s, m, RD, {}, RD, {})
        \/ /\ Accessed(m, s, rword[s])
           /\ \/ r_state[s] = "R_End" /\ rfor[s] = m /\ RWires(s, m, {}, RD, RD, RA)
              \/ r_state[s] = "R_Init" /\ rfor[s] = None /\ RWires(s, m, {}, RD, RD, {})
  \/ /\ rw_state[m] = "RW_Init" /\ r_state[s] = "R_Init" /\ rfor[s] = None
     /\ rout[s] = {} /\ rdrv[s] = {}

\* A slave's read channel: free, or in a stage of its master's load.
ReadPart(s) ==
  LET m == rconn[s]
  IN  /\ m = None => /\ r_state[s] = "R_Init" /\ rfor[s] = None
                     /\ rout[s] = {} /\ rdrv[s] = {}
      /\ m # None /\ ~Called(2 * s) => ReadBefore(s, m)
      /\ m # None /\ Called(2 * s) /\ ~Called(2 * SC + m) => ReadDuring(s, m)
      /\ m # None /\ Called(2 * SC + m) => ReadAfter(s, m)

-----------------------------------------------------------------------------
\* The write wires: a slave's write outputs reach the channel at once.
WWires(s, m, o, a, i) == wout[s] = o /\ out[m] = a /\ min[m] = i

WA == {"waddr"}
WD == {"wdat", "wres"}

Stored(m, s) == Accessed(m, s, req[m].data)

\* The stages of a write: waiting for the address, for the device, stored.
WriteBefore(s, m) ==
  /\ rw_state[m] = "RW_WAddr" /\ Target(m) = s
  /\ \/ /\ w_state[s] = "W_Init" /\ wfor[s] = None /\ MWStat[m] = s /\ Untouched(m)
        /\ WWires(s, m, {}, WChan, {})
     \/ /\ w_state[s] = "W_AddrData" /\ wfor[s] = m /\ MWStat[m] = s /\ Untouched(m)
        /\ (WWires(s, m, WA, WChan, WA) \/ WWires(s, m, {}, WD, {}))
     \/ /\ w_state[s] = "W_End" /\ wfor[s] = m /\ MWStat[m] = None /\ Stored(m, s)
        /\ WWires(s, m, WD, WD, WD)

WriteDuring(s, m) ==
  /\ rw_state[m] = "RW_WAddr" /\ Target(m) = s
  /\ \/ /\ w_state[s] = "W_AddrData" /\ wfor[s] = m /\ MWStat[m] = s /\ Untouched(m)
        /\ \/ WWires(s, m, WA, WChan, {})
           \/ WWires(s, m, {}, WChan, WA)
           \/ WWires(s, m, {}, WD, {})
     \/ /\ w_state[s] = "W_End" /\ wfor[s] = m /\ MWStat[m] = s /\ Stored(m, s)
        /\ (WWires(s, m, WD, WChan, WA) \/ WWires(s, m, WD, WD, {}))
     \/ /\ w_state[s] = "W_Init" /\ wfor[s] = None /\ MWStat[m] = None /\ Stored(m, s)
        /\ WWires(s, m, {}, WD, WD)

WriteAfter(s, m) ==
  \/ /\ rw_state[m] = "RW_WAddr" /\ Target(m) = s /\ MWStat[m] = s
     /\ \/ /\ w_state[s] = "W_AddrData" /\ wfor[s] = m /\ Untouched(m)
           /\ \/ WWires(s, m, WA, WChan, {})
              \/ WWires(s, m, {}, WD, WA)
              \/ WWires(s, m, {}, WD, {})
        \/ /\ w_state[s] = "W_End" /\ wfor[s] = m /\ Stored(m, s)
           /\ (WWires(s, m, WD, WD, WA) \/ WWires(s, m, WD, WD, {}))
  \/ /\ rw_state[m] = "RW_Init" /\ w_state[s] = "W_Init" /\ wfor[s] = None
     /\ wout[s] = {}

\* A slave's write channel: free, or in a stage of its master's store.
WritePart(s) ==
  LET m == wconn[s]
  IN  /\ m = None => w_state[s] = "W_Init" /\ wfor[s] = None /\ wout[s] = {}
      /\ m # None /\ ~Called(2 * s + 1) => WriteBefore(s, m)
      /\ m # None /\ Called(2 * s + 1) /\ ~Called(2 * SC + m) => WriteDuring(s, m)
      /\ m # None /\ Called(2 * SC + m) => WriteAfter(s, m)

-----------------------------------------------------------------------------
\* No slave's channel is connected to m.
ReadAlone(m) == \A s \in Slaves : rconn[s] # m
WriteAlone(m) == \A s \in Slaves : wconn[s] # m

\* A master has at most the channels its operation calls for; one without a
\* channel has everything still to do.
MasterPart(m) ==
  /\ rw_state[m] = "RW_Init" => Untouched(m) /\ MRStat[m] = None /\ MWStat[m] = None
  /\ rw_state[m] = "RW_RAddr" => MWStat[m] = None /\ WriteAlone(m)
  /\ rw_state[m] = "RW_WAddr" => MRStat[m] = None /\ ReadAlone(m) /\ got[m] = None
  /\ rw_state[m] = "RW_RAddr" /\ ReadAlone(m) =>
       MRStat[m] = None /\ Untouched(m) /\ out[m] = RChan
  /\ rw_state[m] = "RW_WAddr" /\ WriteAlone(m) =>
       MWStat[m] = None /\ Untouched(m) /\ out[m] = WChan
  /\ ReadAlone(m) /\ WriteAlone(m) => min[m] = {}

\* An owner is connected, and to one slave only.
Links ==
  /\ \A m \in Masters : MRStat[m] # None => rconn[MRStat[m]] = m
  /\ \A m \in Masters : MWStat[m] # None => wconn[MWStat[m]] = m
  /\ \A s, t \in Slaves : rconn[s] = rconn[t] /\ rconn[s] # None => s = t
  /\ \A s, t \in Slaves : wconn[s] = wconn[t] /\ wconn[s] # None => s = t

\* With the types and the ownership tables of IInv, inductive.
Phases == /\ \A s \in Slaves : ReadPart(s) /\ WritePart(s)
          /\ \A m \in Masters : MasterPart(m)
          /\ Links

-----------------------------------------------------------------------------
(* The order of the calls, and the sets of handshakes *)

\* A call marks itself as made and no other.
LEMMA Calling ==
  ASSUME NEW k \in 0 .. Calls - 2, Call(k)
  PROVE  /\ ~Called(k) /\ Called(k)'
         /\ \A j \in 0 .. Calls - 2 : j # k => (Called(j)' <=> Called(j))
  BY CountsAssumption DEF Call, Called, Calls

\* connectChannel comes last, and a new clock begins.
LEMMA LastCall ==
  ASSUME Call(2 * SC + MC)
  PROVE  \A j \in 0 .. Calls - 2 : Called(j) /\ ~Called(j)'
  BY CountsAssumption DEF Call, Called, Calls

LEMMA CallNumbers ==
  /\ \A s \in Slaves : 2 * s \in 0 .. Calls - 2 /\ 2 * s + 1 \in 0 .. Calls - 2
  /\ \A m \in Masters : 2 * SC + m \in 0 .. Calls - 2
  /\ \A s, t \in Slaves : 2 * s # 2 * t + 1 /\ (s # t => 2 * s # 2 * t)
                          /\ (s # t => 2 * s + 1 # 2 * t + 1)
  /\ \A s \in Slaves, m \in Masters : 2 * s < 2 * SC + m /\ 2 * s + 1 < 2 * SC + m
  /\ \A m, k \in Masters : m # k => 2 * SC + m # 2 * SC + k
  BY CountsAssumption DEF Calls, Slaves, Masters

\* A slave is called before any master.
LEMMA SlaveFirst ==
  ASSUME turn \in 0 .. Calls - 1, NEW s \in Slaves, NEW m \in Masters
  PROVE  /\ Called(2 * SC + m) => Called(2 * s) /\ Called(2 * s + 1)
         /\ Call(2 * s) \/ Call(2 * s + 1) => ~Called(2 * SC + m)
  BY CountsAssumption DEF Called, Call, Calls, Slaves, Masters

\* The sets of handshakes that occur.
LEMMA ReadSets ==
  /\ {"raddr"} = RA /\ {"rdat"} = RD
  /\ "raddr" \in RA /\ "rdat" \notin RA /\ "rdat" \in RD /\ "raddr" \notin RD
  /\ "raddr" \in RChan /\ "rdat" \in RChan /\ "raddr" \notin {} /\ "rdat" \notin {}
  /\ {} \cup {"raddr"} = RA /\ RA \ {"raddr"} = {} /\ {} \ {"raddr"} = {}
  /\ RD \ {"rdat"} = {} /\ {} \ {"rdat"} = {}
  /\ RChan \ ({} \cap RChan) = RChan /\ RChan \ (RA \cap RChan) = RD
  /\ RD \ ({} \cap RChan) = RD /\ RD \ (RD \cap RChan) = {}
  /\ RChan # {} /\ RD # {} /\ RA # {} /\ RChan # RD
  /\ "waddr" \notin RChan /\ "waddr" \notin RD /\ "waddr" \notin {}
  BY DEF RA, RD, RChan

LEMMA WriteSets ==
  /\ {"waddr"} = WA /\ {"wdat", "wres"} = WD
  /\ "waddr" \in WA /\ "waddr" \notin WD /\ "wdat" \in WD /\ "wres" \in WD
  /\ "wres" \notin WA /\ "waddr" \in WChan /\ "wdat" \in WChan /\ "wres" \in WChan
  /\ "waddr" \notin {} /\ "wres" \notin {}
  /\ {} \cup {"waddr"} = WA /\ WA \ {"waddr"} = {} /\ {} \ {"waddr"} = {}
  /\ WChan \ ({} \cap WChan) = WChan /\ WChan \ (WA \cap WChan) = WD
  /\ WD \ ({} \cap WChan) = WD /\ WD \ (WD \cap WChan) = {}
  /\ WChan # {} /\ WD # {} /\ WA # {}
  /\ "raddr" \notin WChan /\ "raddr" \notin WD
  BY DEF WA, WD, WChan

LEMMA NoneApart ==
  /\ \A s \in Slaves : s # None
  /\ \A m \in Masters : m # None
  /\ \A r \in Requests : r # None
  BY NoneAssumption, NoneIsNoRequest DEF Slaves, Masters

-----------------------------------------------------------------------------
(* One access of a device *)

\* Only the answer of a device counts: the access the master waits for.
Served(m, s) ==
  \E d \in Data : /\ Untouched(m)
                  /\ served' = [served EXCEPT ![m] = <<[dev |-> s, data |-> d]>>]
                  /\ req[m].kind = "Write" => d = req[m].data

\* A slave's read clock takes its master from one stage to the next.
LEMMA ReadMoves ==
  ASSUME IInv, NEW s \in Slaves, NEW m \in Masters, rconn[s] = m,
         fsmRead(s), ReadBefore(s, m)
  PROVE  ReadDuring(s, m)' /\ (served' = served \/ Served(m, s))
  <1>1. /\ rdrv'[s] = rout[s] /\ rword'[s] = rdata[s]
        /\ rw_state' = rw_state /\ req' = req /\ out' = out /\ min' = min
        /\ mdata' = mdata /\ MRStat' = MRStat
    BY DEF fsmRead, IInv, TypeOK, ReadType, mvars, cvars
  <1>2. /\ r_state \in [Slaves -> {"R_Init", "R_Addr", "R_End"}]
        /\ rout \in [Slaves -> SUBSET RChan] /\ rdata \in [Slaves -> Word]
        /\ rfor \in [Slaves -> Masters \cup {None}]
        /\ raddr_end \in [Slaves -> BOOLEAN]
        /\ served \in [Masters -> Seq([dev : Slaves, data : Data])]
    BY DEF IInv, TypeOK, ReadType, MasterType
  <1>3. rconn[s] # None /\ \A ch : RSees(s, ch) <=> ch \in out[m]
    BY NoneApart DEF RSees
  <1>4. /\ rw_state[m] = "RW_RAddr" /\ Target(m) = s /\ Target(m)' = s
        /\ AddrHeld(s, m)
        /\ rw_state'[m] = "RW_RAddr"
    BY <1>1 DEF ReadBefore, Target
  <1>k. req[m].kind = "Read"
    BY <1>4 DEF IInv, OutputsMatchState
  <1>h. AddrHeld(s, m)'
    <2>1. CASE "raddr" \in out[m]
      <3>1. r_state[s] = "R_Init" \/ raddr_end[s] = FALSE
        BY <2>1 DEF ReadBefore, AddrHeld
      <3>2. r_state'[s] = "R_Init" \/ raddr_end'[s] = FALSE
        BY <1>2, <1>3, <2>1, <3>1
           DEF fsmRead, ReadIdle, ReadAccept, ReadWait, ReadEnd, ReadAnswer
      <3> QED BY <3>2 DEF AddrHeld
    <2>2. CASE "raddr" \notin out[m]
      BY <1>1, <2>2 DEF AddrHeld
    <2> QED BY <2>1, <2>2
  <1> USE DEF RWires, Untouched, Accessed
  <1>5. CASE r_state[s] = "R_Init"
    <2>1. ReadIdle(s) \/ ReadAccept(s)
      BY <1>5 DEF fsmRead, ReadIdle, ReadAccept, ReadWait, ReadEnd, ReadAnswer
    <2>2. CASE ReadIdle(s)
      <3>1. /\ "raddr" \notin out[m] /\ r_state' = r_state /\ rout' = rout
            /\ rfor' = rfor /\ served' = served
        BY <1>3, <2>2 DEF ReadIdle
      <3> QED BY <1>1, <1>4, <1>h, <1>5, <3>1, ReadSets DEF ReadBefore, ReadDuring
    <2>3. CASE ReadAccept(s)
      <3>1. /\ "raddr" \in out[m] /\ r_state'[s] = "R_Addr"
            /\ rout'[s] = rout[s] \cup {"raddr"}
            /\ rfor'[s] = m /\ served' = served
        BY <1>2, <1>3, <2>3 DEF ReadAccept
      <3> QED BY <1>1, <1>4, <1>h, <1>5, <3>1, ReadSets DEF ReadBefore, ReadDuring
    <2> QED BY <2>1, <2>2, <2>3
  <1>6. CASE r_state[s] = "R_Addr"
    <2>0. /\ rfor[s] = m /\ MRStat[m] = s /\ Untouched(m)
          /\ \/ RWires(s, m, RA, {}, RChan, {})
             \/ RWires(s, m, {}, RA, RChan, RA)
             \/ RWires(s, m, {}, {}, RD, {})
      BY <1>6 DEF ReadBefore
    <2>1. ReadWait(s) \/ \E d \in Data : ReadAnswer(s, d)
      BY <1>6 DEF fsmRead, ReadIdle, ReadAccept, ReadWait, ReadEnd, ReadAnswer
    <2>2. CASE ReadWait(s)
      <3>1. /\ r_state' = r_state /\ rout'[s] = rout[s] \ {"raddr"}
            /\ rfor' = rfor /\ served' = served
        BY <1>2, <2>2 DEF ReadWait
      <3> QED BY <1>1, <1>4, <1>h, <1>6, <2>0, <3>1, ReadSets DEF ReadDuring
    <2>3. ASSUME NEW d \in Data, ReadAnswer(s, d)
          PROVE  ReadDuring(s, m)' /\ Served(m, s)
      <3>1. "rdat" \notin rout[s] /\ "rdat" \in out[m]
        BY <2>0, ReadSets
      <3>2. /\ r_state'[s] = "R_End" /\ rout'[s] = RD /\ rfor' = rfor
            /\ rdata'[s] = d /\ Serve(m, s, d)
        BY <1>2, <1>3, <2>0, <2>3, <3>1, ReadSets DEF ReadAnswer
      <3>3. served' = [served EXCEPT ![m] = <<[dev |-> s, data |-> d]>>]
        BY <1>2, <2>0, <3>2 DEF Serve
      <3>4. Served(m, s)
        BY <1>k, <2>0, <3>3 DEF Served
      <3>5. served'[m] = <<[dev |-> s, data |-> rdata'[s]]>>
        BY <1>2, <3>2, <3>3
      <3> QED BY <1>1, <1>4, <1>h, <1>6, <2>0, <3>2, <3>4, <3>5, ReadSets DEF ReadDuring
    <2> QED BY <2>1, <2>2, <2>3
  <1>7. CASE r_state[s] = "R_End"
    <2>1. ReadEnd(s)
      BY <1>7 DEF fsmRead, ReadIdle, ReadAccept, ReadWait, ReadEnd, ReadAnswer
    <2>2. /\ rout'[s] = rout[s] \ {"rdat"} /\ served' = served
          /\ "raddr" \notin out[m] => r_state'[s] = "R_Init" /\ rfor'[s] = None
          /\ "raddr" \in out[m] => r_state'[s] = "R_End" /\ rfor'[s] = rfor[s]
      BY <1>2, <1>3, <1>4, <1>7, <2>1 DEF ReadEnd, AddrHeld
    <2>3. CASE /\ MRStat[m] = s /\ rfor[s] = m /\ Accessed(m, s, rdata[s])
               /\ RWires(s, m, RD, RA, RChan, RA)
      BY <1>1, <1>4, <1>h, <2>2, <2>3, ReadSets DEF ReadDuring
    <2>4. CASE /\ MRStat[m] = s /\ rfor[s] = m /\ Accessed(m, s, rdata[s])
               /\ RWires(s, m, RD, {}, RD, {})
      BY <1>1, <1>4, <1>h, <2>2, <2>4, ReadSets DEF ReadDuring
    <2>5. CASE /\ MRStat[m] = None /\ Accessed(m, s, mdata[m])
               /\ RWires(s, m, {}, RD, RD, RD)
      BY <1>1, <1>4, <1>h, <2>2, <2>5, ReadSets DEF ReadDuring
    <2> QED BY <1>7, <2>3, <2>4, <2>5 DEF ReadBefore
  <1> QED BY <1>2, <1>5, <1>6, <1>7

\* The same for a slave's write clock.
LEMMA WriteMoves ==
  ASSUME IInv, NEW s \in Slaves, NEW m \in Masters, wconn[s] = m,
         fsmWrite(s), WriteBefore(s, m)
  PROVE  WriteDuring(s, m)' /\ (served' = served \/ Served(m, s))
  <1>1. /\ rw_state' = rw_state /\ req' = req /\ out' = out /\ min' = min
        /\ MWStat' = MWStat
    BY DEF fsmWrite, mvars, cvars
  <1>2. /\ w_state \in [Slaves -> {"W_Init", "W_AddrData", "W_End"}]
        /\ wout \in [Slaves -> SUBSET WChan]
        /\ wfor \in [Slaves -> Masters \cup {None}]
        /\ served \in [Masters -> Seq([dev : Slaves, data : Data])]
    BY DEF IInv, TypeOK, WriteType, MasterType
  <1>3. wconn[s] # None /\ \A ch : WSees(s, ch) <=> ch \in out[m]
    BY NoneApart DEF WSees
  <1>4. /\ rw_state[m] = "RW_WAddr" /\ Target(m) = s /\ Target(m)' = s
        /\ rw_state'[m] = "RW_WAddr"
    BY <1>1 DEF WriteBefore, Target
  <1>k. req[m].data \in Data
    BY <1>4, RequestFields DEF IInv, OutputsMatchState
  <1> USE DEF WWires, Untouched, Accessed, Stored
  <1>5. CASE w_state[s] = "W_Init"
    <2>1. WriteIdle(s) \/ WriteAccept(s)
      BY <1>5 DEF fsmWrite, WriteIdle, WriteAccept, WriteWait, WriteEnd, WriteData
    <2>2. CASE WriteIdle(s)
      <3>1. /\ "waddr" \notin out[m] /\ w_state' = w_state /\ wout' = wout
            /\ wfor' = wfor /\ served' = served
        BY <1>3, <2>2 DEF WriteIdle, wvars
      <3> QED BY <1>1, <1>4, <1>5, <3>1, WriteSets DEF WriteBefore, WriteDuring
    <2>3. CASE WriteAccept(s)
      <3>1. /\ "waddr" \in out[m] /\ w_state'[s] = "W_AddrData"
            /\ wout'[s] = wout[s] \cup {"waddr"}
            /\ wfor'[s] = m /\ served' = served
        BY <1>2, <1>3, <2>3 DEF WriteAccept
      <3> QED BY <1>1, <1>4, <1>5, <3>1, WriteSets DEF WriteBefore, WriteDuring
    <2> QED BY <2>1, <2>2, <2>3
  <1>6. CASE w_state[s] = "W_AddrData"
    <2>0. /\ wfor[s] = m /\ MWStat[m] = s /\ Untouched(m)
          /\ WWires(s, m, WA, WChan, WA) \/ WWires(s, m, {}, WD, {})
      BY <1>6 DEF WriteBefore
    <2>1. WriteWait(s) \/ WriteData(s)
      BY <1>6 DEF fsmWrite, WriteIdle, WriteAccept, WriteWait, WriteEnd, WriteData
    <2>2. CASE WriteWait(s)
      <3>1. /\ w_state' = w_state /\ wout'[s] = wout[s] \ {"waddr"}
            /\ wfor' = wfor /\ served' = served
        BY <1>2, <2>2 DEF WriteWait
      <3> QED BY <1>1, <1>4, <1>6, <2>0, <3>1, WriteSets DEF WriteDuring
    <2>3. CASE WriteData(s)
      <3>1. /\ w_state'[s] = "W_End" /\ wout'[s] = WD /\ wfor' = wfor
            /\ Serve(m, s, req[m].data)
        BY <1>2, <2>0, <2>3, WriteSets DEF WriteData
      <3>2. served' = [served EXCEPT ![m] = <<[dev |-> s, data |-> req[m].data]>>]
        BY <1>2, <2>0, <3>1 DEF Serve
      <3>3. Served(m, s)
        BY <1>k, <2>0, <3>2 DEF Served
      <3>4. served'[m] = <<[dev |-> s, data |-> req'[m].data]>>
        BY <1>1, <1>2, <3>2
      <3> QED BY <1>1, <1>4, <1>6, <2>0, <3>1, <3>3, <3>4, WriteSets DEF WriteDuring
    <2> QED BY <2>1, <2>2, <2>3
  <1>7. CASE w_state[s] = "W_End"
    <2>0. /\ wfor[s] = m /\ MWStat[m] = None /\ Stored(m, s)
          /\ WWires(s, m, WD, WD, WD)
      BY <1>7 DEF WriteBefore
    <2>1. WriteEnd(s)
      BY <1>7 DEF fsmWrite, WriteIdle, WriteAccept, WriteWait, WriteEnd, WriteData
    <2>2. /\ wout'[s] = {} /\ served' = served
          /\ w_state'[s] = "W_Init" /\ wfor'[s] = None
      <3>1. WSees(s, "wres") /\ ~WSees(s, "waddr")
        BY <1>3, <2>0, WriteSets
      <3> QED BY <1>2, <2>1, <3>1 DEF WriteEnd
    <2> QED BY <1>1, <1>4, <2>0, <2>2 DEF WriteDuring
  <1> QED BY <1>2, <1>5, <1>6, <1>7

-----------------------------------------------------------------------------
(* The master's clock *)

\* Nothing an observer of the operation sees.
Stays == UNCHANGED <<rw_state, req, served, got>>

\* The operation ends, and the word d is the core's.
Ends(m, d) ==
  /\ rw_state' = [rw_state EXCEPT ![m] = "RW_Init"]
  /\ req' = [req EXCEPT ![m] = None]
  /\ served' = [served EXCEPT ![m] = <<>>]
  /\ got' = [got EXCEPT ![m] = d]

\* A master's clock takes a load on to the next stage or, with the slave's
\* word, to its end.
LEMMA MasterReads ==
  ASSUME IInv, NEW s \in Slaves, NEW m \in Masters,
         MasterFsm(m), ReadDuring(s, m)
  PROVE  /\ ReadAfter(s, m)'
         /\ \/ Stays
            \/ Accessed(m, s, mdata[m]) /\ MRStat[m] = None /\ Ends(m, mdata[m])
  <1>1. /\ r_state' = r_state /\ rout' = rout /\ rdrv' = rdrv /\ rfor' = rfor
        /\ rdata' = rdata /\ rword' = rword /\ raddr_end' = raddr_end
        /\ MRStat' = MRStat /\ min' = min
    BY DEF MasterFsm, rvars, cvars
  <1>2. /\ rw_state \in [Masters -> {"RW_Init", "RW_RAddr", "RW_WAddr"}]
        /\ out \in [Masters -> Asserted] /\ got \in [Masters -> Word]
        /\ req \in [Masters -> Requests \cup {None}]
        /\ served \in [Masters -> Seq([dev : Slaves, data : Data])]
    BY DEF IInv, TypeOK, MasterType
  <1>3. rw_state[m] = "RW_RAddr" /\ Target(m) = s /\ AddrHeld(s, m)
    BY DEF ReadDuring
  <1>4. AwaitRead(m)
    BY <1>3 DEF MasterFsm, MasterIdle, AwaitRead, AwaitWrite, Issue
  <1> DEFINE left == out[m] \ (min[m] \cap RChan)
  <1>5. /\ out' = [out EXCEPT ![m] = left]
        /\ rw_state' = [rw_state EXCEPT ![m] = IF left = {} THEN "RW_Init" ELSE @]
        /\ req' = [req EXCEPT ![m] = IF left = {} THEN None ELSE @]
        /\ served' = [served EXCEPT ![m] = IF left = {} THEN <<>> ELSE @]
        /\ got' = [got EXCEPT ![m] = IF "rdat" \in min[m] THEN mdata[m] ELSE @]
    BY <1>4 DEF AwaitRead, Handshake
  <1>6. CASE left = {} /\ min[m] = RD
    <2>1. /\ r_state[s] = "R_Init" /\ rfor[s] = None /\ Accessed(m, s, mdata[m])
          /\ rout[s] = {} /\ rdrv[s] = {} /\ MRStat[m] = None
      BY <1>6, ReadSets DEF ReadDuring, RWires
    <2>2. Ends(m, mdata[m])
      BY <1>5, <1>6, ReadSets DEF Ends
    <2>3. rw_state'[m] = "RW_Init"
      BY <1>2, <2>2 DEF Ends
    <2> QED BY <1>1, <2>1, <2>2, <2>3 DEF ReadAfter
  <1>7. CASE left # {} /\ "rdat" \notin min[m]
    <2>1. Stays
      BY <1>2, <1>5, <1>7 DEF Stays
    <2>2. out'[m] = left /\ Target(m)' = s
      BY <1>2, <1>3, <1>5, <2>1 DEF Stays, Target
    <2>3. AddrHeld(s, m)'
      BY <1>1, <1>3, <2>2 DEF AddrHeld
    <2> HIDE DEF left
    <2>4. rw_state'[m] = "RW_RAddr" /\ served'[m] = served[m]
      BY <1>3, <2>1 DEF Stays
    <2> USE DEF RWires, Untouched, Accessed, ReadAfter
    <2>k. /\ Accessed(m, s, rdata[s]) => Accessed(m, s, rdata[s])'
          /\ Accessed(m, s, rword[s]) => Accessed(m, s, rword[s])'
          /\ Untouched(m) => Untouched(m)'
      BY <1>1, <2>4, Zenon
    <2>5. CASE out[m] = RChan /\ min[m] = {}
      <3>1. left = RChan
        BY <2>5, ReadSets DEF left
      <3>2. /\ MRStat[m] = s /\ rfor[s] = m
            /\ \/ /\ r_state[s] = "R_Addr" /\ Untouched(m)
                  /\ rout[s] = RA /\ rdrv[s] = {}
               \/ /\ r_state[s] = "R_Addr" /\ Untouched(m)
                  /\ rout[s] = {} /\ rdrv[s] = RA
               \/ /\ r_state[s] = "R_End" /\ Accessed(m, s, rdata[s])
                  /\ rout[s] = RD /\ rdrv[s] = RA
        BY <2>5, ReadSets DEF ReadDuring
      <3> QED BY <1>1, <2>1, <2>2, <2>3, <2>4, <2>k, <2>5, <3>1, <3>2
    <2>6. CASE out[m] = RChan /\ min[m] = RA
      <3>1. left = RD
        BY <2>6, ReadSets DEF left
      <3>2. /\ MRStat[m] = s /\ rfor[s] = m
            /\ \/ /\ r_state[s] = "R_Addr" /\ Untouched(m)
                  /\ rout[s] = {} /\ rdrv[s] = {}
               \/ /\ r_state[s] = "R_End" /\ Accessed(m, s, rdata[s])
                  /\ rout[s] = RD /\ rdrv[s] = {}
               \/ /\ r_state[s] = "R_End" /\ Accessed(m, s, rword[s])
                  /\ rout[s] = {} /\ rdrv[s] = RD
        BY <2>6, ReadSets DEF ReadDuring
      <3> QED BY <1>1, <2>1, <2>2, <2>3, <2>4, <2>k, <2>6, <3>1, <3>2
    <2>7. CASE out[m] = RD /\ min[m] = {}
      <3>1. left = RD
        BY <2>7, ReadSets DEF left
      <3>2. /\ MRStat[m] = s
            /\ \/ /\ r_state[s] = "R_Addr" /\ Untouched(m) /\ rfor[s] = m
                  /\ rout[s] = {} /\ rdrv[s] = {}
               \/ /\ r_state[s] = "R_End" /\ Accessed(m, s, rdata[s]) /\ rfor[s] = m
                  /\ rout[s] = RD /\ rdrv[s] = {}
               \/ /\ r_state[s] = "R_Init" /\ Accessed(m, s, rword[s]) /\ rfor[s] = None
                  /\ rout[s] = {} /\ rdrv[s] = RD
        BY <2>7, ReadSets DEF ReadDuring
      <3> QED BY <1>1, <2>1, <2>2, <2>3, <2>4, <2>k, <2>7, <3>1, <3>2
    <2>8. CASE out[m] = RD /\ min[m] = RD
      BY <1>7, <2>8, ReadSets
    <2> QED BY <2>5, <2>6, <2>7, <2>8 DEF ReadDuring
  <1>8. \/ left = {} /\ min[m] = RD
        \/ left # {} /\ "rdat" \notin min[m]
    BY ReadSets DEF ReadDuring, RWires
  <1> QED BY <1>6, <1>7, <1>8

\* The same for a store.
LEMMA MasterWrites ==
  ASSUME IInv, NEW s \in Slaves, NEW m \in Masters,
         MasterFsm(m), WriteDuring(s, m)
  PROVE  /\ WriteAfter(s, m)'
         /\ \/ Stays
            \/ Stored(m, s) /\ MWStat[m] = None /\ Ends(m, got[m])
  <1>1. /\ w_state' = w_state /\ wout' = wout /\ wfor' = wfor
        /\ MWStat' = MWStat /\ min' = min
    BY DEF MasterFsm, wvars, cvars
  <1>2. /\ rw_state \in [Masters -> {"RW_Init", "RW_RAddr", "RW_WAddr"}]
        /\ out \in [Masters -> Asserted] /\ got \in [Masters -> Word]
        /\ req \in [Masters -> Requests \cup {None}]
        /\ served \in [Masters -> Seq([dev : Slaves, data : Data])]
    BY DEF IInv, TypeOK, MasterType
  <1>3. rw_state[m] = "RW_WAddr" /\ Target(m) = s
    BY DEF WriteDuring
  <1>4. AwaitWrite(m)
    BY <1>3 DEF MasterFsm, MasterIdle, AwaitRead, AwaitWrite, Issue
  <1> DEFINE left == out[m] \ (min[m] \cap WChan)
  <1>5. /\ out' = [out EXCEPT ![m] = left]
        /\ rw_state' = [rw_state EXCEPT ![m] = IF left = {} THEN "RW_Init" ELSE @]
        /\ req' = [req EXCEPT ![m] = IF left = {} THEN None ELSE @]
        /\ served' = [served EXCEPT ![m] = IF left = {} THEN <<>> ELSE @]
        /\ got' = got
    BY <1>4 DEF AwaitWrite, Handshake
  <1>6. CASE left = {}
    <2>1. /\ w_state[s] = "W_Init" /\ wfor[s] = None /\ Stored(m, s) /\ wout[s] = {}
          /\ MWStat[m] = None
      BY <1>6, WriteSets DEF WriteDuring, WWires
    <2>2. Ends(m, got[m])
      BY <1>2, <1>5, <1>6 DEF Ends
    <2>3. rw_state'[m] = "RW_Init"
      BY <1>2, <2>2 DEF Ends
    <2> QED BY <1>1, <2>1, <2>2, <2>3 DEF WriteAfter
  <1>7. CASE left # {}
    <2>1. Stays
      BY <1>2, <1>5, <1>7 DEF Stays
    <2>2. out'[m] = left /\ Target(m)' = s
      BY <1>2, <1>3, <1>5, <2>1 DEF Stays, Target
    <2> HIDE DEF left
    <2>4. rw_state'[m] = "RW_WAddr" /\ served'[m] = served[m] /\ req' = req
      BY <1>3, <2>1 DEF Stays
    <2> USE DEF WWires, Untouched, Accessed, Stored, WriteAfter
    <2>k. (Stored(m, s) => Stored(m, s)') /\ (Untouched(m) => Untouched(m)')
      BY <2>4, Zenon
    <2>5. CASE out[m] = WChan /\ min[m] = {}
      <3>1. left = WChan
        BY <2>5, WriteSets DEF left
      <3>2. /\ MWStat[m] = s /\ wfor[s] = m
            /\ w_state[s] = "W_AddrData" /\ Untouched(m) /\ wout[s] = WA
        BY <2>5, WriteSets DEF WriteDuring
      <3> QED BY <1>1, <2>1, <2>2, <2>4, <2>k, <2>5, <3>1, <3>2
    <2>6. CASE out[m] = WChan /\ min[m] = WA
      <3>1. left = WD
        BY <2>6, WriteSets DEF left
      <3>2. /\ MWStat[m] = s /\ wfor[s] = m
            /\ \/ w_state[s] = "W_AddrData" /\ Untouched(m) /\ wout[s] = {}
               \/ w_state[s] = "W_End" /\ Stored(m, s) /\ wout[s] = WD
        BY <2>6, WriteSets DEF WriteDuring
      <3> QED BY <1>1, <2>1, <2>2, <2>4, <2>k, <2>6, <3>1, <3>2
    <2>7. CASE out[m] = WD /\ min[m] = {}
      <3>1. left = WD
        BY <2>7, WriteSets DEF left
      <3>2. /\ MWStat[m] = s /\ wfor[s] = m
            /\ \/ w_state[s] = "W_AddrData" /\ Untouched(m) /\ wout[s] = {}
               \/ w_state[s] = "W_End" /\ Stored(m, s) /\ wout[s] = WD
        BY <2>7, WriteSets DEF WriteDuring
      <3> QED BY <1>1, <2>1, <2>2, <2>4, <2>k, <2>7, <3>1, <3>2
    <2>8. CASE out[m] = WD /\ min[m] = WD
      BY <1>7, <2>8, WriteSets DEF left
    <2> QED BY <2>5, <2>6, <2>7, <2>8 DEF WriteDuring
  <1> QED BY <1>6, <1>7

-----------------------------------------------------------------------------
(* The controller's clock *)

\* A slave is joined to the one master linked to it.
LEMMA JoinedIs ==
  ASSUME NEW link, Injective(link), NEW s \in Slaves
  PROVE  \A m \in Masters : Joined(link, s) = m <=> link[m] = s
  <1>1. CASE ~\E m \in Masters : link[m] = s
    BY <1>1, NoneApart DEF Joined
  <1>2. CASE \E m \in Masters : link[m] = s
    <2>1. PICK m \in Masters : link[m] = s
      BY <1>2
    <2>2. \A k \in Masters : link[k] = s => k = m
      BY <2>1, NoneApart DEF Injective
    <2>3. m <= m
      BY DEF Masters
    <2>4. Joined(link, s) \in Masters /\ link[Joined(link, s)] = s
      BY <1>2, <2>1, <2>2, <2>3 DEF Joined
    <2> QED BY <2>1, <2>2, <2>4
  <1> QED BY <1>1, <1>2

\* When connectChannel is called every component has been.
LEMMA AllCalled ==
  ASSUME IInv, Phases, ConnectChannel, NEW s \in Slaves
  PROVE  /\ rconn[s] = None \/ ReadAfter(s, rconn[s])
         /\ wconn[s] = None \/ WriteAfter(s, wconn[s])
         /\ ~Called(2 * s)' /\ ~Called(2 * s + 1)'
         /\ \A m \in Masters : ~Called(2 * SC + m)'
  <1>1. \A j \in 0 .. Calls - 2 : Called(j) /\ ~Called(j)'
    BY LastCall DEF ConnectChannel
  <1>2. /\ Called(2 * s) /\ Called(2 * s + 1)
        /\ ~Called(2 * s)' /\ ~Called(2 * s + 1)'
        /\ \A m \in Masters : Called(2 * SC + m) /\ ~Called(2 * SC + m)'
    BY <1>1, CallNumbers
  <1>3. rconn[s] \in Masters \cup {None} /\ wconn[s] \in Masters \cup {None}
    BY DEF IInv, TypeOK, BusType
  <1> QED BY <1>2, <1>3 DEF Phases, ReadPart, WritePart

\* A master granted a slave's read channel has just issued its load, and the
\* slave is free.
LEMMA ReadGranted ==
  ASSUME IInv, Phases, ConnectChannel, NEW m \in Masters, m \in ReadGrants
  PROVE  LET s == Target(m)
         IN  /\ rw_state[m] = "RW_RAddr" /\ MRStat[m] = None
             /\ Untouched(m) /\ out[m] = RChan
             /\ r_state[s] = "R_Init" /\ rfor[s] = None
             /\ rout[s] = {} /\ rdrv[s] = {}
  <1> DEFINE s == Target(m)
  <1>1. ReadRequested(m)
    BY DEF ReadGrants, Granted
  <1>2. MRStat[m] = None /\ "raddr" \in out[m] /\ ~SRStat[s]
    BY <1>1 DEF ReadRequested
  <1>3. rw_state[m] = "RW_RAddr"
    BY <1>2, ReadSets DEF IInv, TypeOK, MasterType, OutputsMatchState, WChan
  <1>4. ReadAlone(m)
    <2> SUFFICES ASSUME NEW t \in Slaves, rconn[t] = m PROVE FALSE
      BY DEF ReadAlone
    <2>1. ReadAfter(t, m)
      BY AllCalled, NoneApart
    <2> QED BY <1>2, <1>3, <2>1, NoneApart DEF ReadAfter
  <1>5. Untouched(m) /\ out[m] = RChan
    BY <1>3, <1>4 DEF Phases, MasterPart
  <1>6. s \in Slaves
    BY TargetInRange
  <1>7. r_state[s] = "R_Init" /\ rfor[s] = None /\ rout[s] = {} /\ rdrv[s] = {}
    <2>1. CASE rconn[s] = None
      BY <1>6, <2>1 DEF Phases, ReadPart
    <2>2. CASE rconn[s] # None
      <3>1. rconn[s] \in Masters /\ ReadAfter(s, rconn[s])
        BY <1>6, <2>2, AllCalled DEF IInv, TypeOK, BusType
      <3>2. MRStat[rconn[s]] # s
        BY <1>2, <1>6, <3>1 DEF IInv, OwnershipAgrees, Agree
      <3> QED BY <3>1, <3>2 DEF ReadAfter
    <2> QED BY <2>1, <2>2
  <1> QED BY <1>2, <1>3, <1>5, <1>7

\* The same for a slave's write channel.
LEMMA WriteGranted ==
  ASSUME IInv, Phases, ConnectChannel, NEW m \in Masters, m \in WriteGrants
  PROVE  LET s == Target(m)
         IN  /\ rw_state[m] = "RW_WAddr" /\ MWStat[m] = None
             /\ Untouched(m) /\ out[m] = WChan
             /\ w_state[s] = "W_Init" /\ wfor[s] = None /\ wout[s] = {}
  <1> DEFINE s == Target(m)
  <1>1. WriteRequested(m)
    BY DEF WriteGrants, Granted
  <1>2. MWStat[m] = None /\ "waddr" \in out[m] /\ ~SWStat[s]
    BY <1>1 DEF WriteRequested
  <1>3. rw_state[m] = "RW_WAddr"
    BY <1>2, WriteSets DEF IInv, TypeOK, MasterType, OutputsMatchState, RChan
  <1>4. WriteAlone(m)
    <2> SUFFICES ASSUME NEW t \in Slaves, wconn[t] = m PROVE FALSE
      BY DEF WriteAlone
    <2>1. WriteAfter(t, m)
      BY AllCalled, NoneApart
    <2> QED BY <1>2, <1>3, <2>1, NoneApart DEF WriteAfter
  <1>5. Untouched(m) /\ out[m] = WChan
    BY <1>3, <1>4 DEF Phases, MasterPart
  <1>6. s \in Slaves
    BY TargetInRange
  <1>7. w_state[s] = "W_Init" /\ wfor[s] = None /\ wout[s] = {}
    <2>1. CASE wconn[s] = None
      BY <1>6, <2>1 DEF Phases, WritePart
    <2>2. CASE wconn[s] # None
      <3>1. wconn[s] \in Masters /\ WriteAfter(s, wconn[s])
        BY <1>6, <2>2, AllCalled DEF IInv, TypeOK, BusType
      <3>2. MWStat[wconn[s]] # s
        BY <1>2, <1>6, <3>1 DEF IInv, OwnershipAgrees, Agree
      <3> QED BY <3>1, <3>2 DEF WriteAfter
    <2> QED BY <2>1, <2>2
  <1> QED BY <1>2, <1>3, <1>5, <1>7

\* What connectChannel leaves on a master's channels, and whom it belongs to.
LEMMA Connected ==
  ASSUME IInv, ConnectChannel
  PROVE  /\ \A m \in Masters, s \in Slaves :
              /\ rconn'[s] = m <=> ReadLink[m] = s
              /\ wconn'[s] = m <=> WriteLink[m] = s
         /\ \A m \in Masters :
              /\ MRStat'[m] = IF m \in ReadReleases THEN None ELSE ReadLink[m]
              /\ MWStat'[m] = IF m \in WriteReleases THEN None ELSE WriteLink[m]
              /\ min'[m] =
                   (IF ReadLink[m] = None THEN {} ELSE rdrv[ReadLink[m]]) \cup
                   (IF WriteLink[m] = None THEN {} ELSE wout[WriteLink[m]])
              /\ mdata'[m] = IF ReadLink[m] = None THEN None ELSE rword[ReadLink[m]]
              /\ ReadLink[m] = IF m \in ReadGrants THEN Target(m) ELSE MRStat[m]
              /\ WriteLink[m] = IF m \in WriteGrants THEN Target(m) ELSE MWStat[m]
         /\ UNCHANGED <<mvars, rvars, wvars, served>>
  <1>1. Injective(ReadLink) /\ Injective(WriteLink)
    BY ReadArbitration, WriteArbitration
  <1>2. \A s \in Slaves : /\ \A m \in Masters : Joined(ReadLink, s) = m <=> ReadLink[m] = s
                          /\ \A m \in Masters : Joined(WriteLink, s) = m <=> WriteLink[m] = s
    BY <1>1, JoinedIs
  <1>3. \A s \in Slaves : rconn'[s] = Joined(ReadLink, s) /\ wconn'[s] = Joined(WriteLink, s)
    BY DEF ConnectChannel
  <1>4. /\ MRStat' = Owner(ReadLink, ReadReleases)
        /\ MWStat' = Owner(WriteLink, WriteReleases)
        /\ UNCHANGED <<mvars, rvars, wvars, served>>
    BY DEF ConnectChannel
  <1>5. \A m \in Masters :
           /\ min'[m] =
                   (IF ReadLink[m] = None THEN {} ELSE rdrv[ReadLink[m]]) \cup
                   (IF WriteLink[m] = None THEN {} ELSE wout[WriteLink[m]])
           /\ mdata'[m] = IF ReadLink[m] = None THEN None ELSE rword[ReadLink[m]]
    BY DEF ConnectChannel
  <1>6. \A m \in Masters :
           /\ ReadLink[m] = IF m \in ReadGrants THEN Target(m) ELSE MRStat[m]
           /\ WriteLink[m] = IF m \in WriteGrants THEN Target(m) ELSE MWStat[m]
    BY DEF ReadLink, WriteLink
  <1>7. \A m \in Masters :
           /\ MRStat'[m] = IF m \in ReadReleases THEN None ELSE ReadLink[m]
           /\ MWStat'[m] = IF m \in WriteReleases THEN None ELSE WriteLink[m]
    BY <1>4 DEF Owner
  <1>8. \A m \in Masters, s \in Slaves : /\ rconn'[s] = m <=> ReadLink[m] = s
                                         /\ wconn'[s] = m <=> WriteLink[m] = s
    BY <1>2, <1>3
  <1> QED BY <1>4, <1>5, <1>6, <1>7, <1>8

\* A master is on the channels of one kind of operation only.
LEMMA OneKind ==
  ASSUME IInv, Phases, ConnectChannel, NEW m \in Masters
  PROVE  /\ rw_state[m] # "RW_WAddr" => m \notin WriteGrants /\ WriteLink[m] = None
         /\ rw_state[m] # "RW_RAddr" => m \notin ReadGrants /\ ReadLink[m] = None
  <1>1. /\ WriteLink[m] = IF m \in WriteGrants THEN Target(m) ELSE MWStat[m]
        /\ ReadLink[m] = IF m \in ReadGrants THEN Target(m) ELSE MRStat[m]
    BY Connected
  <1>2. /\ rw_state[m] # "RW_WAddr" => MWStat[m] = None
        /\ rw_state[m] # "RW_RAddr" => MRStat[m] = None
        /\ rw_state[m] \in {"RW_Init", "RW_RAddr", "RW_WAddr"}
    BY DEF Phases, MasterPart, IInv, TypeOK, MasterType
  <1>3. /\ m \in WriteGrants => rw_state[m] = "RW_WAddr"
        /\ m \in ReadGrants => rw_state[m] = "RW_RAddr"
    BY ReadGranted, WriteGranted
  <1> QED BY <1>1, <1>2, <1>3

\* connectChannel starts a granted load and takes the others to the next clock.
LEMMA ReadConnected ==
  ASSUME IInv, Phases, ConnectChannel, NEW m \in Masters, NEW s \in Slaves,
         ReadLink[m] = s
  PROVE  ReadBefore(s, m)'
  <1>1. /\ MRStat'[m] = IF m \in ReadReleases THEN None ELSE s
        /\ mdata'[m] = rword[s]
        /\ ReadLink[m] = IF m \in ReadGrants THEN Target(m) ELSE MRStat[m]
        /\ UNCHANGED <<mvars, rvars, wvars, served>>
    BY Connected, NoneApart
  <1>2. WriteLink[m] = None /\ rw_state[m] = "RW_RAddr"
    BY OneKind, NoneApart, Connected DEF IInv, TypeOK, MasterType
  <1>3. min'[m] = rdrv[s]
    <2>1. min'[m] = rdrv[s] \cup {}
      BY <1>2, Connected, NoneApart
    <2> QED BY <2>1
  <1>4. /\ r_state' = r_state /\ rout' = rout /\ rdrv' = rdrv /\ rfor' = rfor
        /\ rdata' = rdata /\ rword' = rword /\ raddr_end' = raddr_end
        /\ out' = out /\ rw_state' = rw_state /\ req' = req /\ served' = served
    BY <1>1 DEF mvars, rvars
  <1>5. Target(m)' = Target(m)
    BY <1>4 DEF Target
  <1>6. CASE m \in ReadGrants
    <2>1. Target(m) = s /\ m \notin ReadReleases
      BY <1>1, <1>6 DEF ReadReleases
    <2>2. /\ MRStat[m] = None /\ Untouched(m) /\ out[m] = RChan
          /\ r_state[s] = "R_Init" /\ rfor[s] = None /\ rout[s] = {} /\ rdrv[s] = {}
      BY <1>6, <2>1, ReadGranted
    <2>3. AddrHeld(s, m)'
      BY <1>4, <2>2 DEF AddrHeld
    <2> QED BY <1>1, <1>2, <1>3, <1>4, <1>5, <2>1, <2>2, <2>3
            DEF ReadBefore, RWires, Untouched
  <1>7. CASE m \notin ReadGrants
    <2>1. MRStat[m] = s
      BY <1>1, <1>7
    <2>2. rconn[s] = m
      BY <2>1, NoneApart DEF Phases, Links
    <2>3. ReadAfter(s, m)
      BY <2>2, AllCalled, NoneApart
    <2>4. m \in ReadReleases <=> "rdat" \in out[m] /\ "rdat" \in rdrv[s]
      BY <1>7, <2>1, NoneApart DEF ReadReleases
    <2>5. Target(m)' = s /\ AddrHeld(s, m)'
      BY <1>2, <1>4, <1>5, <2>3 DEF ReadAfter, AddrHeld
    <2>6. /\ Accessed(m, s, rdata[s]) => Accessed(m, s, rdata[s])'
          /\ Accessed(m, s, rword[s]) => Accessed(m, s, mdata[m])'
          /\ Untouched(m) => Untouched(m)'
      BY <1>1, <1>4, Zenon DEF Accessed, Untouched
    <2>7. rw_state'[m] = "RW_RAddr" /\ MRStat'[m] = IF m \in ReadReleases THEN None ELSE s
      BY <1>1, <1>2, <1>4
    <2> USE DEF RWires, Accessed, Untouched
    <2>8. CASE r_state[s] = "R_Addr" /\ rfor[s] = m /\ Untouched(m)
      <3>1. /\ rdrv[s] # RD /\ "rdat" \notin rdrv[s]
            /\ \/ RWires(s, m, RA, {}, RChan, {})
               \/ RWires(s, m, {}, RA, RChan, {})
               \/ RWires(s, m, {}, {}, RD, RA)
               \/ RWires(s, m, {}, {}, RD, {})
        BY <1>2, <2>3, <2>8, ReadSets DEF ReadAfter
      <3>2. MRStat'[m] = s
        BY <2>4, <2>7, <3>1
      <3> QED BY <1>3, <1>4, <2>5, <2>6, <2>7, <2>8, <3>1, <3>2 DEF ReadBefore
    <2>9. CASE r_state[s] = "R_End" /\ rfor[s] = m /\ Accessed(m, s, rdata[s])
               /\ rdrv[s] # RD
      <3>1. /\ "rdat" \notin rdrv[s]
            /\ \/ RWires(s, m, RD, RA, RChan, {})
               \/ RWires(s, m, RD, {}, RD, RA)
               \/ RWires(s, m, RD, {}, RD, {})
        BY <1>2, <2>3, <2>9, ReadSets DEF ReadAfter
      <3>2. MRStat'[m] = s
        BY <2>4, <2>7, <3>1
      <3> QED BY <1>3, <1>4, <2>5, <2>6, <2>7, <2>9, <3>1, <3>2 DEF ReadBefore
    <2>10. CASE rdrv[s] = RD
      <3>1. /\ Accessed(m, s, rword[s])
            /\ rout[s] = {} /\ out[m] = RD
            /\ \/ r_state[s] = "R_End" /\ rfor[s] = m
               \/ r_state[s] = "R_Init" /\ rfor[s] = None
        BY <1>2, <2>3, <2>10, ReadSets DEF ReadAfter
      <3>2. MRStat'[m] = None
        BY <2>4, <2>7, <2>10, <3>1, ReadSets
      <3> QED BY <1>3, <1>4, <2>5, <2>6, <2>7, <2>10, <3>1, <3>2 DEF ReadBefore
    <2> QED BY <1>2, <2>3, <2>8, <2>9, <2>10, ReadSets DEF ReadAfter
  <1> QED BY <1>6, <1>7

LEMMA WriteConnected ==
  ASSUME IInv, Phases, ConnectChannel, NEW m \in Masters, NEW s \in Slaves,
         WriteLink[m] = s
  PROVE  WriteBefore(s, m)'
  <1>1. /\ MWStat'[m] = IF m \in WriteReleases THEN None ELSE s
        /\ WriteLink[m] = IF m \in WriteGrants THEN Target(m) ELSE MWStat[m]
        /\ UNCHANGED <<mvars, rvars, wvars, served>>
    BY Connected, NoneApart
  <1>2. ReadLink[m] = None /\ rw_state[m] = "RW_WAddr"
    BY OneKind, NoneApart, Connected DEF IInv, TypeOK, MasterType
  <1>3. min'[m] = wout[s]
    <2>1. min'[m] = {} \cup wout[s]
      BY <1>2, Connected, NoneApart
    <2> QED BY <2>1
  <1>4. /\ w_state' = w_state /\ wout' = wout /\ wfor' = wfor
        /\ out' = out /\ rw_state' = rw_state /\ req' = req /\ served' = served
    BY <1>1 DEF mvars, wvars
  <1>5. Target(m)' = Target(m)
    BY <1>4 DEF Target
  <1>6. CASE m \in WriteGrants
    <2>1. Target(m) = s /\ m \notin WriteReleases
      BY <1>1, <1>6 DEF WriteReleases
    <2>2. /\ MWStat[m] = None /\ Untouched(m) /\ out[m] = WChan
          /\ w_state[s] = "W_Init" /\ wfor[s] = None /\ wout[s] = {}
      BY <1>6, <2>1, WriteGranted
    <2> QED BY <1>1, <1>2, <1>3, <1>4, <1>5, <2>1, <2>2
            DEF WriteBefore, WWires, Untouched
  <1>7. CASE m \notin WriteGrants
    <2>1. MWStat[m] = s
      BY <1>1, <1>7
    <2>2. wconn[s] = m
      BY <2>1, NoneApart DEF Phases, Links
    <2>3. WriteAfter(s, m)
      BY <2>2, AllCalled, NoneApart
    <2>4. m \in WriteReleases <=> "wres" \in out[m] /\ "wres" \in wout[s]
      BY <1>7, <2>1, NoneApart DEF WriteReleases
    <2>5. Target(m)' = s
      BY <1>2, <1>5, <2>3 DEF WriteAfter
    <2>6. /\ Stored(m, s) => Stored(m, s)'
          /\ Untouched(m) => Untouched(m)'
      BY <1>4, Zenon DEF Stored, Accessed, Untouched
    <2>7. rw_state'[m] = "RW_WAddr" /\ MWStat'[m] = IF m \in WriteReleases THEN None ELSE s
      BY <1>1, <1>2, <1>4
    <2> USE DEF WWires, Stored, Accessed, Untouched
    <2>8. CASE w_state[s] = "W_AddrData"
      <3>1. /\ "wres" \notin wout[s] /\ wfor[s] = m /\ Untouched(m)
            /\ \/ WWires(s, m, WA, WChan, {})
               \/ WWires(s, m, {}, WD, WA)
               \/ WWires(s, m, {}, WD, {})
        BY <1>2, <2>3, <2>8, WriteSets DEF WriteAfter
      <3>2. MWStat'[m] = s
        BY <2>4, <2>7, <3>1
      <3> QED BY <1>3, <1>4, <2>5, <2>6, <2>7, <2>8, <3>1, <3>2 DEF WriteBefore
    <2>9. CASE w_state[s] = "W_End"
      <3>1. /\ wfor[s] = m /\ Stored(m, s) /\ wout[s] = WD /\ out[m] = WD
        BY <1>2, <2>3, <2>9, WriteSets DEF WriteAfter
      <3>2. MWStat'[m] = None
        BY <2>4, <2>7, <3>1, WriteSets
      <3> QED BY <1>3, <1>4, <2>5, <2>6, <2>7, <2>9, <3>1, <3>2 DEF WriteBefore
    <2> QED BY <1>2, <2>3, <2>8, <2>9 DEF WriteAfter
  <1> QED BY <1>6, <1>7

\* Whoever connectChannel leaves without a master is free.
LEMMA ReadFree ==
  ASSUME IInv, Phases, ConnectChannel, NEW s \in Slaves,
         \A m \in Masters : ReadLink[m] # s
  PROVE  r_state[s] = "R_Init" /\ rfor[s] = None /\ rout[s] = {} /\ rdrv[s] = {}
  <1>1. CASE rconn[s] = None
    BY <1>1 DEF Phases, ReadPart
  <1>2. CASE rconn[s] # None
    <2>1. rconn[s] \in Masters /\ ReadAfter(s, rconn[s])
      BY <1>2, AllCalled DEF IInv, TypeOK, BusType
    <2>2. MRStat[rconn[s]] # s
      <3>1. SUFFICES ASSUME MRStat[rconn[s]] = s PROVE FALSE
        OBVIOUS
      <3>2. rconn[s] \notin ReadGrants
        BY <2>1, <3>1, NoneApart, ReadGranted
      <3> QED BY <2>1, <3>1, <3>2, Connected
    <2> QED BY <2>1, <2>2 DEF ReadAfter
  <1> QED BY <1>1, <1>2

LEMMA WriteFree ==
  ASSUME IInv, Phases, ConnectChannel, NEW s \in Slaves,
         \A m \in Masters : WriteLink[m] # s
  PROVE  w_state[s] = "W_Init" /\ wfor[s] = None /\ wout[s] = {}
  <1>1. CASE wconn[s] = None
    BY <1>1 DEF Phases, WritePart
  <1>2. CASE wconn[s] # None
    <2>1. wconn[s] \in Masters /\ WriteAfter(s, wconn[s])
      BY <1>2, AllCalled DEF IInv, TypeOK, BusType
    <2>2. MWStat[wconn[s]] # s
      <3>1. SUFFICES ASSUME MWStat[wconn[s]] = s PROVE FALSE
        OBVIOUS
      <3>2. wconn[s] \notin WriteGrants
        BY <2>1, <3>1, NoneApart, WriteGranted
      <3> QED BY <2>1, <3>1, <3>2, Connected
    <2> QED BY <2>1, <2>2 DEF WriteAfter
  <1> QED BY <1>1, <1>2

LEMMA ConnectPhases ==
  ASSUME IInv, Phases, ConnectChannel
  PROVE  Phases'
  <1>1. /\ rconn' \in [Slaves -> Masters \cup {None}]
        /\ wconn' \in [Slaves -> Masters \cup {None}]
        /\ UNCHANGED <<mvars, rvars, wvars, served>>
    <2>1. IInv'
      BY ConnectStep
    <2> QED BY <2>1, Connected DEF IInv, TypeOK, BusType
  <1>2. ASSUME NEW s \in Slaves
        PROVE  ReadPart(s)'
    <2>1. CASE rconn'[s] = None
      <3>1. \A m \in Masters : ReadLink[m] # s
        BY <2>1, Connected, NoneApart
      <3>2. r_state[s] = "R_Init" /\ rfor[s] = None /\ rout[s] = {} /\ rdrv[s] = {}
        BY <3>1, ReadFree
      <3> QED BY <1>1, <2>1, <3>2 DEF ReadPart, rvars
    <2>2. CASE rconn'[s] # None
      <3>1. PICK m \in Masters : rconn'[s] = m
        BY <1>1, <2>2
      <3>2. ReadLink[m] = s
        BY <3>1, Connected
      <3>3. ReadBefore(s, m)'
        BY <3>2, ReadConnected
      <3>4. ~Called(2 * s)' /\ ~Called(2 * SC + m)'
        BY AllCalled
      <3> QED BY <2>2, <3>1, <3>3, <3>4 DEF ReadPart
    <2> QED BY <2>1, <2>2
  <1>3. ASSUME NEW s \in Slaves
        PROVE  WritePart(s)'
    <2>1. CASE wconn'[s] = None
      <3>1. \A m \in Masters : WriteLink[m] # s
        BY <2>1, Connected, NoneApart
      <3>2. w_state[s] = "W_Init" /\ wfor[s] = None /\ wout[s] = {}
        BY <3>1, WriteFree
      <3> QED BY <1>1, <2>1, <3>2 DEF WritePart, wvars
    <2>2. CASE wconn'[s] # None
      <3>1. PICK m \in Masters : wconn'[s] = m
        BY <1>1, <2>2
      <3>2. WriteLink[m] = s
        BY <3>1, Connected
      <3>3. WriteBefore(s, m)'
        BY <3>2, WriteConnected
      <3>4. ~Called(2 * s + 1)' /\ ~Called(2 * SC + m)'
        BY AllCalled
      <3> QED BY <2>2, <3>1, <3>3, <3>4 DEF WritePart
    <2> QED BY <2>1, <2>2
  <1>4. ASSUME NEW m \in Masters
        PROVE  MasterPart(m)'
    <2>1. rw_state' = rw_state /\ served' = served /\ out' = out /\ got' = got
      BY <1>1 DEF mvars
    <2>2. /\ ReadLink[m] = None => MRStat'[m] = None /\ ReadAlone(m)'
          /\ WriteLink[m] = None => MWStat'[m] = None /\ WriteAlone(m)'
      BY Connected, NoneApart DEF ReadAlone, WriteAlone
    <2>3. /\ ReadAlone(m)' => ReadLink[m] = None
          /\ WriteAlone(m)' => WriteLink[m] = None
      <3>1. ReadLink[m] \in Slaves \cup {None} /\ WriteLink[m] \in Slaves \cup {None}
        BY ReadLinkType, WriteLinkType
      <3> QED BY <3>1, Connected DEF ReadAlone, WriteAlone
    <2>4. rw_state[m] = "RW_RAddr" /\ ReadLink[m] = None => Untouched(m) /\ out[m] = RChan
      <3>1. SUFFICES ASSUME rw_state[m] = "RW_RAddr", ReadLink[m] = None
                     PROVE  ReadAlone(m)
        BY DEF Phases, MasterPart
      <3>2. MRStat[m] = None
        BY <3>1, Connected, TargetInRange, NoneApart
      <3>3. ASSUME NEW t \in Slaves, rconn[t] = m
            PROVE  FALSE
        <4>1. ReadAfter(t, m)
          BY <3>3, AllCalled, NoneApart
        <4> QED BY <3>1, <3>2, <4>1, NoneApart DEF ReadAfter
      <3> QED BY <3>3 DEF ReadAlone
    <2>5. rw_state[m] = "RW_WAddr" /\ WriteLink[m] = None => Untouched(m) /\ out[m] = WChan
      <3>1. SUFFICES ASSUME rw_state[m] = "RW_WAddr", WriteLink[m] = None
                     PROVE  WriteAlone(m)
        BY DEF Phases, MasterPart
      <3>2. MWStat[m] = None
        BY <3>1, Connected, TargetInRange, NoneApart
      <3>3. ASSUME NEW t \in Slaves, wconn[t] = m
            PROVE  FALSE
        <4>1. WriteAfter(t, m)
          BY <3>3, AllCalled, NoneApart
        <4> QED BY <3>1, <3>2, <4>1, NoneApart DEF WriteAfter
      <3> QED BY <3>3 DEF WriteAlone
    <2>6. rw_state[m] = "RW_Init" => Untouched(m)
      BY DEF Phases, MasterPart
    <2>7. rw_state[m] = "RW_WAddr" => got[m] = None
      BY DEF Phases, MasterPart
    <2>8. ReadAlone(m)' /\ WriteAlone(m)' => min'[m] = {}
      <3>1. SUFFICES ASSUME ReadAlone(m)', WriteAlone(m)'
                     PROVE  min'[m] = {} \cup {}
        OBVIOUS
      <3> QED BY <2>3, <3>1, Connected
    <2>9. /\ rw_state[m] # "RW_WAddr" => WriteLink[m] = None
          /\ rw_state[m] # "RW_RAddr" => ReadLink[m] = None
      BY OneKind
    <2>10. Untouched(m) => Untouched(m)'
      BY <2>1 DEF Untouched
    <2>11. rw_state'[m] = rw_state[m] /\ out'[m] = out[m] /\ got'[m] = got[m]
      BY <2>1
    <2> QED BY <2>2, <2>3, <2>4, <2>5, <2>6, <2>7, <2>8, <2>9, <2>10, <2>11 DEF MasterPart
  <1>5. Links'
    <2>1. ReadLink \in [Masters -> Slaves \cup {None}]
          /\ WriteLink \in [Masters -> Slaves \cup {None}]
      BY ReadLinkType, WriteLinkType
    <2>2. ASSUME NEW m \in Masters, MRStat'[m] # None
          PROVE  rconn'[MRStat'[m]] = m
      BY <2>1, <2>2, Connected
    <2>3. ASSUME NEW m \in Masters, MWStat'[m] # None
          PROVE  wconn'[MWStat'[m]] = m
      BY <2>1, <2>3, Connected
    <2>4. ASSUME NEW s \in Slaves, NEW t \in Slaves
          PROVE  /\ rconn'[s] = rconn'[t] /\ rconn'[s] # None => s = t
                 /\ wconn'[s] = wconn'[t] /\ wconn'[s] # None => s = t
      BY <1>1, Connected
    <2> QED BY <2>2, <2>3, <2>4 DEF Links
  <1> QED BY <1>2, <1>3, <1>4, <1>5 DEF Phases

-----------------------------------------------------------------------------
(* What a call leaves alone *)

SameReader(s) ==
  /\ r_state'[s] = r_state[s] /\ rout'[s] = rout[s] /\ rdrv'[s] = rdrv[s]
  /\ rdata'[s] = rdata[s] /\ rword'[s] = rword[s]
  /\ raddr_end'[s] = raddr_end[s] /\ rfor'[s] = rfor[s]

SameWriter(s) == w_state'[s] = w_state[s] /\ wout'[s] = wout[s] /\ wfor'[s] = wfor[s]

SameMaster(m) ==
  /\ rw_state'[m] = rw_state[m] /\ req'[m] = req[m] /\ out'[m] = out[m]
  /\ served'[m] = served[m] /\ got'[m] = got[m]

SameWires(m) ==
  /\ min'[m] = min[m] /\ mdata'[m] = mdata[m]
  /\ MRStat'[m] = MRStat[m] /\ MWStat'[m] = MWStat[m]

LEMMA ReadFrame ==
  ASSUME NEW s, NEW m, SameReader(s), SameMaster(m), SameWires(m)
  PROVE  /\ ReadBefore(s, m) => ReadBefore(s, m)'
         /\ ReadDuring(s, m) => ReadDuring(s, m)'
         /\ ReadAfter(s, m) => ReadAfter(s, m)'
  <1>1. Target(m)' = Target(m)
    BY DEF SameMaster, Target
  <1>2. AddrHeld(s, m) => AddrHeld(s, m)'
    BY DEF SameReader, SameMaster, AddrHeld
  <1>3. /\ Untouched(m) => Untouched(m)'
        /\ Accessed(m, s, rdata[s]) => Accessed(m, s, rdata[s])'
        /\ Accessed(m, s, rword[s]) => Accessed(m, s, rword[s])'
        /\ Accessed(m, s, mdata[m]) => Accessed(m, s, mdata[m])'
    BY Zenon DEF SameReader, SameMaster, SameWires, Untouched, Accessed
  <1>4. \A o, d, a, i : RWires(s, m, o, d, a, i) => RWires(s, m, o, d, a, i)'
    BY DEF SameReader, SameMaster, SameWires, RWires
  <1> USE <1>1, <1>2, <1>3, <1>4 DEF SameReader, SameMaster, SameWires
  <1>5. ReadBefore(s, m) => ReadBefore(s, m)'
    BY DEF ReadBefore
  <1>6. ReadDuring(s, m) => ReadDuring(s, m)'
    BY DEF ReadDuring
  <1>7. ReadAfter(s, m) => ReadAfter(s, m)'
    BY DEF ReadAfter
  <1> QED BY <1>5, <1>6, <1>7

LEMMA WriteFrame ==
  ASSUME NEW s, NEW m, SameWriter(s), SameMaster(m), SameWires(m)
  PROVE  /\ WriteBefore(s, m) => WriteBefore(s, m)'
         /\ WriteDuring(s, m) => WriteDuring(s, m)'
         /\ WriteAfter(s, m) => WriteAfter(s, m)'
  <1>1. Target(m)' = Target(m)
    BY DEF SameMaster, Target
  <1>2. (Untouched(m) => Untouched(m)') /\ (Stored(m, s) => Stored(m, s)')
    BY Zenon DEF SameMaster, Untouched, Accessed, Stored
  <1>3. \A o, a, i : WWires(s, m, o, a, i) => WWires(s, m, o, a, i)'
    BY DEF SameWriter, SameMaster, SameWires, WWires
  <1> USE <1>1, <1>2, <1>3 DEF SameWriter, SameMaster, SameWires
  <1>5. WriteBefore(s, m) => WriteBefore(s, m)'
    BY DEF WriteBefore
  <1>6. WriteDuring(s, m) => WriteDuring(s, m)'
    BY DEF WriteDuring
  <1>7. WriteAfter(s, m) => WriteAfter(s, m)'
    BY DEF WriteAfter
  <1> QED BY <1>5, <1>6, <1>7

\* A channel whose ends do nothing stays in its stage.
LEMMA ReadPartFrame ==
  ASSUME NEW s, ReadPart(s), SameReader(s), rconn' = rconn,
         rconn[s] = None \/ (SameMaster(rconn[s]) /\ SameWires(rconn[s])),
         Called(2 * s)' <=> Called(2 * s),
         rconn[s] = None \/ (Called(2 * SC + rconn[s])' <=> Called(2 * SC + rconn[s]))
  PROVE  ReadPart(s)'
  <1>1. CASE rconn[s] = None
    BY <1>1 DEF ReadPart, SameReader
  <1>2. CASE rconn[s] # None
    <2> PICK m : m = rconn[s]
      OBVIOUS
    <2>1. /\ ReadBefore(s, m) => ReadBefore(s, m)'
          /\ ReadDuring(s, m) => ReadDuring(s, m)'
          /\ ReadAfter(s, m) => ReadAfter(s, m)'
      BY <1>2, ReadFrame
    <2>2. rconn'[s] = m /\ m # None
      BY <1>2
    <2>3. Called(2 * SC + m)' <=> Called(2 * SC + m)
      BY <1>2
    <2> QED BY <2>1, <2>2, <2>3 DEF ReadPart
  <1> QED BY <1>1, <1>2

LEMMA WritePartFrame ==
  ASSUME NEW s, WritePart(s), SameWriter(s), wconn' = wconn,
         wconn[s] = None \/ (SameMaster(wconn[s]) /\ SameWires(wconn[s])),
         Called(2 * s + 1)' <=> Called(2 * s + 1),
         wconn[s] = None \/ (Called(2 * SC + wconn[s])' <=> Called(2 * SC + wconn[s]))
  PROVE  WritePart(s)'
  <1>1. CASE wconn[s] = None
    BY <1>1 DEF WritePart, SameWriter
  <1>2. CASE wconn[s] # None
    <2> PICK m : m = wconn[s]
      OBVIOUS
    <2>1. /\ WriteBefore(s, m) => WriteBefore(s, m)'
          /\ WriteDuring(s, m) => WriteDuring(s, m)'
          /\ WriteAfter(s, m) => WriteAfter(s, m)'
      BY <1>2, WriteFrame
    <2>2. wconn'[s] = m /\ m # None
      BY <1>2
    <2>3. Called(2 * SC + m)' <=> Called(2 * SC + m)
      BY <1>2
    <2> QED BY <2>1, <2>2, <2>3 DEF WritePart
  <1> QED BY <1>1, <1>2

LEMMA MasterFrame ==
  ASSUME NEW m, MasterPart(m), SameMaster(m), SameWires(m),
         rconn' = rconn, wconn' = wconn
  PROVE  MasterPart(m)'
  BY DEF MasterPart, SameMaster, SameWires, Untouched, ReadAlone, WriteAlone

LEMMA LinksFrame ==
  ASSUME Links, UNCHANGED <<MRStat, MWStat, rconn, wconn>>
  PROVE  Links'
  BY DEF Links

-----------------------------------------------------------------------------
(* Every call keeps the phases *)

\* Only one access in one slave's clock, for the master it is connected to.
ServedBy(s) == \E m \in Masters : /\ rconn[s] = m \/ wconn[s] = m
                                  /\ rw_state[m] # "RW_Init"
                                  /\ Target(m) = s /\ Served(m, s)

LEMMA ReadPhases ==
  ASSUME IInv, Phases, NEW s \in Slaves, fsmRead(s)
  PROVE  Phases' /\ (served' = served \/ ServedBy(s))
  <1>1. /\ UNCHANGED <<rw_state, req, out, got, w_state, wout, wfor, MRStat, MWStat>>
        /\ UNCHANGED <<min, mdata, rconn, wconn>>
    BY DEF fsmRead, mvars, wvars, cvars
  <1>2. ASSUME NEW t \in Slaves, t # s
        PROVE  SameReader(t)
    BY <1>2 DEF fsmRead, ReadIdle, ReadAccept, ReadWait, ReadEnd, ReadAnswer,
                SameReader, IInv, TypeOK, ReadType
  <1>3. \A t \in Slaves : SameWriter(t)
    BY <1>1 DEF SameWriter
  <1>4. \A m \in Masters : SameWires(m)
    BY <1>1 DEF SameWires
  <1>5. /\ ~Called(2 * s) /\ Called(2 * s)'
        /\ \A j \in 0 .. Calls - 2 : j # 2 * s => (Called(j)' <=> Called(j))
    BY CallNumbers, Calling DEF fsmRead
  <1>6. \A m \in Masters : ~Called(2 * SC + m)
    BY SlaveFirst DEF fsmRead, IInv, TypeOK
  <1>7. /\ \A t \in Slaves : 2 * t + 1 # 2 * s /\ (t # s => 2 * t # 2 * s)
        /\ \A m \in Masters : 2 * SC + m # 2 * s
    BY CountsAssumption DEF Slaves, Masters
  <1>8. /\ \A t \in Slaves : /\ Called(2 * t + 1)' <=> Called(2 * t + 1)
                             /\ t # s => (Called(2 * t)' <=> Called(2 * t))
        /\ \A m \in Masters : Called(2 * SC + m)' <=> Called(2 * SC + m)
    BY <1>5, <1>7, CallNumbers
  <1>9. rconn \in [Slaves -> Masters \cup {None}] /\ wconn \in [Slaves -> Masters \cup {None}]
    BY DEF IInv, TypeOK, BusType
  <1>10. Links'
    BY <1>1, LinksFrame DEF Phases
  <1>11. CASE rconn[s] = None
    <2>1. r_state[s] = "R_Init" /\ rfor[s] = None /\ rout[s] = {} /\ rdrv[s] = {}
      BY <1>11 DEF Phases, ReadPart
    <2>2. ReadIdle(s)
      BY <1>11, <2>1 DEF fsmRead, ReadIdle, ReadAccept, ReadWait, ReadEnd, ReadAnswer, RSees
    <2>3. served' = served /\ r_state' = r_state /\ rout' = rout /\ rfor' = rfor
      BY <2>2 DEF ReadIdle
    <2>4. \A m \in Masters : SameMaster(m)
      BY <1>1, <2>3 DEF SameMaster
    <2>5. ReadPart(s)'
      <3>1. rdrv'[s] = {}
        BY <2>1 DEF fsmRead, IInv, TypeOK, ReadType
      <3> QED BY <1>1, <1>11, <2>1, <2>3, <3>1 DEF ReadPart
    <2>6. ASSUME NEW t \in Slaves
          PROVE  ReadPart(t)' /\ WritePart(t)'
      <3>1. WritePart(t)'
        BY <1>1, <1>3, <1>4, <1>8, <1>9, <2>4, WritePartFrame DEF Phases
      <3>2. t # s => ReadPart(t)'
        BY <1>1, <1>2, <1>4, <1>8, <1>9, <2>4, ReadPartFrame DEF Phases
      <3> QED BY <2>5, <3>1, <3>2
    <2>7. \A m \in Masters : MasterPart(m)'
      BY <1>1, <1>4, <2>4, MasterFrame DEF Phases
    <2> QED BY <1>10, <2>3, <2>6, <2>7 DEF Phases
  <1>12. ASSUME NEW m \in Masters, rconn[s] = m
         PROVE  Phases' /\ (served' = served \/ ServedBy(s))
    <2>1. ReadBefore(s, m)
      BY <1>5, <1>12, NoneApart DEF Phases, ReadPart
    <2>2. ReadDuring(s, m)' /\ (served' = served \/ Served(m, s))
      BY <1>12, <2>1, ReadMoves
    <2>3. rw_state[m] = "RW_RAddr" /\ Target(m) = s
      BY <2>1 DEF ReadBefore
    <2>4. ASSUME NEW k \in Masters, k # m
          PROVE  SameMaster(k)
      <3>1. served'[k] = served[k]
        BY <2>2, <2>4 DEF Served, IInv, TypeOK, MasterType
      <3> QED BY <1>1, <3>1 DEF SameMaster
    <2>5. WriteAlone(m)
      BY <2>3 DEF Phases, MasterPart
    <2>6. ReadPart(s)'
      <3>1. rconn'[s] = m /\ Called(2 * s)' /\ ~Called(2 * SC + m)'
        BY <1>1, <1>5, <1>6, <1>8, <1>12
      <3> QED BY <2>2, <3>1, NoneApart DEF ReadPart
    <2>7. ASSUME NEW t \in Slaves
          PROVE  ReadPart(t)' /\ WritePart(t)'
      <3>1. WritePart(t)'
        <4>1. wconn[t] # m
          BY <2>5 DEF WriteAlone
        <4> QED BY <1>1, <1>3, <1>4, <1>8, <1>9, <2>4, <4>1, WritePartFrame DEF Phases
      <3>2. t # s => ReadPart(t)'
        <4>1. t # s => rconn[t] # m
          BY <1>12, NoneApart DEF Phases, Links
        <4> QED BY <1>1, <1>2, <1>4, <1>8, <1>9, <2>4, <4>1, ReadPartFrame DEF Phases
      <3> QED BY <2>6, <3>1, <3>2
    <2>8. ASSUME NEW k \in Masters
          PROVE  MasterPart(k)'
      <3>1. CASE k # m
        BY <1>1, <1>4, <2>4, <3>1, MasterFrame DEF Phases
      <3>2. CASE k = m
        <4>1. ~ReadAlone(k)' /\ WriteAlone(k)' /\ MWStat[k] = None
          BY <1>1, <1>12, <2>3, <2>5, <3>2 DEF Phases, MasterPart, ReadAlone, WriteAlone
        <4> QED BY <1>1, <2>3, <3>2, <4>1 DEF MasterPart
      <3> QED BY <3>1, <3>2
    <2>9. Served(m, s) => ServedBy(s)
      BY <1>12, <2>3 DEF ServedBy
    <2> QED BY <1>10, <2>2, <2>7, <2>8, <2>9 DEF Phases
  <1> QED BY <1>9, <1>11, <1>12

LEMMA WritePhases ==
  ASSUME IInv, Phases, NEW s \in Slaves, fsmWrite(s)
  PROVE  Phases' /\ (served' = served \/ ServedBy(s))
  <1>1. /\ UNCHANGED <<rw_state, req, out, got, MRStat, MWStat>>
        /\ UNCHANGED <<r_state, rout, rdrv, rdata, rword, raddr_end, rfor>>
        /\ UNCHANGED <<min, mdata, rconn, wconn>>
    BY DEF fsmWrite, mvars, rvars, cvars
  <1>2. ASSUME NEW t \in Slaves, t # s
        PROVE  SameWriter(t)
    BY <1>2 DEF fsmWrite, WriteIdle, WriteAccept, WriteWait, WriteEnd, WriteData,
                SameWriter, IInv, TypeOK, WriteType, wvars
  <1>3. \A t \in Slaves : SameReader(t)
    BY <1>1 DEF SameReader
  <1>4. \A m \in Masters : SameWires(m)
    BY <1>1 DEF SameWires
  <1>5. /\ ~Called(2 * s + 1) /\ Called(2 * s + 1)'
        /\ \A j \in 0 .. Calls - 2 : j # 2 * s + 1 => (Called(j)' <=> Called(j))
    BY CallNumbers, Calling DEF fsmWrite
  <1>6. \A m \in Masters : ~Called(2 * SC + m)
    BY SlaveFirst DEF fsmWrite, IInv, TypeOK
  <1>7. /\ \A t \in Slaves : 2 * t # 2 * s + 1 /\ (t # s => 2 * t + 1 # 2 * s + 1)
        /\ \A m \in Masters : 2 * SC + m # 2 * s + 1
    BY CountsAssumption DEF Slaves, Masters
  <1>8. /\ \A t \in Slaves : /\ Called(2 * t)' <=> Called(2 * t)
                             /\ t # s => (Called(2 * t + 1)' <=> Called(2 * t + 1))
        /\ \A m \in Masters : Called(2 * SC + m)' <=> Called(2 * SC + m)
    BY <1>5, <1>7, CallNumbers
  <1>9. rconn \in [Slaves -> Masters \cup {None}] /\ wconn \in [Slaves -> Masters \cup {None}]
    BY DEF IInv, TypeOK, BusType
  <1>10. Links'
    BY <1>1, LinksFrame DEF Phases
  <1>11. CASE wconn[s] = None
    <2>1. w_state[s] = "W_Init" /\ wfor[s] = None /\ wout[s] = {}
      BY <1>11 DEF Phases, WritePart
    <2>2. WriteIdle(s)
      BY <1>11, <2>1 DEF fsmWrite, WriteIdle, WriteAccept, WriteWait, WriteEnd, WriteData, WSees
    <2>3. served' = served /\ w_state' = w_state /\ wout' = wout /\ wfor' = wfor
      BY <2>2 DEF WriteIdle, wvars
    <2>4. \A m \in Masters : SameMaster(m)
      BY <1>1, <2>3 DEF SameMaster
    <2>5. WritePart(s)'
      BY <1>1, <1>11, <2>1, <2>3 DEF WritePart
    <2>6. ASSUME NEW t \in Slaves
          PROVE  ReadPart(t)' /\ WritePart(t)'
      <3>1. t # s => WritePart(t)'
        BY <1>1, <1>2, <1>4, <1>8, <1>9, <2>4, WritePartFrame DEF Phases
      <3>2. ReadPart(t)'
        BY <1>1, <1>3, <1>4, <1>8, <1>9, <2>4, ReadPartFrame DEF Phases
      <3> QED BY <2>5, <3>1, <3>2
    <2>7. \A m \in Masters : MasterPart(m)'
      BY <1>1, <1>4, <2>4, MasterFrame DEF Phases
    <2> QED BY <1>10, <2>3, <2>6, <2>7 DEF Phases
  <1>12. ASSUME NEW m \in Masters, wconn[s] = m
         PROVE  Phases' /\ (served' = served \/ ServedBy(s))
    <2>1. WriteBefore(s, m)
      BY <1>5, <1>12, NoneApart DEF Phases, WritePart
    <2>2. WriteDuring(s, m)' /\ (served' = served \/ Served(m, s))
      BY <1>12, <2>1, WriteMoves
    <2>3. rw_state[m] = "RW_WAddr" /\ Target(m) = s
      BY <2>1 DEF WriteBefore
    <2>4. ASSUME NEW k \in Masters, k # m
          PROVE  SameMaster(k)
      <3>1. served'[k] = served[k]
        BY <2>2, <2>4 DEF Served, IInv, TypeOK, MasterType
      <3> QED BY <1>1, <3>1 DEF SameMaster
    <2>5. ReadAlone(m)
      BY <2>3 DEF Phases, MasterPart
    <2>6. WritePart(s)'
      <3>1. wconn'[s] = m /\ Called(2 * s + 1)' /\ ~Called(2 * SC + m)'
        BY <1>1, <1>5, <1>6, <1>8, <1>12
      <3> QED BY <2>2, <3>1, NoneApart DEF WritePart
    <2>7. ASSUME NEW t \in Slaves
          PROVE  ReadPart(t)' /\ WritePart(t)'
      <3>1. t # s => WritePart(t)'
        <4>1. t # s => wconn[t] # m
          BY <1>12, NoneApart DEF Phases, Links
        <4> QED BY <1>1, <1>2, <1>4, <1>8, <1>9, <2>4, <4>1, WritePartFrame DEF Phases
      <3>2. ReadPart(t)'
        <4>1. rconn[t] # m
          BY <2>5 DEF ReadAlone
        <4> QED BY <1>1, <1>3, <1>4, <1>8, <1>9, <2>4, <4>1, ReadPartFrame DEF Phases
      <3> QED BY <2>6, <3>1, <3>2
    <2>8. ASSUME NEW k \in Masters
          PROVE  MasterPart(k)'
      <3>1. CASE k # m
        BY <1>1, <1>4, <2>4, <3>1, MasterFrame DEF Phases
      <3>2. CASE k = m
        <4>1. ~WriteAlone(k)' /\ ReadAlone(k)' /\ MRStat[k] = None /\ got[k] = None
          BY <1>1, <1>12, <2>3, <2>5, <3>2 DEF Phases, MasterPart, ReadAlone, WriteAlone
        <4> QED BY <1>1, <2>3, <3>2, <4>1 DEF MasterPart
      <3> QED BY <3>1, <3>2
    <2>9. Served(m, s) => ServedBy(s)
      BY <1>12, <2>3 DEF ServedBy
    <2> QED BY <1>10, <2>2, <2>7, <2>8, <2>9 DEF Phases
  <1> QED BY <1>9, <1>11, <1>12

\* A master's operation ends when its slave has made the access: a load with
\* the word the slave read.
Completes(m) ==
  /\ \E s \in Slaves : \/ /\ rw_state[m] = "RW_RAddr" /\ Accessed(m, s, mdata[m])
                          /\ Ends(m, mdata[m])
                       \/ /\ rw_state[m] = "RW_WAddr" /\ Stored(m, s) /\ got[m] = None
                          /\ Ends(m, got[m])

\* Where the masters are when one of them is called.
LEMMA MasterCalled ==
  ASSUME IInv, NEW m \in Masters, MasterFsm(m)
  PROVE  /\ UNCHANGED <<r_state, rout, rdrv, rdata, rword, raddr_end, rfor>>
         /\ UNCHANGED <<w_state, wout, wfor, min, mdata, MRStat, MWStat, rconn, wconn>>
         /\ \A s \in Slaves : /\ Called(2 * s) /\ Called(2 * s)'
                              /\ Called(2 * s + 1) /\ Called(2 * s + 1)'
         /\ ~Called(2 * SC + m) /\ Called(2 * SC + m)'
         /\ \A k \in Masters : k # m => (Called(2 * SC + k)' <=> Called(2 * SC + k))
         /\ \A k \in Masters : k # m => SameMaster(k)
  <1>1. /\ UNCHANGED <<r_state, rout, rdrv, rdata, rword, raddr_end, rfor>>
        /\ UNCHANGED <<w_state, wout, wfor, min, mdata, MRStat, MWStat, rconn, wconn>>
    BY DEF MasterFsm, rvars, wvars, cvars
  <1>2. /\ ~Called(2 * SC + m) /\ Called(2 * SC + m)'
        /\ \A j \in 0 .. Calls - 2 : j # 2 * SC + m => (Called(j)' <=> Called(j))
    BY CallNumbers, Calling DEF MasterFsm
  <1>3. \A s \in Slaves : 2 * s < 2 * SC + m /\ 2 * s + 1 < 2 * SC + m
                          /\ 2 * s \in 0 .. Calls - 2 /\ 2 * s + 1 \in 0 .. Calls - 2
    BY CallNumbers
  <1>4. \A s \in Slaves : Called(2 * s) /\ Called(2 * s + 1)
                          /\ 2 * s # 2 * SC + m /\ 2 * s + 1 # 2 * SC + m
    BY CountsAssumption DEF MasterFsm, Call, Called, Slaves, Masters
  <1>5. \A s \in Slaves : /\ Called(2 * s) /\ Called(2 * s)'
                          /\ Called(2 * s + 1) /\ Called(2 * s + 1)'
    BY <1>2, <1>3, <1>4
  <1>6. \A k \in Masters : k # m => (Called(2 * SC + k)' <=> Called(2 * SC + k))
    BY <1>2, CallNumbers
  <1>7. ASSUME NEW k \in Masters, k # m
        PROVE  SameMaster(k)
    BY <1>7 DEF MasterFsm, MasterIdle, AwaitRead, AwaitWrite, Handshake, Issue,
                SameMaster, mvars, IInv, TypeOK, MasterType
  <1> QED BY <1>1, <1>2, <1>5, <1>6, <1>7

\* A master no slave is connected to waits for the core or for the controller.
LEMMA AloneMoves ==
  ASSUME IInv, Phases, NEW m \in Masters, MasterFsm(m), ReadAlone(m), WriteAlone(m)
  PROVE  /\ MasterPart(m)'
         /\ Stays \/ \E r \in Requests : Issue(m, r)
  <1>1. /\ min[m] = {} /\ UNCHANGED <<min, mdata, MRStat, MWStat, rconn, wconn>>
    BY MasterCalled DEF Phases, MasterPart
  <1>2. /\ rw_state \in [Masters -> {"RW_Init", "RW_RAddr", "RW_WAddr"}]
        /\ out \in [Masters -> Asserted] /\ got \in [Masters -> Word]
        /\ req \in [Masters -> Requests \cup {None}]
        /\ served \in [Masters -> Seq([dev : Slaves, data : Data])]
    BY DEF IInv, TypeOK, MasterType
  <1>3. MasterPart(m)
    BY DEF Phases
  <1>4. SameWires(m)
    BY <1>1 DEF SameWires
  <1>5. CASE MasterIdle(m)
    <2>1. SameMaster(m) /\ Stays
      BY <1>5 DEF MasterIdle, SameMaster, mvars, Stays
    <2> QED BY <1>1, <1>3, <1>4, <2>1, MasterFrame
  <1>6. CASE AwaitRead(m)
    <2>1. rw_state[m] = "RW_RAddr" /\ out[m] = RChan
      BY <1>3, <1>6 DEF AwaitRead, MasterPart
    <2>2. out[m] \ (min[m] \cap RChan) = out[m] /\ out[m] # {}
      BY <1>1, <2>1, ReadSets
    <2>3. SameMaster(m) /\ Stays
      BY <1>1, <1>2, <1>6, <2>2 DEF AwaitRead, Handshake, SameMaster, Stays
    <2> QED BY <1>1, <1>3, <1>4, <2>3, MasterFrame
  <1>7. CASE AwaitWrite(m)
    <2>1. rw_state[m] = "RW_WAddr" /\ out[m] = WChan
      BY <1>3, <1>7 DEF AwaitWrite, MasterPart
    <2>2. out[m] \ (min[m] \cap WChan) = out[m] /\ out[m] # {}
      BY <1>1, <2>1, WriteSets
    <2>3. SameMaster(m) /\ Stays
      BY <1>1, <1>2, <1>7, <2>2 DEF AwaitWrite, Handshake, SameMaster, Stays
    <2> QED BY <1>1, <1>3, <1>4, <2>3, MasterFrame
  <1>8. ASSUME NEW r \in Requests, Issue(m, r)
        PROVE  MasterPart(m)'
    <2>1. /\ rw_state[m] = "RW_Init" /\ served' = served /\ got'[m] = None
          /\ \/ rw_state'[m] = "RW_RAddr" /\ out'[m] = RChan
             \/ rw_state'[m] = "RW_WAddr" /\ out'[m] = WChan
      BY <1>2, <1>8 DEF Issue
    <2>2. Untouched(m) /\ MRStat[m] = None /\ MWStat[m] = None
      BY <1>3, <2>1 DEF MasterPart
    <2>3. /\ Untouched(m)' /\ MRStat'[m] = None /\ MWStat'[m] = None
          /\ ReadAlone(m)' /\ WriteAlone(m)' /\ min'[m] = {}
      BY <1>1, <2>1, <2>2 DEF Untouched, ReadAlone, WriteAlone
    <2> QED BY <2>1, <2>3 DEF MasterPart
  <1> QED BY <1>5, <1>6, <1>7, <1>8 DEF MasterFsm

LEMMA MasterPhases ==
  ASSUME IInv, Phases, NEW m \in Masters, MasterFsm(m)
  PROVE  /\ Phases'
         /\ \/ Stays
            \/ \E r \in Requests : Issue(m, r)
            \/ Completes(m)
  <1>1. /\ \A s \in Slaves : SameReader(s) /\ SameWriter(s)
        /\ \A k \in Masters : SameWires(k)
    BY MasterCalled DEF SameReader, SameWriter, SameWires
  <1>2. rconn' = rconn /\ wconn' = wconn /\ MRStat' = MRStat /\ MWStat' = MWStat
    BY MasterCalled
  <1>3. rconn \in [Slaves -> Masters \cup {None}] /\ wconn \in [Slaves -> Masters \cup {None}]
    BY DEF IInv, TypeOK, BusType
  <1>4. ASSUME NEW s \in Slaves
        PROVE  /\ rconn[s] # m => ReadPart(s)'
               /\ wconn[s] # m => WritePart(s)'
    <2>1. ReadPart(s) /\ WritePart(s)
      BY DEF Phases
    <2>2. ASSUME rconn[s] # m PROVE ReadPart(s)'
      BY <1>1, <1>2, <1>3, <2>1, <2>2, MasterCalled, ReadPartFrame
    <2>3. ASSUME wconn[s] # m PROVE WritePart(s)'
      BY <1>1, <1>2, <1>3, <2>1, <2>3, MasterCalled, WritePartFrame
    <2> QED BY <2>2, <2>3
  <1>5. ASSUME NEW k \in Masters, k # m
        PROVE  MasterPart(k)'
    BY <1>1, <1>2, <1>5, MasterCalled, MasterFrame DEF Phases
  <1>6. Links'
    BY <1>2, LinksFrame DEF Phases
  <1>7. CASE ReadAlone(m) /\ WriteAlone(m)
    <2>1. MasterPart(m)' /\ (Stays \/ \E r \in Requests : Issue(m, r))
      BY <1>7, AloneMoves
    <2>2. \A s \in Slaves : ReadPart(s)' /\ WritePart(s)'
      BY <1>4, <1>7 DEF ReadAlone, WriteAlone
    <2> QED BY <1>5, <1>6, <2>1, <2>2 DEF Phases
  <1>8. ASSUME NEW s \in Slaves, rconn[s] = m
        PROVE  Phases' /\ (Stays \/ Completes(m))
    <2>1. ReadDuring(s, m)
      BY <1>8, MasterCalled, NoneApart DEF Phases, ReadPart
    <2>2. /\ ReadAfter(s, m)'
          /\ \/ Stays
             \/ Accessed(m, s, mdata[m]) /\ MRStat[m] = None /\ Ends(m, mdata[m])
      BY <2>1, MasterReads
    <2>3. rw_state[m] = "RW_RAddr"
      BY <2>1 DEF ReadDuring
    <2>4. WriteAlone(m) /\ MWStat[m] = None
      BY <2>3 DEF Phases, MasterPart
    <2>5. ReadPart(s)'
      BY <1>2, <1>8, <2>2, MasterCalled, NoneApart DEF ReadPart
    <2>6. ASSUME NEW t \in Slaves
          PROVE  ReadPart(t)' /\ WritePart(t)'
      <3>1. t # s => rconn[t] # m
        BY <1>8, NoneApart DEF Phases, Links
      <3> QED BY <1>4, <2>4, <2>5, <3>1 DEF WriteAlone
    <2>7. ~ReadAlone(m)' /\ WriteAlone(m)' /\ MWStat'[m] = None
      BY <1>2, <1>8, <2>4 DEF ReadAlone, WriteAlone
    <2>8. MasterPart(m)'
      <3>1. CASE Stays
        <4>1. rw_state'[m] = "RW_RAddr"
          BY <2>3, <3>1 DEF Stays
        <4> QED BY <2>7, <4>1 DEF MasterPart
      <3>2. CASE MRStat[m] = None /\ Ends(m, mdata[m])
        <4>1. rw_state'[m] = "RW_Init" /\ Untouched(m)' /\ MRStat'[m] = None
          BY <1>2, <3>2 DEF Ends, Untouched, IInv, TypeOK, MasterType
        <4> QED BY <2>7, <4>1 DEF MasterPart
      <3> QED BY <2>2, <3>1, <3>2
    <2>9. Stays \/ Completes(m)
      BY <2>2, <2>3 DEF Completes
    <2> QED BY <1>5, <1>6, <2>6, <2>8, <2>9 DEF Phases
  <1>9. ASSUME NEW s \in Slaves, wconn[s] = m
        PROVE  Phases' /\ (Stays \/ Completes(m))
    <2>1. WriteDuring(s, m)
      BY <1>9, MasterCalled, NoneApart DEF Phases, WritePart
    <2>2. /\ WriteAfter(s, m)'
          /\ \/ Stays
             \/ Stored(m, s) /\ MWStat[m] = None /\ Ends(m, got[m])
      BY <2>1, MasterWrites
    <2>3. rw_state[m] = "RW_WAddr"
      BY <2>1 DEF WriteDuring
    <2>4. ReadAlone(m) /\ MRStat[m] = None /\ got[m] = None
      BY <2>3 DEF Phases, MasterPart
    <2>5. WritePart(s)'
      BY <1>2, <1>9, <2>2, MasterCalled, NoneApart DEF WritePart
    <2>6. ASSUME NEW t \in Slaves
          PROVE  ReadPart(t)' /\ WritePart(t)'
      <3>1. t # s => wconn[t] # m
        BY <1>9, NoneApart DEF Phases, Links
      <3> QED BY <1>4, <2>4, <2>5, <3>1 DEF ReadAlone
    <2>7. ~WriteAlone(m)' /\ ReadAlone(m)' /\ MRStat'[m] = None
      BY <1>2, <1>9, <2>4 DEF ReadAlone, WriteAlone
    <2>8. MasterPart(m)'
      <3>1. CASE Stays
        <4>1. rw_state'[m] = "RW_WAddr" /\ got'[m] = None
          BY <2>3, <2>4, <3>1 DEF Stays
        <4> QED BY <2>7, <4>1 DEF MasterPart
      <3>2. CASE MWStat[m] = None /\ Ends(m, got[m])
        <4>1. rw_state'[m] = "RW_Init" /\ Untouched(m)' /\ MWStat'[m] = None
          BY <1>2, <3>2 DEF Ends, Untouched, IInv, TypeOK, MasterType
        <4> QED BY <2>7, <4>1 DEF MasterPart
      <3> QED BY <2>2, <3>1, <3>2
    <2>9. Stays \/ Completes(m)
      BY <2>2, <2>3, <2>4 DEF Completes
    <2> QED BY <1>5, <1>6, <2>6, <2>8, <2>9 DEF Phases
  <1> QED BY <1>7, <1>8, <1>9 DEF ReadAlone, WriteAlone

-----------------------------------------------------------------------------
LEMMA PhasesInit == Init => Phases
  <1> SUFFICES ASSUME Init PROVE Phases
    OBVIOUS
  <1> USE DEF Init
  <1>1. ASSUME NEW s \in Slaves
        PROVE  ReadPart(s) /\ WritePart(s)
    BY DEF ReadPart, WritePart
  <1>2. ASSUME NEW m \in Masters
        PROVE  MasterPart(m)
    BY DEF MasterPart, Untouched
  <1>3. Links
    BY DEF Links
  <1> QED BY <1>1, <1>2, <1>3 DEF Phases

LEMMA PhasesStutter ==
  ASSUME Phases, UNCHANGED vars
  PROVE  Phases'
  <1>1. /\ \A s : SameReader(s) /\ SameWriter(s)
        /\ \A m : SameMaster(m) /\ SameWires(m)
        /\ rconn' = rconn /\ wconn' = wconn /\ \A k : Called(k)' <=> Called(k)
        /\ UNCHANGED <<MRStat, MWStat, rconn, wconn>>
    BY DEF vars, mvars, rvars, wvars, cvars, SameReader, SameWriter, SameMaster,
           SameWires, Called
  <1>2. \A s \in Slaves : ReadPart(s)' /\ WritePart(s)'
    BY <1>1, ReadPartFrame, WritePartFrame DEF Phases
  <1>3. \A m \in Masters : MasterPart(m)'
    BY <1>1, MasterFrame DEF Phases
  <1>4. Links'
    BY <1>1, LinksFrame DEF Phases
  <1> QED BY <1>2, <1>3, <1>4 DEF Phases

LEMMA PhasesNext == IInv /\ Phases /\ [Next]_vars => Phases'
  BY ReadPhases, WritePhases, MasterPhases, ConnectPhases, PhasesStutter DEF Next

-----------------------------------------------------------------------------
(* Every step is a step of the transaction, or none *)

LEMMA StartsEmpty == Init => Transaction!Init
  BY DEF Init, Transaction!Init

LEMMA ServedIsAccess ==
  ASSUME IInv, NEW s \in Slaves, ServedBy(s), UNCHANGED <<rw_state, req, got>>
  PROVE  Transaction!Next
  <1>1. PICK m \in Masters, d \in Data :
          /\ rw_state[m] # "RW_Init" /\ Target(m) = s /\ Untouched(m)
          /\ served' = [served EXCEPT ![m] = <<[dev |-> s, data |-> d]>>]
          /\ req[m].kind = "Write" => d = req[m].data
    BY DEF ServedBy, Served
  <1>2. req[m] # None
    BY <1>1, NoneApart DEF IInv, TypeOK, MasterType, OutputsMatchState
  <1>3. Transaction!Access(m, d)
    BY <1>1, <1>2 DEF Transaction!Access, Target, Untouched
  <1> QED BY <1>3 DEF Transaction!Next

LEMMA IssueIsIssue ==
  ASSUME IInv, NEW m \in Masters, NEW r \in Requests, Issue(m, r)
  PROVE  Transaction!Next
  <1>1. Transaction!Issue(m, r)
    BY DEF Issue, Transaction!Issue, IInv, TypeOK, MasterType
  <1> QED BY <1>1 DEF Transaction!Next

LEMMA CompletesIsComplete ==
  ASSUME IInv, NEW m \in Masters, Completes(m)
  PROVE  Transaction!Next
  <1>1. PICK s \in Slaves :
          \/ rw_state[m] = "RW_RAddr" /\ Accessed(m, s, mdata[m]) /\ Ends(m, mdata[m])
          \/ /\ rw_state[m] = "RW_WAddr" /\ Stored(m, s) /\ got[m] = None
             /\ Ends(m, got[m])
    BY DEF Completes
  <1>2. PICK d, w :
          /\ Accessed(m, s, d) /\ Ends(m, w) /\ rw_state[m] # "RW_Init"
          /\ w = IF req[m].kind = "Read" THEN d ELSE None
    BY <1>1 DEF Stored, IInv, OutputsMatchState
  <1>3. req[m] # None
    BY <1>2, NoneApart DEF IInv, TypeOK, MasterType, OutputsMatchState
  <1>4. served[m] # <<>> /\ served[m][1].data = d
    BY <1>2 DEF Accessed
  <1>5. /\ \A k \in Masters : rw_state'[k] = IF k = m THEN "RW_Init" ELSE rw_state[k]
        /\ \A k \in Masters : req'[k] = IF k = m THEN None ELSE req[k]
        /\ \A k \in Masters : got'[k] = IF k = m THEN w ELSE got[k]
        /\ served' = [served EXCEPT ![m] = <<>>]
    BY <1>2 DEF Ends, IInv, TypeOK, MasterType
  <1> DEFINE op == [k \in Masters |-> IF rw_state[k] = "RW_Init" THEN None ELSE req[k]]
             result == [k \in Masters |-> IF rw_state[k] = "RW_Init" THEN got[k] ELSE None]
  <1>6. op[m] = req[m]
    BY <1>2
  <1>7. op' = [op EXCEPT ![m] = None]
    BY <1>5
  <1>8. result' = [result EXCEPT ![m] = w]
    BY <1>5
  <1>9. Transaction!Complete(m)
    BY <1>2, <1>3, <1>4, <1>5, <1>6, <1>7, <1>8 DEF Transaction!Complete
  <1> QED BY <1>9 DEF Transaction!Next

LEMMA Simulation ==
  ASSUME IInv, Phases, [Next]_vars
  PROVE  [Transaction!Next]_(Transaction!vars)
  <1>1. ASSUME UNCHANGED <<rw_state, req, served, got>>
        PROVE  UNCHANGED Transaction!vars
    BY <1>1 DEF Transaction!vars
  <1>2. ASSUME NEW s \in Slaves, fsmRead(s) \/ fsmWrite(s)
        PROVE  [Transaction!Next]_(Transaction!vars)
    <2>1. served' = served \/ ServedBy(s)
      BY <1>2, ReadPhases, WritePhases
    <2>2. UNCHANGED <<rw_state, req, got>>
      BY <1>2 DEF fsmRead, fsmWrite, mvars
    <2> QED BY <1>1, <2>1, <2>2, ServedIsAccess
  <1>3. ASSUME NEW m \in Masters, MasterFsm(m)
        PROVE  [Transaction!Next]_(Transaction!vars)
    BY <1>1, <1>3, MasterPhases, IssueIsIssue, CompletesIsComplete DEF Stays
  <1>4. CASE ConnectChannel
    BY <1>1, <1>4 DEF ConnectChannel, mvars
  <1>5. CASE UNCHANGED vars
    BY <1>1, <1>5 DEF vars, mvars
  <1> QED BY <1>2, <1>3, <1>4, <1>5 DEF Next

\* Whatever masters, devices and arbitration do, a channel between a slave and
\* its master is in one of the stages listed: neither side ever sees a
\* handshake of another operation.
THEOREM PhasesInvariant == Spec => []Phases
  BY Invariance, PhasesInit, PhasesNext, PTL DEF Spec

\* Every run of the interconnect is a run of BusTransaction: an operation makes
\* one access to the addressed device and a load returns the word read by that
\* access, for any number of masters contending for any number of slaves.
THEOREM AccessCorrect == Spec => ExactlyOneAccess
  BY Invariance, PhasesInvariant, StartsEmpty, Simulation, PTL
     DEF Spec, ExactlyOneAccess, Transaction!Spec
=============================================================================
