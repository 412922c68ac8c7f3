--------------------------- MODULE BusTransaction ---------------------------
(***************************************************************************)
(* What the AXI channels promise the core: an operation it issues accesses *)
(* exactly one device, the addressed one, exactly once, and a load returns *)
(* what that access read.  Channels, arbitration and clocks are invisible. *)
(***************************************************************************)
EXTENDS Sequences

CONSTANTS Masters, Slaves, Requests, Data, None,
          Device(_)     \* the device an operation is addressed to

VARIABLES op,      \* the operation each master is waiting for, or None
          served,  \* the accesses the devices have made for it
          result   \* the word the last load returned, None while waiting

vars == <<op, served, result>>

Init == /\ op = [m \in Masters |-> None]
        /\ served = [m \in Masters |-> <<>>]
        /\ result = [m \in Masters |-> None]

Issue(m, r) ==
  /\ op[m] = None
  /\ op' = [op EXCEPT ![m] = r]
  /\ result' = [result EXCEPT ![m] = None]
  /\ UNCHANGED served

Access(m, d) ==
  /\ op[m] # None
  /\ served[m] = <<>>
  /\ op[m].kind = "Write" => d = op[m].data
  /\ served' = [served EXCEPT ![m] = <<[dev |-> Device(op[m]), data |-> d]>>]
  /\ UNCHANGED <<op, result>>

Complete(m) ==
  /\ op[m] # None
  /\ served[m] # <<>>
  /\ op' = [op EXCEPT ![m] = None]
  /\ result' = [result EXCEPT ![m] =
                  IF op[m].kind = "Read" THEN served[m][1].data ELSE None]
  /\ served' = [served EXCEPT ![m] = <<>>]

Next == \E m \in Masters : \/ \E r \in Requests : Issue(m, r)
                           \/ \E d \in Data : Access(m, d)
                           \/ Complete(m)

Spec == Init /\ [][Next]_vars
=============================================================================
