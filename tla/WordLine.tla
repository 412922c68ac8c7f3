------------------------------ MODULE WordLine ------------------------------
(***************************************************************************)
(* What a pair of UARTs promises, seen from the words: those the sender    *)
(* accepts go over the line one by one and in order, and arrive in the     *)
(* receiver's buffer unless that is full.  UartIrq moves words like this.  *)
(***************************************************************************)
EXTENDS Naturals, Sequences

CONSTANTS BufSize, Word

VARIABLES
  txbuf,   \* words accepted
  flight,  \* words on the line
  rxbuf    \* words received and not read

Init == txbuf = <<>> /\ flight = <<>> /\ rxbuf = <<>>

One(flag, q) == IF flag THEN <<Head(q)>> ELSE <<>>
Rest(flag, q) == IF flag THEN Tail(q) ELSE q

\* One clock: a word is put or not, one is taken by the transmitter, one
\* arrives, one is read.
Next ==
  \E put \in {<<>>} \cup {<<w>> : w \in Word}, load, arrive, read \in BOOLEAN :
    /\ put # <<>> => Len(txbuf) < BufSize
    /\ load => txbuf # <<>>
    /\ arrive => flight # <<>>
    /\ read => rxbuf # <<>>
    /\ txbuf' = Rest(load, txbuf) \o put
    /\ flight' = Rest(arrive, flight) \o One(load, txbuf)
    /\ rxbuf' = Rest(read, rxbuf) \o One(arrive /\ Len(rxbuf) < BufSize, flight)
=============================================================================
