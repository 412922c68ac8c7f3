----------------------------- MODULE MCUartLine -----------------------------
(***************************************************************************)
(* Settings and words for UartLine.                                        *)
(***************************************************************************)
EXTENDS UartLine

Alternating(b, first) == [i \in 1 .. b |-> (i + first) % 2]
TwoWords(b) == {Alternating(b, 0), [i \in 1 .. b |-> 0]}

\* UART_PARAM of the firmware at the fastest rate, each parity, each length, one and
\* two stop bits, and the one of 1.5 bits with a parity.
Settings ==
  {[baud |-> 15, length |-> 3, stop |-> 0, parity |-> 0],
   [baud |-> 15, length |-> 0, stop |-> 0, parity |-> 1],
   [baud |-> 7,  length |-> 0, stop |-> 0, parity |-> 3],
   [baud |-> 7,  length |-> 1, stop |-> 1, parity |-> 0],
   [baud |-> 15, length |-> 2, stop |-> 1, parity |-> 5],
   [baud |-> 15, length |-> 0, stop |-> 0, parity |-> 7],
   [baud |-> 7,  length |-> 0, stop |-> 1, parity |-> 1]}
=============================================================================
