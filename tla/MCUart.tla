------------------------------- MODULE MCUart -------------------------------
(***************************************************************************)
(* The loads under which UartIrq is checked.                               *)
(***************************************************************************)
EXTENDS UartIrq

\* Receiving at line speed; sending more than ring, hardware buffer and shifter
\* hold; both, with the lines as fast as the clock.
EachWayAndBoth == {[rx |-> 3, tx |-> 0, slow |-> TRUE],
                   [rx |-> 0, tx |-> 7, slow |-> TRUE],
                   [rx |-> 2, tx |-> 2, slow |-> FALSE]}

\* Both directions at line speed.
BothWays == {[rx |-> 2, tx |-> 2, slow |-> TRUE]}
=============================================================================
