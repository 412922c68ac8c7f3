----------------------------- MODULE FilterAxi -----------------------------
(***************************************************************************)
(* The image filter on the bus (filterNxM.axi.hpp): a slave of AxiBurst    *)
(* with the register interface that codeGenRegIF generates for it, a       *)
(* stream of pixels in, a stream of filtered pixels out.  A write to a     *)
(* register stops the stream; the filter starts again while the register   *)
(* reset is 1.                                                             *)
(*                                                                         *)
(* A pixel is its place in the stream since the last start, and a filtered *)
(* pixel the window it is computed from: the sum over the window (Kernel)  *)
(* is left out, and the registers it reads (coef, clip) with it, but not   *)
(* that writing them stops the stream.                                     *)
(***************************************************************************)
EXTENDS AxiBurst, LineBuffer, FiniteSets

CONSTANTS Builds,        \* [kind, border]: the line buffer, "Simple", "ReadFirst" or
                         \* "Interleaved", and how borders are filled, "001" or "101"
          PIPE_COUNT,    \* only the depth of the queue depends on it: see DEPTH
          Sizes,         \* sizes of pictures, <<width, height>>
          Ops,           \* what masters may ask for
          MaxOps, MaxIn  \* bounds: operations in all, pixels since a start

Registers == {"reset", "width", "height"}
Addresses == Registers \cup {"initialized", "coef", "nowhere"}
Operations ==
  [kind : {"Read"}, addr : Addresses \ {"coef"}, len : 0 .. 255, words : {<<>>}]
  \cup [kind : {"Write"}, addr : Addresses, len : 0 .. 255, words : Seq(Int)]

ASSUME BoundsAssumption == {PIPE_COUNT, MaxWidth, MaxOps, MaxIn} \subseteq Nat
ASSUME WindowAssumption == FH \in Nat /\ FW \in Nat /\ FH % 2 = 1 /\ FW % 2 = 1 /\ FH > 1 /\ FW > 1
ASSUME SizesAssumption ==
  \A s \in Sizes : s[1] \in FW - 1 .. MaxWidth /\ s[2] \in FH - 1 .. MaxIn
ASSUME BuildsAssumption ==
  Builds \subseteq [kind : {"Simple", "ReadFirst", "Interleaved"}, border : {"001", "101"}]
ASSUME OpsAssumption ==
  \A op \in Ops : op \in Operations /\ (op.kind = "Write" => Len(op.words) = op.len + 1)
\* reset is a flag, and a picture has a size that the filter was built for.
ASSUME WordsAssumption ==
  \A op \in Ops : \A i \in DOMAIN op.words :
    /\ op.addr = "reset" => op.words[i] \in {0, 1}
    /\ op.addr = "width" => op.words[i] \in FW - 1 .. MaxWidth
    /\ op.addr = "height" => op.words[i] \in FH - 1 .. MaxIn

VARIABLES
  build,      \* which filter was built
  \* registers; lbw: line buffers and window; outFifo; its output was held up, now
  \* and a clock ago
  reg, initialized, lbw, outFifo, out_pending, outPending,
  \* history: sizes at the last start, pixels taken since, windows given, the last
  size, taken, given, last,
  \* operations so far
  ops

regvars == <<reg, initialized>>
fltvars == <<regvars, lbw, outFifo, out_pending, outPending, size, taken, given, last>>
vars == <<build, busvars, fltvars, ops>>

FilterInit ==
  /\ Init /\ ops = 0
  /\ build \in Builds
  /\ \E s \in Sizes : /\ reg = [reset |-> 0, width |-> s[1], height |-> s[2]]
                      /\ size = s
  /\ initialized = FALSE /\ lbw = InitLbw(build.kind) /\ outFifo = <<>>
  /\ out_pending = FALSE /\ outPending = FALSE
  /\ taken = 0 /\ given = 0 /\ last = None

-----------------------------------------------------------------------------
(* The register interface: devRead, devWrite and fsmUser *)

RegRead(addr) == CASE addr \in Registers -> reg[addr]
                   [] addr = "initialized" -> IF initialized THEN 1 ELSE 0
                   [] OTHER -> 0
\* Only a register that can be written raises writeFlag.
writeFlag == devWriteFlag /\ waddr \in Registers \cup {"coef"}
RegWritten ==
  IF devWriteFlag /\ waddr \in Registers THEN [reg EXCEPT ![waddr] = dout[wconn]] ELSE reg

-----------------------------------------------------------------------------
(* FLT_PRG_AXI::Step *)

\* UpdateRegIF
init == reg.reset = 1 /\ ~initialized
curReady == initialized /\ ~outPending
\* Mutation: a write to a register does not stop the stream.
UpdateRegIFGoesOn ==
  /\ reg' = RegWritten
  /\ initialized' = (reg.reset = 1)
UpdateRegIF ==
  /\ reg' = RegWritten
  /\ initialized' = (reg.reset = 1 /\ ~writeFlag)

\* PIPE_COUNT is the number of stages that _C2R_FUNC_T, a directive to the compiler for
\* hardware, would cut Step into; USE_C2R_MODULE, under which it stands, is not defined,
\* and Step is one stage here: a window is in the queue in the clock of its pixel.
\* Mutation of DEPTH: no room for the pixel that comes before the input has stopped.
DEPTHShort == PIPE_COUNT + 2
DEPTH == PIPE_COUNT + 3

\* AXI_ST_FIFO::Update: it gives its first while the consumer is ready, and takes a
\* window unless it was full.
FifoUpdate(windows, ready) ==
  LET kept == IF ready /\ outFifo # <<>> THEN Tail(outFifo) ELSE outFifo
  IN /\ outFifo' = IF Len(outFifo) = DEPTH THEN kept ELSE kept \o windows
     /\ out_pending' = (outFifo # <<>> /\ ~ready)
     /\ IF ready /\ outFifo # <<>>
        THEN given' = given + 1 /\ last' = Head(outFifo)
        ELSE UNCHANGED <<given, last>>

\* A start forgets lines, window and what had not left yet.
Start ==
  /\ init
  /\ lbw' = InitLbw(build.kind) /\ outFifo' = <<>> /\ out_pending' = FALSE
  /\ size' = <<reg'.width, reg'.height>> /\ taken' = 0 /\ given' = 0 /\ last' = None

\* No pixel, or not the filter's turn to take it.
Drain(ready) ==
  /\ ~init
  /\ FifoUpdate(<<>>, ready)
  /\ UNCHANGED <<lbw, size, taken>>

\* The registers that lbw sees are those of this clock, already written.
TakePixel(ready) ==
  LET imW == reg'.width
      imH == reg'.height
      pix == taken + 1
  IN /\ ~init /\ curReady /\ taken < MaxIn
     /\ lbw' = Update(lbw, build.kind, build.border, pix, imW, imH)
     /\ FifoUpdate(IF Valid(lbw) THEN <<Window(lbw, build.kind, build.border, pix, imW, imH)>>
                   ELSE <<>>, ready)
     /\ taken' = pix
     /\ UNCHANGED size

Step(ready) ==
  /\ Slave(RegRead(raddr))
  /\ UpdateRegIF
  /\ outPending' = out_pending
  /\ \/ Start
     \/ Drain(ready)
     \/ TakePixel(ready)
  /\ UNCHANGED <<build, ops>>

Master(m) ==
  /\ \/ MasterFsm(m) /\ UNCHANGED ops
     \/ \E op \in Ops : MasterStarts(m, op) /\ ops < MaxOps /\ ops' = ops + 1
  /\ UNCHANGED <<build, fltvars>>

Connect == ConnectChannel /\ UNCHANGED <<build, fltvars, ops>>

Next == \/ \E ready \in BOOLEAN : Step(ready)
        \/ \E m \in Masters : Master(m)
        \/ Connect

Spec == FilterInit /\ [][Next]_vars

\* The clock does not stop, and who takes the filtered pixels is ready again and again.
FairSpec == Spec /\ WF_vars(Next) /\ SF_vars(Step(TRUE))

-----------------------------------------------------------------------------
\* Types.  A width that shrinks in the middle of a line leaves the position past the
\* line, and past the memory if the line was the longest, until the start that follows.
TypeOK ==
  /\ BusTypeOK /\ build \in Builds
  /\ reg.reset \in {0, 1} /\ <<reg.width, reg.height>> \in Seq(Nat)
  /\ {initialized, out_pending, outPending} \subseteq BOOLEAN
  /\ lbw.lb.pos_x \in 0 .. MaxWidth /\ lbw.lb.lb_pos_y \in 0 .. FHX(build.kind) - 1
  /\ initialized => lbw.lb.pos_x < reg.width /\ lbw.lb.pos_y < reg.height
  /\ Len(outFifo) <= DEPTH
  /\ taken \in 0 .. MaxIn /\ given \in 0 .. taken /\ ops \in 0 .. MaxOps

\* Windows that the pixels taken so far complete.
Complete == IF taken > Latency(size[1]) THEN taken - Latency(size[1]) ELSE 0

\* The interleaved buffer writes a pixel when the next one comes, to the bank that one
\* does not use.  At an odd width the last pixel of a line and the first of the next use
\* the same bank: the pixel lands in the other one, and some windows hold a pixel that
\* is none of theirs.
EvenWidth == build.kind = "Interleaved" => size[1] % 2 = 0

\* Property: what leaves is the picture, filtered: window n is cut out around pixel
\* n of the frames that went in since the last start, with the sizes of that start,
\* borders filled in, however the pixels came and however long the consumer was not
\* ready; none is lost in the queue, which must hold what is still under way when
\* the input stops a clock late; none of an older stream or with half-changed
\* sizes ever leaves.  Of the interleaved buffer at odd widths only the number of
\* windows is right.
StreamIsFiltered ==
  /\ EvenWidth /\ given > 0 => last = Cut(build.border, given - 1, size[1], size[2])
  /\ size = <<reg.width, reg.height>> =>
       /\ given + Len(outFifo) = Complete
       /\ EvenWidth => \A i \in DOMAIN outFifo :
                         outFifo[i] = Cut(build.border, given + i - 1, size[1], size[2])

\* Property: nothing hangs.  Every transfer a master starts ends, if the slave can count
\* its words, also when another master's is too long; and every window that is complete
\* leaves.
EverythingEnds ==
  /\ \A m \in Masters : (req[m] # None /\ req[m].len < CountMod) ~> (rw_state[m] = "RW_Init")
  /\ (outFifo # <<>>) ~> (outFifo = <<>>)
=============================================================================
