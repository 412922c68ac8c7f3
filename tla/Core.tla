-------------------------------- MODULE Core --------------------------------
(***************************************************************************)
(* The multi-cycle core RV32I_ARCH1 (rv32.cpp): T-states, stalls by device *)
(* accesses, by the multiplier and by the debugger, interrupts and wfi.    *)
(* A step is one call of RV32I_ARCH1::step, one clock.  The wires that     *)
(* reset_sig clears are operators over the state; the bus and the devices  *)
(* are a delay and a word (AxiBus: an access happens once); of SYSCTRL     *)
(* there is what is pending.  Code addresses are instruction numbers, and  *)
(* the program is apart from the data.                                     *)
(***************************************************************************)
EXTENDS RV32I, Sequences

CONSTANTS
  Regs,        \* register numbers
  Mtvec,       \* address of the trap handler
  Words,       \* words a device answers, by the bytes asked for
  MaxIrq       \* bound: interrupts raised
ASSUME RegsAssumption == /\ 0 \in Regs /\ Regs \subseteq Word /\ Mtvec \in Word
                         /\ Words \in [{1, 2, 4} -> SUBSET Word] /\ MaxIrq \in Nat

VARIABLES
  prog,                                   \* the program in memory
  \* RV32I_ARCH1: T.sc, pc, tr, ir, flg, register file, data memory
  T, pc, tr, ir, flg, xreg, mem,
  \* MEMORY: dout (as an instruction and as data), byte_pos, ld_type;  MD: a, b, c, stt
  dout, byte_pos, ld_type, md,
  \* IO: the operation under way, latched_data, IO_LD_completed
  pending_op, latched, IO_LD_completed,
  csr, mip,
  \* DBG_STATE: step_pending, step_halt_condition, step_target_pc;  dbg->idx
  dbg, com,
  \* SYSCTRL: enabled interrupts pending, of the buttons and others
  button, other,
  \* history: device accesses, interrupts raised, instructions and calls less
  \* returns from the press that let the core go until the debugger stops it
  ops, irqs, since, depth

cpu == <<pc, tr, ir, flg, xreg>>
vars == <<prog, T, cpu, mem, dout, byte_pos, ld_type, md, pending_op, latched,
          IO_LD_completed, csr, mip, dbg, com, button, other, ops, irqs, since, depth>>

DBG_run == 0
DBG_step_cycle == 1
DBG_step_in == 2
DBG_step_over == 3
DBG_step_out == 4
DBG_ignore_wfi == 8

R_ra == 1

\* Zero-initialised: a word of zeros is no instruction.
NoInst == [opcode |-> "none", rd |-> 0, rs1 |-> 0, rs2 |-> 0, f3 |-> 0, f7 |-> 0, imm |-> 0,
           imm12 |-> "none"]

\* The program, the registers, the data memory, com and the interrupts still to
\* come are given by the instance.
InitCore ==
  /\ T = 0 /\ pc = 0 /\ tr = 0 /\ ir = NoInst /\ flg = 0
  /\ dout = [inst |-> NoInst, word |-> 0] /\ byte_pos = 0 /\ ld_type = "none"
  /\ md = [a |-> 0, b |-> 0, c |-> 0, stt |-> 0]
  /\ pending_op = "none" /\ latched = 0 /\ IO_LD_completed = FALSE
  /\ csr = ResetCsr /\ mip = FALSE
  /\ dbg = [pending |-> 0, halt |-> DBG_run, target |-> 0]
  /\ button = FALSE /\ other = FALSE
  /\ ops = <<>> /\ since = 0 /\ depth = 0

-----------------------------------------------------------------------------
(* ctrl_decode and the buses *)

\* What the decoder can leave in dc.
DC == [opcode : Opcodes \cup {"none"}, isMD : BOOLEAN, imm : Word,
       imm12 : {"mepc", "mscratch", "minstret", "mret", "wfi", "none"},
       rd : Regs, rs1 : Regs, rs2 : Regs,
       opID : {0} \cup {O[n] : n \in DOMAIN O} \cup {M[n] : n \in DOMAIN M},
       size : LoadTypes \cup StoreTypes \cup {"none"}, sys : SystemOps \cup {"none"}]

Dc == decode(ir)
Is(opcodes) == Dc.opcode \in opcodes
Rs1 == IF Dc.sys \in {"csrrwi", "csrrsi", "csrrci"} THEN Dc.rs1 ELSE xreg[Dc.rs1]
Rs2 == xreg[Dc.rs2]

Op == CASE T = 0 -> {"add"}
        [] T = 2 /\ Is({"COMP", "COMPI", "BR"}) /\ ~Dc.isMD -> OpBits(Dc.opID)
        [] T = 2 /\ Is({"LUI", "AUIPC", "LD", "ST", "JAL", "JALR"}) -> {"add"}
        [] T = 3 /\ Is({"BR"}) -> {"add"}
        [] OTHER -> {}

Bus1 == CASE T = 0 -> pc
          [] T = 2 /\ (Is({"COMP", "COMPI", "LUI", "LD", "ST", "JALR", "BR"}) \/ IsCsr(Dc)) -> Rs1
          [] OTHER -> tr
Bus2 == CASE T = 0 -> 1
          [] T = 2 /\ Is({"COMP", "BR"}) -> Rs2
          [] OTHER -> Dc.imm
AluOut == IF Op = {} THEN 0 ELSE ALUcompute(Bus1, Bus2, Op)

Wfi == T = 2 /\ Dc.sys = "wfi"
InstCompleted == T = (IF Is({"LD", "BR"}) THEN 3 ELSE 2)
InterruptDetected == interrupt_detected(csr, mip)

\* csr_rw: for every CSR instruction the register numbers decide.
CsrVal == IF Dc.rd # 0 THEN csr[Dc.imm12] ELSE 0
CsrWrites == IsCsr(Dc) /\ Dc.rs1 # 0

-----------------------------------------------------------------------------
(* MD::compute: shift and add, one bit in a clock *)

IsMul == T = 2 /\ Is({"COMP"}) /\ Dc.isMD /\ Dc.opID = M.mul
MdStep == [a |-> (2 * md.a) % Modulus, b |-> md.b \div 2, stt |-> IF md.b \div 2 = 0 THEN 0 ELSE 1,
           c |-> IF md.b % 2 = 1 THEN (md.c + md.a) % Modulus ELSE md.c]
\* Mutation of MdNext: the sum of the last product is kept.
MdNextKeepsC == IF md.stt = 0 THEN [md EXCEPT !.a = Bus1, !.b = Bus2, !.stt = 1] ELSE MdStep
MdNext == IF md.stt = 0 THEN [a |-> Bus1, b |-> Bus2, c |-> 0, stt |-> 1] ELSE MdStep
MdPending == IsMul /\ MdNext.stt # 0
MdOut == IF IsMul /\ md.stt # 0 THEN MdNext.c ELSE 0

Md == md' = IF IsMul THEN MdNext ELSE md

-----------------------------------------------------------------------------
(* updateDebugInterface *)

StepMode == com \in DBG_step_cycle .. DBG_step_out /\ (button \/ dbg.pending # 0)
\* Mutation of InternalIrqClear: the button is cleared only once the core is held.
InternalIrqClearLate == StepMode /\ dbg.pending = 3
InternalIrqClear == StepMode /\ dbg.pending = 1
CallInst == Is({"JAL", "JALR"}) /\ Dc.rd = R_ra
ReturnInst == Is({"JALR"}) /\ Dc.rd = 0 /\ Dc.rs1 = R_ra /\ Dc.imm = 0
DbgMode == IF com \in DBG_step_cycle .. DBG_step_out THEN com ELSE DBG_run

\* A button is pressed at wfi, or while the core is held at a T-state.
Break  == Wfi /\ InterruptDetected /\ button /\ StepMode
Resume == ~Break /\ dbg.pending = 3 /\ InterruptDetected /\ button

\* Mutation of HaltCondition: step_out stops at any return.
HaltConditionInner ==
  \/ dbg.halt = DBG_step_in
  \/ dbg.halt = DBG_step_over /\ dbg.target = pc
  \/ dbg.halt = DBG_step_out /\ ReturnInst

\* The instruction that has just ended is where the last command stops; dc still
\* holds it, and the next one is not yet fetched.
HaltCondition ==
  \/ dbg.halt = DBG_step_in
  \/ dbg.halt = DBG_step_over /\ dbg.target = pc
  \/ dbg.halt = DBG_step_out /\ dbg.target = 0 /\ ReturnInst

DbgNext ==
  IF Break THEN
    [pending |-> 1, target |-> 0,
     halt |-> IF DbgMode = DBG_step_over THEN DBG_step_in ELSE DbgMode]
  ELSE IF Resume THEN
    LET mode == IF DbgMode = DBG_step_over /\ ~CallInst THEN DBG_step_in ELSE DbgMode
    IN  [pending |-> Flag(StepMode), halt |-> mode,
         target |-> IF mode = DBG_step_over THEN (pc + 1) % Modulus ELSE 0]
  ELSE IF dbg.pending = 1 /\ ~InterruptDetected THEN
    [dbg EXCEPT !.pending = IF dbg.halt = DBG_step_cycle THEN 3 ELSE 2]
  ELSE IF dbg.pending = 2 /\ T = 0 /\ HaltCondition THEN
    [dbg EXCEPT !.pending = 3]
  ELSE IF dbg.pending = 2 /\ T = 0 /\ dbg.halt = DBG_step_out /\ dbg.target = pc THEN
    [dbg EXCEPT !.target = 0]
  ELSE IF dbg.pending = 2 /\ T = 2 /\ dbg.halt = DBG_step_out /\ dbg.target = 0 /\ CallInst THEN
    [dbg EXCEPT !.target = pc]
  ELSE dbg

StepWaitIrqClear == ~Break /\ dbg.pending = 1
StepWfi == ~Break /\ \/ dbg.pending = 3
                     \/ dbg.pending = 1 /\ ~InterruptDetected /\ dbg.halt = DBG_step_cycle
                     \/ dbg.pending = 2 /\ T = 0 /\ HaltCondition
DbgStall == StepWaitIrqClear \/ (StepWfi /\ ~InterruptDetected)

-----------------------------------------------------------------------------
(* updateMemIO *)

IoOp == IF T = 2 /\ Is({"LD", "ST"}) /\ MEM_ADDR_OUT_OF_BOUNDS(AluOut)
        THEN Dc.opcode ELSE "none"

\* SYSCTRL is the first device and answers at once.
SysMode == IoOp # "none" /\ InMem(AluOut) = MemWords
Formatted == formatWrite(BytePos(AluOut), Dc.size, Rs2)

\* The master's first clock and any number after it.
IoStalled ==
  /\ IoOp # "none" /\ ~SysMode
  /\ pending_op' = IoOp /\ IO_LD_completed' = FALSE
  /\ UNCHANGED <<latched, ops>>

\* A core that the debugger holds makes its access again in every clock; the history
\* keeps the first of these.
Again(d) == DbgStall /\ ops # <<>> /\ ops[Len(ops)].op = d.op /\ ops[Len(ops)].addr = d.addr
Logged(d) == IF Again(d) THEN ops ELSE Append(ops, d)

IoCompleted ==
  /\ IoOp # "none" /\ (SysMode \/ pending_op # "none")
  /\ pending_op' = "none" /\ IO_LD_completed' = (IoOp = "LD")
  /\ IF IoOp = "LD"
     THEN \E w \in Words[ld_size(Dc.size)] :
            /\ latched' = w
            /\ ops' = Logged(Device("LD", AluOut, ld_size(Dc.size), w))
     ELSE /\ ops' = Logged(Device("ST", AluOut, st_size(Dc.size), Formatted.din))
          /\ UNCHANGED latched

NoIo ==
  /\ IoOp = "none"
  /\ IO_LD_completed' = FALSE
  /\ UNCHANGED <<pending_op, latched, ops>>

\* The memory is read and written in every clock, stalled or not.
MemoryAccess ==
  /\ mem' = IF T = 2 /\ Is({"ST"}) /\ IoOp = "none"
            THEN [mem EXCEPT ![InMem(AluOut)] =
                    storeMemByteEnable(@, Formatted.din, Formatted.byte_enable)]
            ELSE mem
  /\ IF T = 0 THEN dout' = [dout EXCEPT !.inst = prog[pc]] /\ byte_pos' = 0 /\ ld_type' = "lw"
     ELSE IF T = 2 /\ Is({"LD"}) /\ IoOp = "none"
     THEN dout' = [dout EXCEPT !.word = mem[InMem(AluOut)]] /\ byte_pos' = BytePos(AluOut) /\ ld_type' = Dc.size
     ELSE UNCHANGED <<dout, byte_pos, ld_type>>

\* Mutation of ReadData: a stall of the next T-state drops IO_LD_completed.
ReadDataMem == formatRead(byte_pos, ld_type, dout.word)

\* formatReadData: a device's word is in latched_data, its format is mem's.
ReadData == formatRead(byte_pos, ld_type, IF IO_LD_completed THEN latched ELSE dout.word)

-----------------------------------------------------------------------------
(* The end of a clock that is not stalled: registers, pc, tr, ir, flg, csr *)

SetRd(v) == xreg' = IF Dc.rd = 0 THEN xreg ELSE [xreg EXCEPT ![Dc.rd] = v]

Advances == (~Wfi /\ ~StepWfi) \/ InterruptDetected \/ com = DBG_ignore_wfi
Advance == T' = IF ~Advances THEN T ELSE IF InstCompleted THEN 0 ELSE T + 1
Counted(c) == IF Advances /\ InstCompleted THEN update_counter(c) ELSE c

Trap ==
  /\ T = 0 /\ InterruptDetected /\ ~StepMode
  /\ pc' = Mtvec /\ tr' = pc /\ csr' = do_trap(csr, pc)
  /\ T' = 0
  /\ UNCHANGED <<ir, flg, xreg>>

Fetch ==
  /\ T = 0 /\ ~(InterruptDetected /\ ~StepMode)
  /\ pc' = AluOut /\ tr' = pc
  /\ Advance
  /\ UNCHANGED <<ir, flg, xreg, csr>>

Latch ==
  /\ T = 1
  /\ ir' = dout.inst
  /\ Advance
  /\ UNCHANGED <<pc, tr, flg, xreg, csr>>

Execute ==
  /\ T = 2
  /\ IF Is({"BR"}) THEN flg' = AluOut % 2 ELSE UNCHANGED flg
  /\ \/ Is({"JAL", "JALR"}) /\ SetRd(pc) /\ pc' = AluOut
     \/ Dc.sys = "mret" /\ pc' = csr.mepc /\ UNCHANGED xreg
     \/ Is({"LD"}) /\ UNCHANGED <<pc, xreg>>
     \/ IsCsr(Dc) /\ SetRd(CsrVal) /\ UNCHANGED pc
     \/ /\ ~Is({"JAL", "JALR", "LD"}) /\ Dc.sys # "mret" /\ ~IsCsr(Dc)
        /\ SetRd(IF IsMul THEN MdOut ELSE AluOut) /\ UNCHANGED pc
  /\ csr' = Counted(CASE CsrWrites -> [csr EXCEPT ![Dc.imm12] = CsrModified(Dc, CsrVal, Bus1)]
                      [] Dc.sys = "mret" -> do_mret(csr)
                      [] OTHER -> csr)
  /\ Advance
  /\ UNCHANGED <<tr, ir>>

Finish ==
  /\ T = 3
  /\ IF Is({"LD"}) THEN SetRd(ReadData) /\ UNCHANGED pc
     ELSE /\ pc' = IF flg = 1 THEN AluOut ELSE pc
          /\ UNCHANGED xreg
  /\ csr' = Counted(csr)
  /\ Advance
  /\ UNCHANGED <<tr, ir, flg>>

Stalled == UNCHANGED <<T, cpu, csr>>

-----------------------------------------------------------------------------
(* Interrupts, and the switches of the debugger *)

\* SYSCTRL::fsm and the update of mip.  A store of ones to irq_ctrl clears.
Lines(press, raise) ==
  LET clear == IoOp = "ST" /\ SysMode /\ Formatted.din # 0
  IN  /\ irqs + Flag(press) + Flag(raise) <= MaxIrq
      /\ irqs' = irqs + Flag(press) + Flag(raise)
      /\ mip' = (button \/ press \/ other \/ raise)
      /\ button' = ((button \/ press) /\ ~clear /\ ~InternalIrqClear)
      /\ other' = ((other \/ raise) /\ ~clear)

\* The counts of the history, from the press that let the core go to the next stop.
SinceCap == 7
Record ==
  LET let_go == Break \/ Resume
      ends   == T' = 0 /\ T # 0
      call   == IF ends /\ CallInst THEN 1 ELSE IF ends /\ ReturnInst THEN -1 ELSE 0
  IN  IF dbg.pending = 3 /\ ~let_go THEN UNCHANGED <<since, depth>>
      ELSE /\ since' = LET n == (IF let_go THEN 0 ELSE since) + Flag(ends)
                       IN  IF n > SinceCap THEN SinceCap ELSE n
           /\ depth' = IF dbg'.pending = 0 THEN 0 ELSE (IF let_go THEN 0 ELSE depth) + call

\* The user chooses another command while the core is held, then presses.
Switches(c) == IF c \in DBG_step_in .. DBG_step_out
                  /\ ~button /\ (dbg.pending = 3 \/ Wfi)
               THEN {DBG_run} \cup DBG_step_in .. DBG_step_out ELSE {c}

Clock ==
  /\ \E press, raise \in BOOLEAN :
       /\ Lines(press, raise)
       /\ com' \in IF press THEN Switches(com) ELSE {com}
  /\ Md /\ dbg' = DbgNext /\ MemoryAccess
  /\ \/ IoStalled /\ Stalled
     \/ /\ NoIo \/ IoCompleted
        /\ IF DbgStall \/ MdPending THEN Stalled
           ELSE Trap \/ Fetch \/ Latch \/ Execute \/ Finish
  /\ Record
  /\ UNCHANGED prog

Sim == INSTANCE Iss
       WITH pc <- IF T = 0 THEN pc ELSE tr, mip <- T = 0 /\ mip,
            ops <- IF T = 3 /\ IO_LD_completed THEN SubSeq(ops, 1, Len(ops) - 1) ELSE ops
-----------------------------------------------------------------------------
\* Type correctness.
TypeOK ==
  /\ T \in 0 .. 3 /\ pc \in Word /\ tr \in Word /\ flg \in 0 .. 1 /\ Dc \in DC
  /\ xreg \in [Regs -> Word] /\ mem \in [0 .. MemWords - 1 -> Word]
  /\ byte_pos \in 0 .. 3 /\ md \in [a : Word, b : Word, c : Word, stt : 0 .. 1]
  /\ pending_op \in {"none", "LD", "ST"} /\ latched \in Word
  /\ csr \in CSR
  /\ dbg \in [pending : 0 .. 3, halt : 0 .. 4, target : Word]

\* ARCH1 executes the program as the simulator does, one instruction after the
\* other: whatever stalls it and wherever interrupts fall, it computes the same,
\* counts the same, and accesses each device once and in the same order.  Apart from
\* the end of mul, for which the simulator computes an exclusive or, and from a core
\* that the debugger holds at a store or at an access to a device: it makes the access
\* again in every clock.
MulEnds == IsMul /\ T' = 0
AccessRepeated ==
  DbgStall /\ T = 2 /\ (Is({"ST"}) \/ IoOp # "none") /\ UNCHANGED <<prog, T, cpu, csr>>
ImplementsIss ==
  Sim!Init /\ [][Sim!Next \/ MulEnds \/ AccessRepeated]_(Sim!issvars)

\* The multiplier leaves the product, however often its T-state is repeated and
\* whatever it was doing before.
MulIsProduct ==
  [][MulEnds /\ Dc.rd # 0 => xreg'[Dc.rd] = (xreg[Dc.rs1] * xreg[Dc.rs2]) % Modulus]_vars

\* The clock in which the debugger stops the core: under DBG_step_in one instruction
\* has ended since the button was pressed, and under DBG_step_out the core is back
\* from the function in which it was, calls of others included (unless the user
\* switches to DBG_run before).  From then on it is held, until the button is pressed
\* or for as long as another interrupt is pending, which lets it go on with no trap.
Stops == dbg.pending = 2 /\ T = 0 /\ HaltCondition
StepsExactly ==
  Stops /\ com # DBG_run =>
    /\ dbg.halt = DBG_step_in => since = 1
    /\ dbg.halt = DBG_step_out => depth = -1

\* DBG_step_over advances by one call or one instruction (rv32.h:396): the core
\* is never held inside a function called since the button was pressed.
StepOverCalls ==
  dbg.pending = 3 /\ T = 0 /\ com = DBG_step_over => depth <= 0

\* The core does not wait for ever for the button's own interrupt to go away.  Only
\* another interrupt keeps it waiting, for good: the debugger clears the buttons alone,
\* and the core, held, cannot clear the rest (rv32.cpp:1414).
WaitEnds == dbg.pending = 1 ~> dbg.pending # 1 \/ other
=============================================================================
