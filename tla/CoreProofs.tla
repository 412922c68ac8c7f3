------------------------------ MODULE CoreProofs ------------------------------
(***************************************************************************)
(* Proofs about the core, for every program, register file, memory size,   *)
(* trap vector and number of interrupts, and every command of the          *)
(* debugger: ARCH1 executes the program as the simulator does, instruction *)
(* by instruction, whatever stalls it and wherever interrupts fall.        *)
(*                                                                         *)
(* The invariant says what the registers between the T-states hold: the    *)
(* instruction under way is the one at tr and pc is behind it (Fetched);   *)
(* what a load has put by, in the memory's output or in latched_data, and  *)
(* how it will be cut out, is what the simulator would read now, and flg   *)
(* is what it would decide now (Halfway).                                  *)
(*                                                                         *)
(* The debugger's steps: how many instructions have ended, and at which    *)
(* depth of calls the core is, from the press that lets it go to its stop  *)
(* (SteppingIn, SteppingOut), and what is pending while an interrupt other *)
(* than a button lets the held core go on (Slipping).                      *)
(***************************************************************************)
EXTENDS Core, TLAPS

-----------------------------------------------------------------------------
(* The programs the two cores execute alike.  Left out are the division    *)
(* and the upper half of a product, which ARCH1 has not, and the CSR       *)
(* instructions with x0 that it decodes differently (run csr_arch1).       *)

CsrNames == {"mepc", "mscratch", "minstret"}

Records == [opcode : Opcodes, rd : Regs, rs1 : Regs, rs2 : Regs, f3 : 0 .. 7,
            f7 : 0 .. 127, imm : Word, imm12 : CsrNames \cup {"mret", "wfi", "none"}]

SysAgrees(i) ==
  \/ i.f3 = 0 /\ i.imm12 \in {"mret", "wfi"} /\ i.rd = 0
  \/ i.f3 \in {1, 5} /\ i.imm12 \in CsrNames /\ i.rs1 # 0
  \/ i.f3 \in {2, 3, 6, 7} /\ i.imm12 \in CsrNames /\ i.rd # 0

Instructions == {i \in Records : /\ i.opcode = "COMP" /\ i.f7 = 1 => i.f3 = 0
                                 /\ i.opcode = "SYS" => SysAgrees(i)}

Init ==
  /\ InitCore
  /\ prog \in [Word -> Instructions]
  /\ xreg \in [Regs -> Word] /\ xreg[0] = 0
  /\ mem \in [0 .. MemWords - 1 -> Word]
  /\ com \in Nat /\ irqs \in Nat

\* A device answers a load with just what it asks for: a byte or a half with one and
\* nothing above it, at its own address, as the UART's data register does (io.h:24).
\* ARCH1 takes the answer as it comes, the simulator cuts it out and extends it.
AnswersFit ==
  IO_LD_completed' => formatRead(BytePos(AluOut), Dc.size, latched') = latched'
\* The debugger does not hold the core between a device's answer and its use: the
\* answer would be forgotten.
AnswerUsed == T = 3 /\ IO_LD_completed => ~DbgStall

Spec == Init /\ [][Clock]_vars
SpecAlike == Init /\ [][Clock /\ AnswersFit /\ AnswerUsed]_vars

-----------------------------------------------------------------------------
(* The inductive invariant *)

Transfers == [op : {"LD", "ST"}, addr : Word, size : {1, 2, 4}, word : Word]

Types ==
  /\ prog \in [Word -> Instructions]
  /\ T \in 0 .. 3 /\ pc \in Word /\ tr \in Word /\ flg \in 0 .. 1
  /\ ir \in Instructions \cup {NoInst}
  /\ dout \in [inst : Instructions \cup {NoInst}, word : Word]
  /\ xreg \in [Regs -> Word] /\ xreg[0] = 0
  /\ mem \in [0 .. MemWords - 1 -> Word]
  /\ byte_pos \in 0 .. 3 /\ ld_type \in LoadTypes \cup {"none"}
  /\ md \in [a : Word, b : Word, c : Word, stt : 0 .. 1]
  /\ pending_op \in {"none", "LD", "ST"} /\ latched \in Word
  /\ IO_LD_completed \in BOOLEAN /\ mip \in BOOLEAN
  /\ csr \in CSR
  /\ dbg \in [pending : 0 .. 3, halt : 0 .. 4, target : Word]
  /\ com \in Nat
  /\ ops \in Seq(Transfers)

\* The instruction under way is the one at tr, and pc is behind it.
Fetched ==
  /\ T # 0 => pc = (tr + 1) % Modulus
  /\ T = 1 => dout.inst = prog[tr]
  /\ T \in {2, 3} => ir = prog[tr]
  /\ T = 3 => ir.opcode \in {"LD", "BR"}

\* What a clock has put by for the next: a fetch the format of a whole word; a
\* load its word and format, and a branch its decision.
LoadAddr == (Rs1 + Dc.imm) % Modulus
FromDevice == MEM_ADDR_OUT_OF_BOUNDS(LoadAddr)
Halfway ==
  /\ T = 1 \/ (T = 2 /\ Is({"LD"}) /\ FromDevice) => byte_pos = 0 /\ ld_type = "lw"
  /\ T = 3 /\ Is({"BR"}) =>
       ~IO_LD_completed /\ flg = compute(Rs1, Rs2, Dc.opID) % 2
  /\ T = 3 /\ Is({"LD"}) /\ ~FromDevice =>
       /\ ~IO_LD_completed /\ dout.word = mem[InMem(LoadAddr)]
       /\ byte_pos = BytePos(LoadAddr) /\ ld_type = Dc.size
  /\ T = 3 /\ Is({"LD"}) /\ FromDevice =>
       /\ IO_LD_completed /\ byte_pos = 0 /\ ld_type = "lw"
       /\ formatRead(BytePos(LoadAddr), Dc.size, latched) = latched
       /\ ops # <<>> /\ ops[Len(ops)] = Device("LD", LoadAddr, ld_size(Dc.size), latched)

\* While the multiplier is at work, what it has added up and what it has still
\* to add are the product, up to a multiple of Modulus.
Multiplying ==
  md.stt = 1 =>
    /\ T = 2 /\ IsMul
    /\ \E k \in Int : xreg[Dc.rs1] * xreg[Dc.rs2] = md.c + md.a * md.b + k * Modulus

-----------------------------------------------------------------------------
(* Words *)

LEMMA WordFacts ==
  /\ Modulus \in Nat /\ Modulus > 0 /\ 0 \in Word /\ 0 \in Regs
  /\ \A x \in Int : x % Modulus \in Word
  /\ \A r \in Regs : r \in Word
  /\ \A x \in Word : x \in Nat /\ x < Modulus /\ x % Modulus = x
<1>1. Modulus \in Nat /\ Modulus > 0
  BY ArithmeticAssumption
<1>2. 0 \in Word /\ \A x \in Word : x \in Nat /\ x < Modulus
  BY <1>1 DEF Word
<1>3. ASSUME NEW x \in Int PROVE x % Modulus \in Word
  BY <1>1 DEF Word
<1>4. ASSUME NEW x \in Word PROVE x % Modulus = x
  BY <1>1, <1>2
<1>5. 0 \in Regs /\ \A r \in Regs : r \in Word
  BY RegsAssumption
<1> QED
  BY <1>1, <1>2, <1>3, <1>4, <1>5

LEMMA NumIsWord ==
  ASSUME NEW S \in SUBSET (0 .. Width - 1)
  PROVE  Num(S) \in Word
  BY ArithmeticAssumption

LEMMA BitsInRange ==
  ASSUME NEW x
  PROVE  Bits(x) \in SUBSET (0 .. Width - 1)
  BY DEF Bits

LEMMA WidthIsNat == Width \in Nat
  BY ArithmeticAssumption

LEMMA StoredIsWord ==
  ASSUME NEW x, NEW y, NEW e
  PROVE  storeMemByteEnable(x, y, e) \in Word
  BY BitsInRange, NumIsWord DEF storeMemByteEnable

LEMMA ShiftedIsWord ==
  ASSUME NEW x, NEW n \in Nat
  PROVE  ShiftLeft(x, n) \in Word
<1>1. {i + n : i \in {j \in Bits(x) : j + n < Width}} \in SUBSET (0 .. Width - 1)
  BY BitsInRange, WidthIsNat
<1> QED
  BY <1>1, NumIsWord DEF ShiftLeft

LEMMA ModifiedIsWord ==
  ASSUME NEW d, NEW x, NEW y \in Word
  PROVE  CsrModified(d, x, y) \in Word
  BY BitsInRange, NumIsWord DEF CsrModified

\* Setting and clearing no bits.
LEMMA NothingModified ==
  ASSUME NEW d, d.sys \notin {"csrrw", "csrrwi"}, NEW x \in Word
  PROVE  CsrModified(d, x, 0) = x
  BY ArithmeticAssumption DEF CsrModified

\* The adder.
LEMMA Added ==
  ASSUME NEW x \in Word, NEW y \in Word
  PROVE  ALUcompute(x, y, {"add"}) = (x + y) % Modulus
<1>1. {"add"} \cap {"sub", "ltu", "geu", "lt", "ge"} = {} /\ {"add"} \cap {"add", "sub"} # {}
  OBVIOUS
<1>2. x + y + 0 = x + y
  BY WordFacts
<1> QED
  BY <1>1, <1>2 DEF ALUcompute, Flag

-----------------------------------------------------------------------------
(* Instructions, decoded *)

LEMMA DecodedOps ==
  ASSUME NEW f3 \in 0 .. 7, NEW f7 \in 0 .. 127, NEW c \in BOOLEAN
  PROVE  /\ decComp(f3, f7, c) \in Operations /\ decBranch(f3) \in Operations
         /\ decMD(f3) \in {M[n] : n \in DOMAIN M}
<1>1. decComp(f3, f7, c) \in Operations
  BY DEF decComp, Operations, O
<1>2. decBranch(f3) \in Operations
  BY DEF decBranch, Operations, O
<1>3. decMD(f3) \in {M[n] : n \in DOMAIN M}
  BY DEF decMD, M
<1> QED
  BY <1>1, <1>2, <1>3

LEMMA DecodedSizes ==
  ASSUME NEW f3 \in 0 .. 7, NEW imm12
  PROVE  /\ decLD(f3) \in LoadTypes \cup {"none"} /\ decST(f3) \in StoreTypes \cup {"none"}
         /\ decSYS(imm12, f3) \in SystemOps \cup {"none"}
<1>1. decLD(f3) \in LoadTypes \cup {"none"}
  BY DEF decLD, LoadTypes
<1>2. decST(f3) \in StoreTypes \cup {"none"}
  BY DEF decST, StoreTypes
<1>3. decSYS(imm12, f3) \in SystemOps \cup {"none"}
  BY DEF decSYS, SystemOps
<1> QED
  BY <1>1, <1>2, <1>3

\* The decoder's result for an instruction the cores execute alike.
LEMMA Decoded ==
  ASSUME NEW i \in Instructions \cup {NoInst}
  PROVE  LET d == decode(i)
         IN  /\ d.opcode = i.opcode /\ d.opcode \in Opcodes \cup {"none"}
             /\ d.imm = i.imm /\ d.imm \in Word /\ d.imm12 = i.imm12
             /\ d.imm12 \in CsrNames \cup {"mret", "wfi", "none"}
             /\ d.rd \in Regs /\ d.rs1 \in Regs /\ d.rs2 \in Regs
             /\ d.opcode \in {"ST", "BR"} => d.rd = 0
             /\ d.opcode \in {"LUI", "AUIPC", "JAL"} => d.rs1 = 0
<1>1. CASE i \in Instructions
  BY <1>1, WordFacts DEF Instructions, Records, decode
<1>2. CASE i = NoInst
  BY <1>2, WordFacts DEF NoInst, decode
<1> QED
  BY <1>1, <1>2

LEMMA DecodedOp ==
  ASSUME NEW i \in Instructions \cup {NoInst}
  PROVE  LET d == decode(i)
         IN  /\ d.isMD \in BOOLEAN
             /\ d.isMD => d.opcode = "COMP" /\ d.opID = M.mul
             /\ ~d.isMD => d.opID \in Operations
<1> DEFINE d == decode(i)
<1>1. CASE i = NoInst
  BY <1>1 DEF NoInst, decode, Operations
<1>2. CASE i \in Instructions
  <2>1. /\ i.f3 \in 0 .. 7 /\ i.f7 \in 0 .. 127
        /\ i.opcode = "COMP" /\ i.f7 = 1 => i.f3 = 0
    BY <1>2 DEF Instructions, Records
  <2>2. d.isMD = (i.opcode = "COMP" /\ i.f7 = 1)
    BY DEF decode
  <2>3. CASE d.isMD
    <3>0. i.opcode = "COMP" /\ i.f7 = 1 /\ i.f3 = 0
      BY <2>1, <2>2, <2>3
    <3>1. d.opID = decMD(i.f3)
      BY <3>0 DEF decode
    <3>2. decMD(0) = M.mul
      BY DEF decMD
    <3> QED
      BY <2>2, <2>3, <3>0, <3>1, <3>2 DEF decode
  <2>4. CASE ~d.isMD
    <3>1. d.opID \in {decComp(i.f3, i.f7, FALSE), decComp(i.f3, i.f7, TRUE), decBranch(i.f3), 0}
      BY <2>2, <2>4 DEF decode
    <3> QED
      BY <2>1, <2>2, <2>4, <3>1, DecodedOps DEF Operations
  <2> QED
    BY <2>2, <2>3, <2>4
<1> QED
  BY <1>1, <1>2

LEMMA DecodedIsDC ==
  ASSUME NEW i \in Instructions \cup {NoInst}
  PROVE  decode(i) \in DC
<1> DEFINE d == decode(i)
<1>1. i.f3 \in 0 .. 7
  BY DEF Instructions, Records, NoInst
<1>2. /\ d.size \in LoadTypes \cup StoreTypes \cup {"none"}
      /\ d.sys \in SystemOps \cup {"none"}
  BY <1>1, DecodedSizes DEF decode
<1>3. d.opID \in {0} \cup {O[n] : n \in DOMAIN O} \cup {M[n] : n \in DOMAIN M}
  <2>1. M.mul \in {M[n] : n \in DOMAIN M}
    BY DEF M
  <2> QED
    BY <2>1, DecodedOp DEF Operations
<1>4. d = [opcode |-> d.opcode, isMD |-> d.isMD, imm |-> d.imm, imm12 |-> d.imm12, rd |-> d.rd,
           rs1 |-> d.rs1, rs2 |-> d.rs2, opID |-> d.opID, size |-> d.size, sys |-> d.sys]
  BY DEF decode
<1> HIDE DEF d
<1>5. /\ d.opcode \in Opcodes \cup {"none"} /\ d.isMD \in BOOLEAN /\ d.imm \in Word
      /\ d.imm12 \in CsrNames \cup {"mret", "wfi", "none"}
      /\ d.rd \in Regs /\ d.rs1 \in Regs /\ d.rs2 \in Regs
  BY Decoded, DecodedOp DEF d
<1>6. d \in DC
  BY <1>2, <1>3, <1>4, <1>5 DEF DC, CsrNames
<1> QED
  BY <1>6 DEF d

\* Which instructions read and write control registers, and what the two cores
\* make of x0 in them.
LEMMA DecodedSys ==
  ASSUME NEW i \in Instructions
  PROVE  LET d == decode(i)
         IN  /\ d.opcode # "SYS" => d.sys = "none"
             /\ d.opcode = "SYS" => d.sys \in SystemOps
             /\ d.sys \in {"mret", "wfi"} => d.rd = 0
             /\ IsCsr(d) => /\ d.imm12 \in CsrNames
                            /\ d.sys \in {"csrrw", "csrrwi"} => d.rs1 # 0
                            /\ d.sys \notin {"csrrw", "csrrwi"} => d.rd # 0
  BY DEF Instructions, Records, SysAgrees, CsrNames, decode, decSYS, IsCsr, SystemOps

-----------------------------------------------------------------------------
(* The buses and the ALU *)

LEMMA DcFacts ==
  ASSUME Types
  PROVE  /\ Dc \in DC
         /\ Dc.opcode \in Opcodes \cup {"none"} /\ Dc.imm \in Word
         /\ Dc.rd \in Regs /\ Dc.rs1 \in Regs /\ Dc.rs2 \in Regs
         /\ Dc.opcode \in {"ST", "BR"} => Dc.rd = 0
         /\ Dc.opcode \in {"LUI", "AUIPC", "JAL"} => Dc.rs1 = 0
         /\ Dc.isMD \in BOOLEAN
         /\ Dc.isMD => Dc.opcode = "COMP" /\ Dc.opID = M.mul
         /\ ~Dc.isMD => Dc.opID \in Operations
         /\ Dc.size \in LoadTypes \cup StoreTypes \cup {"none"}
  BY Decoded, DecodedOp, DecodedIsDC DEF Types, Dc, DC

LEMMA Operands ==
  ASSUME Types
  PROVE  /\ Rs1 \in Word /\ Rs2 \in Word /\ Bus1 \in Word /\ Dc.imm \in Word
         /\ T # 0 => Bus2 \in Word
         /\ xreg[Dc.rs1] \in Word /\ xreg[Dc.rs2] \in Word
<1>1. Rs1 \in Word /\ Rs2 \in Word /\ xreg[Dc.rs1] \in Word
  BY DcFacts, WordFacts DEF Types, Rs1, Rs2
<1>2. Bus1 \in Word /\ (T # 0 => Bus2 \in Word)
  BY <1>1, DcFacts DEF Types, Bus1, Bus2
<1> QED
  BY <1>1, <1>2, DcFacts DEF Rs2

\* What the ALU puts out at each T-state.
LEMMA AluAtFetch ==
  ASSUME Types, T = 0
  PROVE  AluOut = (pc + 1) % Modulus
<1>1. Op = {"add"} /\ Bus1 = pc /\ Bus2 = 1
  BY DEF Op, Bus1, Bus2
<1>2. {"add"} # {} /\ {"add"} \cap {"sub", "ltu", "geu", "lt", "ge"} = {}
      /\ {"add"} \cap {"add", "sub"} # {}
  OBVIOUS
<1>3. pc + 1 + 0 = pc + 1
  <2>1. pc \in Nat
    BY WordFacts DEF Types
  <2> QED
    BY <2>1
<1> QED
  BY <1>1, <1>2, <1>3 DEF AluOut, ALUcompute, Flag

LEMMA AluAdds ==
  ASSUME Types, \/ T = 2 /\ Is({"LUI", "AUIPC", "LD", "ST", "JAL", "JALR"})
                \/ T = 3 /\ Is({"BR"})
  PROVE  AluOut = (Bus1 + Dc.imm) % Modulus
<1>1. Op = {"add"} /\ Bus2 = Dc.imm
  BY DEF Op, Bus2, Is
<1> QED
  BY <1>1, Added, Operands DEF AluOut

LEMMA AluComputes ==
  ASSUME Types, T = 2, Is({"COMP", "COMPI", "BR"}), ~Dc.isMD
  PROVE  AluOut = compute(Bus1, Bus2, Dc.opID)
<1>1. Op = OpBits(Dc.opID)
  BY DEF Op, Is
<1>2. Dc.opID \in Operations /\ Bus1 \in Word /\ Bus2 \in Word
  BY DcFacts, Operands
<1>3. compute(Bus1, Bus2, Dc.opID)
        = IF OpBits(Dc.opID) = {} THEN 0 ELSE ALUcompute(Bus1, Bus2, OpBits(Dc.opID))
  BY <1>2, ArithmeticAssumption
<1> QED
  BY <1>1, <1>3 DEF AluOut

LEMMA AluIsWord ==
  ASSUME Types
  PROVE  AluOut \in Word
<1>1. CASE T = 0
  <2>1. pc + 1 \in Int
    <3>1. pc \in Nat
      BY WordFacts DEF Types
    <3> QED
      BY <3>1
  <2> QED
    BY <1>1, <2>1, AluAtFetch, WordFacts
<1>2. CASE \/ T = 2 /\ Is({"LUI", "AUIPC", "LD", "ST", "JAL", "JALR"})
           \/ T = 3 /\ Is({"BR"})
  <2>1. Bus1 + Dc.imm \in Int
    BY Operands, WordFacts
  <2> QED
    BY <1>2, <2>1, AluAdds, WordFacts
<1>3. CASE T = 2 /\ Is({"COMP", "COMPI", "BR"}) /\ ~Dc.isMD
  <2>1. Dc.opID \in Operations /\ Bus1 \in Word /\ Bus2 \in Word
    BY <1>3, DcFacts, Operands
  <2> QED
    BY <1>3, <2>1, AluComputes, ArithmeticAssumption
<1>4. CASE Op = {}
  BY <1>4, WordFacts DEF AluOut
<1> QED
  BY <1>1, <1>2, <1>3, <1>4 DEF Op

-----------------------------------------------------------------------------
(* A clock, taken apart *)

\* A clock is held by a device, the debugger or the multiplier, or is not held.
Held == \/ IoStalled
        \/ (NoIo \/ IoCompleted) /\ (DbgStall \/ MdPending)
Free == (NoIo \/ IoCompleted) /\ ~DbgStall /\ ~MdPending

LEMMA ClockParts ==
  ASSUME Clock
  PROVE  /\ Md /\ dbg' = DbgNext /\ MemoryAccess /\ prog' = prog
         /\ mip' \in BOOLEAN
         /\ com \in Nat => com' \in Nat
         /\ \/ Held /\ Stalled
            \/ Free /\ (Trap \/ Fetch \/ Latch \/ Execute \/ Finish)
<1>1. Md /\ dbg' = DbgNext /\ MemoryAccess /\ prog' = prog
  BY DEF Clock
<1>2. PICK press, raise \in BOOLEAN :
        Lines(press, raise) /\ com' \in IF press THEN Switches(com) ELSE {com}
  BY DEF Clock
<1>3. mip' \in BOOLEAN
  <2>1. mip' = (button \/ press \/ other \/ raise)
    BY <1>2 DEF Lines
  <2> QED
    BY <2>1, Zenon
<1>4. com \in Nat => com' \in Nat
  BY <1>2 DEF Switches, DBG_run, DBG_step_in, DBG_step_out
<1>5. \/ Held /\ Stalled
      \/ Free /\ (Trap \/ Fetch \/ Latch \/ Execute \/ Finish)
  <2>1. \/ IoStalled /\ Stalled
        \/ /\ NoIo \/ IoCompleted
           /\ IF DbgStall \/ MdPending THEN Stalled
              ELSE Trap \/ Fetch \/ Latch \/ Execute \/ Finish
    BY DEF Clock
  <2> QED
    BY <2>1, Zenon DEF Held, Free
<1> QED
  BY <1>1, <1>3, <1>4, <1>5

\* An access is made at T2 of a load or store, at the address it computes.
LEMMA IoOpFacts ==
  ASSUME Types
  PROVE  /\ T = 2 /\ Is({"LD", "ST"}) => Bus1 = Rs1 /\ AluOut = LoadAddr
         /\ IoOp # "none" => /\ T = 2 /\ Is({"LD", "ST"}) /\ FromDevice
                             /\ IoOp = Dc.opcode
         /\ T = 2 /\ Is({"LD", "ST"}) /\ IoOp = "none" => ~FromDevice
<1>1. T = 2 /\ Is({"LD", "ST"}) => Bus1 = Rs1 /\ AluOut = LoadAddr
  BY AluAdds DEF Is, Bus1, LoadAddr
<1> QED
  BY <1>1 DEF IoOp, FromDevice, Is

LEMMA LoadSize ==
  ASSUME Types, Is({"LD"})
  PROVE  Dc.size \in LoadTypes \cup {"none"}
<1>1. CASE ir = NoInst
  BY <1>1 DEF NoInst, Is, Dc, decode
<1>2. CASE ir \in Instructions
  <2>1. Dc.size = decLD(ir.f3) /\ ir.f3 \in 0 .. 7
    BY <1>2 DEF Is, Dc, decode, Instructions, Records
  <2> QED
    BY <2>1, DecodedSizes
<1> QED
  BY <1>1, <1>2 DEF Types

\* A word in memory is at an index of it.
LEMMA InMemory ==
  ASSUME NEW x \in Word, ~MEM_ADDR_OUT_OF_BOUNDS(x)
  PROVE  InMem(x) \in 0 .. MemWords - 1
<1>1. x \in Nat
  BY WordFacts
<1> QED
  BY <1>1, WidthAssumption DEF MEM_ADDR_OUT_OF_BOUNDS, InMem

LEMMA StoredWord ==
  ASSUME Types
  PROVE  Formatted.din \in Word /\ Formatted.din = ShiftLeft(Rs2, BytePos(AluOut) * Byte)
<1>1. Byte \in Nat
  BY WidthIsNat DEF Byte
<1>2. AluOut \in Nat /\ BytePos(AluOut) \in Nat
  BY AluIsWord, WordFacts DEF BytePos
<1>3. BytePos(AluOut) * Byte \in Nat
  BY <1>1, <1>2
<1> QED
  BY <1>3, ShiftedIsWord DEF Formatted, formatWrite

-----------------------------------------------------------------------------
(* Type correctness of the parts of a clock *)

LEMMA MemoryTyped ==
  ASSUME Types, MemoryAccess
  PROVE  /\ mem' \in [0 .. MemWords - 1 -> Word]
         /\ dout' \in [inst : Instructions \cup {NoInst}, word : Word]
         /\ byte_pos' \in 0 .. 3 /\ ld_type' \in LoadTypes \cup {"none"}
<1>1. AluOut \in Word /\ AluOut \in Nat
  BY AluIsWord, WordFacts
<1>2. mem' \in [0 .. MemWords - 1 -> Word]
  <2>1. CASE T = 2 /\ Is({"ST"}) /\ IoOp = "none"
    <3>1. PICK v : mem' = [mem EXCEPT ![InMem(AluOut)] = v] /\ v \in Word
      BY <2>1, StoredIsWord DEF MemoryAccess
    <3> QED
      BY <3>1 DEF Types
  <2> QED
    BY <2>1 DEF MemoryAccess, Types
<1>3. CASE T = 0
  <2>1. prog[pc] \in Instructions \cup {NoInst}
    BY DEF Types
  <2> QED
    BY <1>2, <1>3, <2>1 DEF MemoryAccess, Types, LoadTypes
<1>4. CASE T = 2 /\ Is({"LD"}) /\ IoOp = "none"
  <2>1. InMem(AluOut) \in 0 .. MemWords - 1
    BY <1>1, <1>4, IoOpFacts, InMemory DEF Is, FromDevice
  <2>2. mem[InMem(AluOut)] \in Word /\ BytePos(AluOut) \in 0 .. 3
    BY <1>1, <2>1 DEF Types, BytePos
  <2> QED
    BY <1>2, <1>4, <2>2, LoadSize DEF MemoryAccess, Types
<1> QED
  BY <1>2, <1>3, <1>4 DEF MemoryAccess, Types

LEMMA DeviceWord ==
  ASSUME NEW w \in Words[ld_size(Dc.size)]
  PROVE  w \in Word
<1>1. ld_size(Dc.size) \in {1, 2, 4}
  BY DEF ld_size
<1> QED
  BY <1>1, RegsAssumption

LEMMA IoTyped ==
  ASSUME Types, NoIo \/ IoStalled \/ IoCompleted
  PROVE  /\ pending_op' \in {"none", "LD", "ST"} /\ latched' \in Word
         /\ IO_LD_completed' \in BOOLEAN /\ ops' \in Seq(Transfers)
<1>1. IoOp \in {"none", "LD", "ST"}
  BY DEF IoOp, Is
<1>2. CASE NoIo
  BY <1>2 DEF NoIo, Types
<1>3. CASE IoStalled
  BY <1>1, <1>3 DEF IoStalled, Types
<1>4. CASE IoCompleted
  <2>1. AluOut \in Word
    BY AluIsWord
  <2>2. CASE IoOp = "LD"
    <3>1. PICK w \in Words[ld_size(Dc.size)] :
            latched' = w /\ ops' = Logged(Device("LD", AluOut, ld_size(Dc.size), w))
      BY <1>4, <2>2 DEF IoCompleted
    <3>2. w \in Word
      BY DeviceWord
    <3>3. Device("LD", AluOut, ld_size(Dc.size), w) \in Transfers
      BY <2>1, <3>2 DEF Device, Transfers, ld_size
    <3>4. ops' \in Seq(Transfers)
      BY <3>1, <3>3 DEF Logged, Types
    <3> QED
      BY <1>4, <2>2, <3>1, <3>2, <3>4 DEF IoCompleted, Types
  <2>3. CASE IoOp # "LD"
    <3> DEFINE d == Device("ST", AluOut, st_size(Dc.size), Formatted.din)
    <3>1. d \in Transfers
      BY <2>1, StoredWord DEF Device, Transfers, st_size
    <3> HIDE DEF d
    <3>2. ops' = Logged(d) /\ latched' = latched
      BY <1>4, <2>3 DEF IoCompleted, d
    <3>3. pending_op' = "none" /\ IO_LD_completed' = FALSE
      BY <1>4, <2>3 DEF IoCompleted
    <3>4. ops \in Seq(Transfers) /\ latched \in Word
      BY DEF Types
    <3>5. ops' \in Seq(Transfers)
      BY <3>1, <3>2, <3>4 DEF Logged
    <3> QED
      BY <3>2, <3>3, <3>4, <3>5
  <2> QED
    BY <2>2, <2>3
<1> QED
  BY <1>2, <1>3, <1>4

LEMMA MdTyped ==
  ASSUME Types, Md, T # 0
  PROVE  md' \in [a : Word, b : Word, c : Word, stt : 0 .. 1]
<1> DEFINE MD == [a : Word, b : Word, c : Word, stt : 0 .. 1]
<1>1. md.a \in Nat /\ md.b \in Nat /\ md.b < Modulus /\ md.c \in Nat /\ md.c \in Word
  BY WordFacts DEF Types
<1>2. /\ (2 * md.a) % Modulus \in Word /\ (md.c + md.a) % Modulus \in Word
      /\ md.b \div 2 \in Word
  BY <1>1, WordFacts DEF Word
<1>3. MdStep \in MD
  BY <1>1, <1>2 DEF MdStep
<1>4. Bus1 \in Word /\ Bus2 \in Word
  BY Operands
<1>5. MdNext \in MD
  BY <1>3, <1>4, WordFacts DEF MdNext
<1> QED
  BY <1>5 DEF Md, Types

LEMMA DbgTyped ==
  ASSUME Types
  PROVE  DbgNext \in [pending : 0 .. 3, halt : 0 .. 4, target : Word]
<1> DEFINE D == [pending : 0 .. 3, halt : 0 .. 4, target : Word]
<1>1. DbgMode \in 0 .. 4
  BY DEF Types, DbgMode, DBG_run, DBG_step_cycle, DBG_step_out
<1>2. (pc + 1) % Modulus \in Word /\ pc \in Word /\ 0 \in Word
  <2>1. pc + 1 \in Int
    <3>1. pc \in Nat
      BY WordFacts DEF Types
    <3> QED
      BY <3>1
  <2> QED
    BY <2>1, WordFacts DEF Types
<1>3. dbg \in D
  BY DEF Types
<1>4. CASE Break
  BY <1>1, <1>2, <1>4 DEF DbgNext, DBG_step_in
<1>5. CASE ~Break /\ Resume
  <2> DEFINE mode == IF DbgMode = DBG_step_over /\ ~CallInst THEN DBG_step_in ELSE DbgMode
             at == IF mode = DBG_step_over THEN (pc + 1) % Modulus ELSE 0
  <2>1. mode \in 0 .. 4 /\ at \in Word /\ Flag(StepMode) \in 0 .. 3
    BY <1>1, <1>2 DEF DBG_step_in, Flag
  <2>2. DbgNext = [pending |-> Flag(StepMode), halt |-> mode, target |-> at]
    BY <1>5 DEF DbgNext
  <2> QED
    BY <2>1, <2>2
<1>6. CASE ~Break /\ ~Resume
  <2>1. \A p \in 0 .. 3 : [dbg EXCEPT !.pending = p] \in D
    BY <1>3
  <2>2. \A w \in Word : [dbg EXCEPT !.target = w] \in D
    BY <1>3
  <2>3. \/ \E p \in 0 .. 3 : DbgNext = [dbg EXCEPT !.pending = p]
        \/ \E w \in Word : DbgNext = [dbg EXCEPT !.target = w]
        \/ DbgNext = dbg
    BY <1>2, <1>6 DEF DbgNext
  <2> QED
    BY <1>3, <2>1, <2>2, <2>3
<1> QED
  BY <1>4, <1>5, <1>6

-----------------------------------------------------------------------------
(* Registers *)

LEMMA SetRdTyped ==
  ASSUME Types, NEW v \in Word, SetRd(v)
  PROVE  xreg' \in [Regs -> Word] /\ xreg'[0] = 0
  BY DcFacts, WordFacts DEF SetRd, Types

LEMMA CsrTyped ==
  ASSUME NEW c \in CSR, NEW w \in Word
  PROVE  /\ do_trap(c, w) \in CSR /\ do_mret(c) \in CSR /\ update_counter(c) \in CSR
         /\ \A r \in CsrNames : [c EXCEPT ![r] = w] \in CSR /\ c[r] \in Word
<1>1. /\ c.mie \in BOOLEAN /\ c.mpie \in BOOLEAN /\ c.mepc \in Word /\ c.mscratch \in Word
      /\ c.minstret \in Word
  BY DEF CSR
<1>2. do_trap(c, w) \in CSR /\ do_mret(c) \in CSR
  BY <1>1 DEF CSR, do_trap, do_mret
<1>3. (c.minstret + 1) % Modulus \in Word
  <2>1. c.minstret + 1 \in Int
    BY <1>1, WordFacts
  <2> QED
    BY <2>1, WordFacts
<1>4. update_counter(c) \in CSR
  BY <1>3 DEF CSR, update_counter
<1>5. /\ [c EXCEPT !["mepc"] = w] \in CSR /\ [c EXCEPT !["mscratch"] = w] \in CSR
      /\ [c EXCEPT !["minstret"] = w] \in CSR
  BY DEF CSR
<1> QED
  BY <1>1, <1>2, <1>4, <1>5 DEF CsrNames

\* A core that is not held goes on, wfi apart.
LEMMA FreeAdvances ==
  ASSUME Free, ~Advances
  PROVE  Wfi
  BY DEF Free, Advances, DbgStall

\* Where each action leaves T.
LEMMA NextT ==
  ASSUME Types, Fetched, Free
  PROVE  /\ Trap => T' = 0
         /\ Fetch => T' = 1
         /\ Latch => T' = 2
         /\ Execute => /\ Is({"LD", "BR"}) => T' = 3 /\ Advances
                       /\ ~Is({"LD", "BR"}) => T' = IF Advances THEN 0 ELSE 2
         /\ Finish => T' = 0 /\ Advances /\ Is({"LD", "BR"})
<1>1. T # 2 \/ Is({"LD", "BR"}) => Advances
  BY FreeAdvances DEF Wfi, Is, Dc, decode
<1>2. Trap => T' = 0
  BY DEF Trap
<1>3. Fetch => T' = 1
  BY <1>1 DEF Fetch, Advance, InstCompleted
<1>4. Latch => T' = 2
  BY <1>1 DEF Latch, Advance, InstCompleted
<1>5. Execute => /\ Is({"LD", "BR"}) => T' = 3 /\ Advances
                 /\ ~Is({"LD", "BR"}) => T' = IF Advances THEN 0 ELSE 2
  BY <1>1 DEF Execute, Advance, InstCompleted
<1>6. Finish => T' = 0 /\ Advances /\ Is({"LD", "BR"})
  <2>1. T = 3 => Is({"LD", "BR"})
    BY DEF Fetched, Is, Dc, decode
  <2> QED
    BY <1>1, <2>1 DEF Finish, Advance, InstCompleted
<1> QED
  BY <1>2, <1>3, <1>4, <1>5, <1>6

LEMMA SysFacts ==
  ASSUME Types
  PROVE  /\ Dc.opcode # "SYS" => Dc.sys = "none"
         /\ Dc.opcode = "SYS" => Dc.sys \in SystemOps
         /\ Dc.sys \in {"mret", "wfi"} => Dc.rd = 0
         /\ IsCsr(Dc) => /\ Dc.imm12 \in CsrNames
                         /\ Dc.sys \in {"csrrw", "csrrwi"} => Dc.rs1 # 0
                         /\ Dc.sys \notin {"csrrw", "csrrwi"} => Dc.rd # 0
<1>1. CASE ir = NoInst
  BY <1>1 DEF NoInst, Dc, decode, IsCsr
<1>2. CASE ir \in Instructions
  BY <1>2, DecodedSys DEF Dc
<1> QED
  BY <1>1, <1>2 DEF Types

LEMMA CsrValIsWord ==
  ASSUME Types, IsCsr(Dc)
  PROVE  CsrVal \in Word
<1>1. csr \in CSR /\ Dc.imm12 \in CsrNames /\ 0 \in Word
  BY SysFacts, WordFacts DEF Types
<1>2. csr[Dc.imm12] \in Word
  BY <1>1, CsrTyped
<1> QED
  BY <1>1, <1>2 DEF CsrVal

\* What T2 writes to the control registers, before the instruction is counted.
Written == CASE CsrWrites -> [csr EXCEPT ![Dc.imm12] = CsrModified(Dc, CsrVal, Bus1)]
             [] Dc.sys = "mret" -> do_mret(csr)
             [] OTHER -> csr

LEMMA WrittenTyped ==
  ASSUME Types
  PROVE  Written \in CSR
<1>1. csr \in CSR /\ 0 \in Word
  BY WordFacts DEF Types
<1>2. CASE CsrWrites
  <2>1. IsCsr(Dc) /\ Dc.sys # "mret"
    BY <1>2 DEF CsrWrites, IsCsr
  <2>2. Dc.imm12 \in CsrNames /\ CsrModified(Dc, CsrVal, Bus1) \in Word
    BY <2>1, SysFacts, Operands, ModifiedIsWord
  <2>3. [csr EXCEPT ![Dc.imm12] = CsrModified(Dc, CsrVal, Bus1)] \in CSR
    BY <1>1, <2>2, CsrTyped
  <2> QED
    BY <1>2, <2>1, <2>3 DEF Written
<1>3. CASE ~CsrWrites /\ Dc.sys = "mret"
  BY <1>1, <1>3, CsrTyped DEF Written
<1>4. CASE ~CsrWrites /\ Dc.sys # "mret"
  BY <1>1, <1>4 DEF Written
<1> QED
  BY <1>2, <1>3, <1>4

LEMMA RegistersTyped ==
  ASSUME Types, Fetched, Free, Md, Trap \/ Fetch \/ Latch \/ Execute \/ Finish
  PROVE  /\ T' \in 0 .. 3 /\ pc' \in Word /\ tr' \in Word /\ flg' \in 0 .. 1
         /\ ir' \in Instructions \cup {NoInst}
         /\ xreg' \in [Regs -> Word] /\ xreg'[0] = 0
         /\ csr' \in CSR
<1>1. /\ T \in 0 .. 3 /\ pc \in Word /\ tr \in Word /\ flg \in 0 .. 1 /\ csr \in CSR
      /\ ir \in Instructions \cup {NoInst} /\ xreg \in [Regs -> Word] /\ xreg[0] = 0
      /\ dout.inst \in Instructions \cup {NoInst}
  BY DEF Types
<1>2. AluOut \in Word /\ AluOut \in Nat /\ Mtvec \in Word /\ 0 \in Word
  BY AluIsWord, WordFacts, RegsAssumption
<1>3. CASE Trap
  BY <1>1, <1>2, <1>3, CsrTyped, NextT DEF Trap
<1>4. CASE Fetch
  BY <1>1, <1>2, <1>4, NextT DEF Fetch
<1>5. CASE Latch
  BY <1>1, <1>5, NextT DEF Latch
<1>6. CASE Execute
  <2>1. T' \in 0 .. 3 /\ tr' = tr /\ ir' = ir /\ T = 2
    BY <1>6, NextT DEF Execute
  <2>2. flg' \in 0 .. 1
    BY <1>1, <1>2, <1>6 DEF Execute
  <2>3. csr' \in CSR
    BY <1>6, WrittenTyped, CsrTyped, WordFacts DEF Execute, Written, Counted
  <2>4. MdOut \in Word
    <3>1. IsMul => MdNext.c \in Word
      BY <2>1, MdTyped DEF Md
    <3> QED
      BY <3>1, <1>2 DEF MdOut
  <2>5. \/ xreg' = xreg
        \/ \E v \in Word : SetRd(v)
    <3>1. \/ UNCHANGED xreg
          \/ SetRd(pc)
          \/ IsCsr(Dc) /\ SetRd(CsrVal)
          \/ SetRd(IF IsMul THEN MdOut ELSE AluOut)
      BY <1>6 DEF Execute
    <3> QED
      BY <1>1, <1>2, <2>4, <3>1, CsrValIsWord
  <2>6. pc' \in {AluOut, csr.mepc, pc}
    BY <1>6 DEF Execute
  <2>7. csr.mepc \in Word
    BY <1>1 DEF CSR
  <2> QED
    BY <1>1, <1>2, <2>1, <2>2, <2>3, <2>5, <2>6, <2>7, SetRdTyped
<1>7. CASE Finish
  <2>1. T' = 0 /\ tr' = tr /\ ir' = ir /\ flg' = flg
    BY <1>7, NextT DEF Finish
  <2>2. csr' \in CSR
    BY <1>1, <1>7, CsrTyped DEF Finish, Counted
  <2>3. ReadData \in Word
    BY ArithmeticAssumption DEF ReadData, Types
  <2>4. xreg' = xreg \/ SetRd(ReadData)
    BY <1>7 DEF Finish
  <2>5. pc' \in {AluOut, pc}
    BY <1>7 DEF Finish
  <2> QED
    BY <1>1, <1>2, <2>1, <2>2, <2>3, <2>4, <2>5, SetRdTyped
<1> QED
  BY <1>3, <1>4, <1>5, <1>6, <1>7

-----------------------------------------------------------------------------
(* The invariant of type and fetch *)

LEMMA TypesStep ==
  ASSUME Types, Fetched, [Clock]_vars
  PROVE  Types'
<1>1. CASE UNCHANGED vars
  BY <1>1 DEF vars, cpu, Types
<1>2. CASE Clock
  <2>1. /\ Md /\ dbg' = DbgNext /\ MemoryAccess /\ prog' = prog
        /\ mip' \in BOOLEAN /\ com' \in Nat
    BY <1>2, ClockParts DEF Types
  <2>2. /\ T' \in 0 .. 3 /\ pc' \in Word /\ tr' \in Word /\ flg' \in 0 .. 1
        /\ ir' \in Instructions \cup {NoInst}
        /\ xreg' \in [Regs -> Word] /\ xreg'[0] = 0
        /\ csr' \in CSR
    <3>1. CASE Stalled
      BY <3>1 DEF Stalled, cpu, Types
    <3>2. CASE Free /\ (Trap \/ Fetch \/ Latch \/ Execute \/ Finish)
      BY <3>2, <2>1, RegistersTyped
    <3> QED
      BY <1>2, <3>1, <3>2, ClockParts
  <2>3. md' \in [a : Word, b : Word, c : Word, stt : 0 .. 1]
    <3>1. CASE T = 0
      BY <3>1, <2>1 DEF Md, IsMul, Types
    <3> QED
      BY <3>1, <2>1, MdTyped
  <2>4. NoIo \/ IoStalled \/ IoCompleted
    BY <1>2, ClockParts DEF Held, Free
  <2> HIDE DEF Clock
  <2> QED
    BY <2>1, <2>2, <2>3, <2>4, DbgTyped, MemoryTyped, IoTyped DEF Types
<1> QED
  BY <1>1, <1>2

\* An instruction that is not over at T2 has not moved pc.
LEMMA PcKept ==
  ASSUME Types, Fetched, Free, Execute, T' # 0
  PROVE  pc' = pc
<1>1. Is({"LD", "BR"}) \/ Wfi
  BY NextT, FreeAdvances
<1>2. Dc.opcode \in {"LD", "BR"} \/ (Dc.opcode = "SYS" /\ Dc.sys = "wfi")
  BY <1>1, SysFacts DEF Is, Wfi
<1> QED
  BY <1>2, SysFacts DEF Execute, Is

LEMMA FetchedStep ==
  ASSUME Types, Fetched, [Clock]_vars
  PROVE  Fetched'
<1>1. CASE UNCHANGED vars
  BY <1>1 DEF vars, cpu, Fetched
<1>2. CASE Clock
  <2>1. MemoryAccess /\ prog' = prog
    BY <1>2, ClockParts
  <2>2. CASE Stalled
    <3>1. T = 1 => dout' = dout
      BY <2>1 DEF MemoryAccess
    <3> QED
      BY <2>1, <2>2, <3>1 DEF Stalled, cpu, Fetched
  <2>3. CASE Free /\ Trap
    BY <2>3, NextT DEF Fetched
  <2>4. CASE Free /\ Fetch
    <3>1. T' = 1 /\ tr' = pc /\ pc' = (pc + 1) % Modulus
      BY <2>4, NextT, AluAtFetch DEF Fetch
    <3>2. dout'.inst = prog[pc]
      BY <2>1, <2>4 DEF Fetch, MemoryAccess, Types
    <3> QED
      BY <2>1, <3>1, <3>2 DEF Fetched
  <2>5. CASE Free /\ Latch
    BY <2>1, <2>5, NextT DEF Latch, Fetched
  <2>6. CASE Free /\ Execute
    <3>1. T = 2 /\ tr' = tr /\ ir' = ir /\ T' \in {0, 2, 3}
      BY <2>6, NextT DEF Execute
    <3>2. T' = 3 => ir.opcode \in {"LD", "BR"}
      BY <2>6, NextT DEF Is, Dc, decode
    <3> QED
      BY <2>1, <2>6, <3>1, <3>2, PcKept DEF Fetched
  <2>7. CASE Free /\ Finish
    BY <2>7, NextT DEF Fetched
  <2> QED
    BY <1>2, <2>2, <2>3, <2>4, <2>5, <2>6, <2>7, ClockParts
<1> QED
  BY <1>1, <1>2

LEMMA InitHolds ==
  ASSUME Init
  PROVE  Types /\ Fetched /\ Halfway /\ Multiplying
<1>1. Types
  <2>1. /\ csr \in CSR /\ 0 \in Word
        /\ md \in [a : Word, b : Word, c : Word, stt : 0 .. 1]
    BY WordFacts DEF Init, InitCore, CSR, ResetCsr
  <2>2. /\ dout \in [inst : Instructions \cup {NoInst}, word : Word]
        /\ dbg \in [pending : 0 .. 3, halt : 0 .. 4, target : Word]
        /\ ops \in Seq(Transfers)
    BY <2>1 DEF Init, InitCore, DBG_run
  <2> QED
    BY <2>1, <2>2 DEF Init, InitCore, Types
<1>2. Fetched /\ Halfway /\ Multiplying
  BY DEF Init, InitCore, Fetched, Halfway, Multiplying
<1> QED
  BY <1>1, <1>2

-----------------------------------------------------------------------------
(* The multiplier *)

LEMMA DivMod ==
  ASSUME NEW x \in Int, NEW m \in Nat, m > 0
  PROVE  /\ x \div m \in Int /\ x % m \in Int /\ 0 <= x % m /\ x % m < m
         /\ x = m * (x \div m) + (x % m)
  OBVIOUS

\* Nothing between two multiples.
LEMMA SmallMultiple ==
  ASSUME NEW m \in Nat, NEW t \in Int, m * t < m, m * t > -m
  PROVE  t = 0
<1>1. CASE t >= 1
  <2>1. PICK s \in Nat : t = 1 + s
    BY <1>1
  <2>2. m * t = m + m * s /\ m * s >= 0
    BY <2>1
  <2> QED
    BY <2>2
<1>2. CASE t <= -1
  <2>1. PICK s \in Nat : t = -1 - s
    <3>1. -1 - t \in Nat /\ t = -1 - (-1 - t)
      BY <1>2
    <3> QED
      BY <3>1
  <2>2. m * t = -m - m * s /\ m * s >= 0
    BY <2>1
  <2> QED
    BY <2>2
<1> QED
  BY <1>1, <1>2

\* Multiples do not change a remainder.
LEMMA MultipleOut ==
  ASSUME NEW x \in Int, NEW m \in Nat, m > 0, NEW k \in Int
  PROVE  (x + k * m) % m = x % m
<1> DEFINE y == x + k * m
           r == x % m
           q == x \div m
           r2 == y % m
           q2 == y \div m
           t == q2 - q - k
<1>1. y \in Int /\ k * m \in Int
  OBVIOUS
<1>2. r \in Int /\ q \in Int /\ 0 <= r /\ r < m /\ x = m * q + r
  BY DivMod
<1>3. r2 \in Int /\ q2 \in Int /\ 0 <= r2 /\ r2 < m /\ y = m * q2 + r2
  BY <1>1, DivMod
<1> HIDE DEF r, q, r2, q2
<1>4. m * t = r - r2
  <2>1. m * t = m * q2 - m * q - k * m
    BY <1>2, <1>3
  <2> QED
    BY <1>1, <1>2, <1>3, <2>1
<1>5. t \in Int
  BY <1>2, <1>3
<1> HIDE DEF t
<1>6. t = 0
  BY <1>2, <1>3, <1>4, <1>5, SmallMultiple
<1>7. r = r2
  BY <1>2, <1>3, <1>4, <1>6
<1> QED
  BY <1>7 DEF r, r2
\* One bit of shift and add: the sum changes by multiples of Modulus only.
BitAdded(a, b, c, k) ==
  \E j \in Int :
    c + a * b + k * Modulus = (IF b % 2 = 1 THEN (c + a) % Modulus ELSE c)
                                + ((2 * a) % Modulus) * (b \div 2) + j * Modulus
LEMMA ShiftAndAdd ==
  ASSUME NEW a \in Nat, NEW b \in Nat, NEW c \in Nat, NEW k \in Int
  PROVE  BitAdded(a, b, c, k)
<1> DEFINE p == c + a * b + k * Modulus
           r == b % 2
           h == b \div 2
           a2 == (2 * a) % Modulus
           q == (2 * a) \div Modulus
           c2 == IF b % 2 = 1 THEN (c + a) % Modulus ELSE c
           l == IF b % 2 = 1 THEN (c + a) \div Modulus ELSE 0
<1>1. Modulus \in Int /\ Modulus \in Nat /\ Modulus > 0
  BY WordFacts
<1>2. r \in {0, 1} /\ h \in Int /\ b = 2 * h + r
  OBVIOUS
<1>3. q \in Int /\ a2 \in Int /\ 2 * a = Modulus * q + a2
  <2>1. 2 * a \in Nat
    OBVIOUS
  <2> QED
    BY <1>1, <2>1, DivMod
<1>4. l \in Int /\ c2 \in Int /\ c + a * r = c2 + l * Modulus
  <2>1. CASE r = 1
    <3>1. c + a \in Nat
      OBVIOUS
    <3>2. c + a = Modulus * l + c2 /\ l \in Int /\ c2 \in Int
      BY <1>1, <2>1, <3>1, DivMod
    <3> QED
      BY <1>1, <2>1, <3>2
  <2>2. CASE r = 0
    BY <1>1, <2>2
  <2> QED
    BY <1>2, <2>1, <2>2
<1> HIDE DEF r, h, a2, q, c2, l
<1>5. a * b = (2 * a) * h + a * r
  <2>1. a * (2 * h + r) = (2 * a) * h + a * r
    BY <1>2
  <2> QED
    BY <1>2, <2>1
<1>6. (2 * a) * h = a2 * h + (q * h) * Modulus
  <2>1. (Modulus * q + a2) * h = a2 * h + (q * h) * Modulus
    BY <1>1, <1>2, <1>3
  <2> QED
    BY <1>3, <2>1
<1>7. p = c2 + a2 * h + (l + q * h + k) * Modulus
  <2> DEFINE u == a2 * h
             v == q * h
  <2>1. u \in Int /\ v \in Int
    BY <1>2, <1>3
  <2>2. p = c + a * r + u + v * Modulus + k * Modulus
    BY <1>1, <1>2, <1>3, <1>5, <1>6
  <2> HIDE DEF u, v
  <2>3. p = c2 + l * Modulus + u + v * Modulus + k * Modulus
    BY <1>1, <1>2, <1>4, <2>1, <2>2
  <2>4. p = c2 + u + (l + v + k) * Modulus
    BY <1>1, <1>4, <2>1, <2>3
  <2> QED
    BY <2>4 DEF u, v
<1>8. l + q * h + k \in Int
  BY <1>2, <1>3, <1>4
<1> QED
  BY <1>7, <1>8 DEF p, c2, a2, h, BitAdded

LEMMA MulOperands ==
  ASSUME Types, IsMul
  PROVE  Bus1 = xreg[Dc.rs1] /\ Bus2 = xreg[Dc.rs2] /\ Dc.sys = "none"
<1>1. T = 2 /\ Is({"COMP"}) /\ Dc.sys = "none"
  BY SysFacts DEF IsMul, Is
<1> QED
  BY <1>1 DEF Bus1, Bus2, Rs1, Rs2, Is

LEMMA MultiplyingStep ==
  ASSUME Types, Multiplying, [Clock]_vars
  PROVE  Multiplying'
<1>1. CASE UNCHANGED vars
  BY <1>1 DEF vars, cpu, Multiplying, IsMul, Is, Dc
<1>2. CASE Clock /\ md'.stt = 1
  <2>1. IsMul
    BY <1>2, ClockParts DEF Md, Multiplying
  <2>2. md' = MdNext /\ MdPending
    BY <1>2, <2>1, ClockParts DEF Md, MdPending
  <2>3. Stalled
    BY <1>2, <2>2, ClockParts DEF Free
  <2>4. T' = 2 /\ IsMul' /\ Dc' = Dc /\ xreg' = xreg
    BY <2>1, <2>3 DEF Stalled, cpu, IsMul, Is, Dc
  <2> DEFINE p == xreg[Dc.rs1] * xreg[Dc.rs2]
  <2>5. xreg[Dc.rs1] \in Nat /\ xreg[Dc.rs2] \in Nat /\ p \in Int
    BY Operands, WordFacts
  <2>6. \E k \in Int : p = md'.c + md'.a * md'.b + k * Modulus
    <3>1. CASE md.stt = 0
      <4>1. md' = [a |-> xreg[Dc.rs1], b |-> xreg[Dc.rs2], c |-> 0, stt |-> 1]
        BY <2>1, <2>2, <3>1, MulOperands DEF MdNext
      <4>2. p = 0 + xreg[Dc.rs1] * xreg[Dc.rs2] + 0 * Modulus
        BY <2>5, WordFacts
      <4> QED
        BY <4>1, <4>2
    <3>2. CASE md.stt = 1
      <4>1. md.a \in Nat /\ md.b \in Nat /\ md.c \in Nat
        BY WordFacts DEF Types
      <4>2. PICK k \in Int : p = md.c + md.a * md.b + k * Modulus
        BY <3>2 DEF Multiplying
      <4>3. /\ md'.c = IF md.b % 2 = 1 THEN (md.c + md.a) % Modulus ELSE md.c
            /\ md'.a = (2 * md.a) % Modulus /\ md'.b = md.b \div 2
        BY <2>2, <3>2 DEF MdNext, MdStep
      <4> HIDE DEF p
      <4>4. \E j \in Int :
              md.c + md.a * md.b + k * Modulus
                = (IF md.b % 2 = 1 THEN (md.c + md.a) % Modulus ELSE md.c)
                    + ((2 * md.a) % Modulus) * (md.b \div 2) + j * Modulus
        <5>1. BitAdded(md.a, md.b, md.c, k)
          BY <4>1, ShiftAndAdd
        <5> QED
          BY <5>1, Zenon DEF BitAdded
      <4> QED
        BY <4>2, <4>3, <4>4
    <3> QED
      BY <3>1, <3>2 DEF Types
  <2> QED
    BY <2>4, <2>6 DEF Multiplying
<1>3. CASE Clock /\ md'.stt # 1
  BY <1>3 DEF Multiplying
<1> QED
  BY <1>1, <1>2, <1>3

LEMMA ProductRead ==
  ASSUME Types, Fetched, Multiplying, Clock
  PROVE  MulEnds /\ Dc.rd # 0 =>
           xreg'[Dc.rd] = (xreg[Dc.rs1] * xreg[Dc.rs2]) % Modulus
<1> SUFFICES ASSUME IsMul, T' = 0, Dc.rd # 0
             PROVE  xreg'[Dc.rd] = (xreg[Dc.rs1] * xreg[Dc.rs2]) % Modulus
  BY DEF MulEnds
<1> DEFINE p == xreg[Dc.rs1] * xreg[Dc.rs2]
<1>1. Free /\ Execute /\ T = 2
  BY ClockParts DEF IsMul, Stalled, Trap, Fetch, Latch, Finish
<1>2. md.stt = 1 /\ MdNext.stt = 0 /\ MdNext = MdStep
  BY <1>1 DEF Free, MdPending, MdNext, Types, MdStep
<1>3. md.a \in Nat /\ md.b \in Nat /\ md.c \in Nat /\ md.c % Modulus = md.c /\ p \in Int
  <2>1. md.a \in Word /\ md.b \in Word /\ md.c \in Word
    BY DEF Types
  <2>2. xreg[Dc.rs1] \in Nat /\ xreg[Dc.rs2] \in Nat
    BY Operands, WordFacts
  <2> QED
    BY <2>1, <2>2, WordFacts
<1>4. md.b \div 2 = 0
  BY <1>2 DEF MdStep
<1>5. PICK k \in Int : p = md.c + md.a * md.b + k * Modulus
  BY <1>2 DEF Multiplying
<1>6. MdOut = IF md.b % 2 = 1 THEN (md.c + md.a) % Modulus ELSE md.c
  BY <1>2 DEF MdOut, MdStep
<1>7. MdOut = p % Modulus
  <2>1. Modulus \in Nat /\ Modulus > 0
    BY WordFacts
  <2> HIDE DEF p
  <2>2. CASE md.b = 1
    <3>1. MdOut = (md.c + md.a) % Modulus
      BY <1>6, <2>2
    <3>2. p = (md.c + md.a) + k * Modulus /\ md.c + md.a \in Int
      BY <1>3, <1>5, <2>2
    <3> QED
      BY <2>1, <3>1, <3>2, MultipleOut
  <2>3. CASE md.b = 0
    <3>1. MdOut = md.c
      BY <1>6, <2>3
    <3>2. p = md.c + k * Modulus
      BY <1>3, <1>5, <2>3
    <3>3. md.c \in Int
      BY <1>3
    <3>4. (md.c + k * Modulus) % Modulus = md.c % Modulus
      BY <2>1, <3>3, MultipleOut, Zenon
    <3> QED
      BY <1>3, <3>1, <3>2, <3>4
  <2> QED
    BY <1>3, <1>4, <2>2, <2>3
<1>8. SetRd(MdOut)
  <2>1. Dc.opcode = "COMP" /\ Dc.sys = "none" /\ ~IsCsr(Dc)
    BY SysFacts DEF IsMul, Is, IsCsr
  <2> QED
    BY <1>1, <2>1 DEF Execute, Is
<1> QED
  BY <1>7, <1>8, DcFacts DEF SetRd, Types

Inv == Types /\ Fetched /\ Multiplying

LEMMA InvStep ==
  ASSUME Inv, [Clock]_vars
  PROVE  Inv'
  BY TypesStep, FetchedStep, MultiplyingStep DEF Inv

\* The inductive invariant holds of every program and every command.
THEOREM Invariance == Spec => []Inv
<1>1. Init => Inv
  BY InitHolds DEF Inv
<1>2. Inv /\ [Clock]_vars => Inv'
  BY InvStep
<1> QED
  BY <1>1, <1>2, PTL DEF Spec

\* Registers, memory, multiplier and debugger stay in their ranges, every sum,
\* shift and stored byte cut to a word, and every instruction ends by T 3.
THEOREM TypeCorrect == Spec => []TypeOK
<1>1. Inv => TypeOK
  BY DcFacts DEF Inv, Types, TypeOK
<1> QED
  BY <1>1, Invariance, PTL

\* The multiplier leaves the product in rd at the end of mul, for every pair of
\* words and however its T-state is repeated.
THEOREM MulCorrect == Spec => MulIsProduct
<1>1. Inv /\ [Clock]_vars =>
        [MulEnds /\ Dc.rd # 0 =>
           xreg'[Dc.rd] = (xreg[Dc.rs1] * xreg[Dc.rs2]) % Modulus]_vars
  BY ProductRead DEF Inv
<1> QED
  BY <1>1, Invariance, PTL DEF Spec, MulIsProduct

-----------------------------------------------------------------------------
(* What a load or a branch has put by at T3 *)

LEMMA SameInstruction ==
  ASSUME ir' = ir, xreg' = xreg
  PROVE  /\ Dc' = Dc /\ Rs1' = Rs1 /\ Rs2' = Rs2
         /\ LoadAddr' = LoadAddr /\ FromDevice' = FromDevice
  BY DEF Dc, Rs1, Rs2, LoadAddr, FromDevice

\* Loads and branches write no register at T2, nor a control register.
LEMMA ExecuteKeeps ==
  ASSUME Types, Execute, Is({"LD", "BR"})
  PROVE  xreg' = xreg /\ pc' = pc /\ ir' = ir
<1>1. Dc.sys = "none" /\ ~IsCsr(Dc) /\ Dc.opcode \notin {"JAL", "JALR"} /\ Dc.sys # "mret"
  BY SysFacts DEF Is, IsCsr
<1>2. Is({"BR"}) => Dc.rd = 0
  BY DcFacts DEF Is
<1> QED
  BY <1>1, <1>2 DEF Execute, SetRd, Is

\* Where IO_LD_completed is set.
LEMMA LoadCompletes ==
  ASSUME Types, NoIo \/ IoStalled \/ IoCompleted
  PROVE  /\ ~(T = 2 /\ Is({"LD"}) /\ FromDevice) => ~IO_LD_completed'
         /\ T # 2 \/ ~Is({"LD", "ST"}) => NoIo /\ IoOp = "none"
<1>1. T # 2 \/ ~Is({"LD", "ST"}) => NoIo /\ IoOp = "none"
  BY DEF IoOp, NoIo, IoStalled, IoCompleted
<1>2. ~(T = 2 /\ Is({"LD"}) /\ FromDevice) => IoOp # "LD"
  BY IoOpFacts DEF Is
<1>3. IoOp # "LD" => ~IO_LD_completed'
  BY DEF NoIo, IoStalled, IoCompleted
<1> QED
  BY <1>1, <1>2, <1>3

LEMMA HalfwayStep ==
  ASSUME Types, Fetched, Halfway, [Clock /\ AnswersFit /\ AnswerUsed]_vars
  PROVE  Halfway'
<1>1. CASE UNCHANGED vars
  BY <1>1 DEF vars, cpu, Halfway, Is, Dc, Rs1, Rs2, LoadAddr, FromDevice
<1>2. CASE Clock /\ AnswersFit /\ AnswerUsed
  <2>1. MemoryAccess /\ (NoIo \/ IoStalled \/ IoCompleted)
    BY <1>2, ClockParts DEF Held, Free
  <2>2. CASE Held /\ Stalled
    <3>1. /\ T' = T /\ flg' = flg
          /\ Dc' = Dc /\ Rs1' = Rs1 /\ Rs2' = Rs2
          /\ LoadAddr' = LoadAddr /\ FromDevice' = FromDevice
      BY <2>2, SameInstruction DEF Stalled, cpu
    <3>2. T \in {1, 3} => UNCHANGED <<dout, byte_pos, ld_type, mem>>
      BY <2>1 DEF MemoryAccess
    <3>3. T = 2 /\ Is({"LD"}) /\ FromDevice => UNCHANGED <<byte_pos, ld_type>>
      <4>1. T = 2 /\ Is({"LD"}) /\ FromDevice => IoOp # "none"
        BY IoOpFacts DEF Is
      <4> QED
        BY <2>1, <4>1 DEF MemoryAccess
    <3>4. T = 3 => ~IO_LD_completed /\ ~IO_LD_completed'
      <4>1. T = 3 => DbgStall
        <5>1. T = 3 => IoOp = "none"
          BY DEF IoOp
        <5> QED
          BY <2>2, <5>1 DEF Held, IoStalled, MdPending, IsMul
      <4> QED
        BY <1>2, <2>1, <4>1, LoadCompletes DEF AnswerUsed
    <3> QED
      BY <3>1, <3>2, <3>3, <3>4 DEF Halfway, Is
  <2>3. CASE Free /\ (Trap \/ Finish)
    BY <2>3, NextT DEF Halfway
  <2>4. CASE Free /\ Fetch
    BY <2>1, <2>4, NextT DEF Halfway, Fetch, MemoryAccess
  <2>5. CASE Free /\ Latch
    <3>1. T = 1 /\ T' = 2
      BY <2>5, NextT DEF Latch
    <3> QED
      BY <2>1, <3>1 DEF Halfway, MemoryAccess
  <2>6. CASE Free /\ Execute /\ ~Is({"LD", "BR"})
    <3>1. T' \in {0, 2} /\ ir' = ir
      BY <2>6, NextT DEF Execute
    <3>2. ~Is({"LD"})'
      BY <2>6, <3>1 DEF Is, Dc
    <3> QED
      BY <3>1, <3>2 DEF Halfway
  <2>7. CASE Free /\ Execute /\ Is({"LD", "BR"})
    <3>1. T' = 3 /\ T = 2
      BY <2>7, NextT DEF Execute
    <3>2. /\ Dc' = Dc /\ Rs1' = Rs1 /\ Rs2' = Rs2
          /\ LoadAddr' = LoadAddr /\ FromDevice' = FromDevice
      BY <2>7, ExecuteKeeps, SameInstruction
    <3>3. CASE Is({"BR"})
      <4>1. flg' = AluOut % 2 /\ Bus1 = Rs1 /\ Bus2 = Rs2
        BY <2>7, <3>1, <3>3 DEF Execute, Bus1, Bus2, Is
      <4>2. AluOut = compute(Rs1, Rs2, Dc.opID)
        BY <3>1, <3>3, <4>1, DcFacts, AluComputes DEF Is
      <4>3. ~IO_LD_completed'
        BY <2>1, <3>3, LoadCompletes DEF Is
      <4> QED
        BY <3>1, <3>2, <3>3, <4>1, <4>2, <4>3 DEF Halfway, Is
    <3>4. CASE Is({"LD"}) /\ ~FromDevice
      <4>1. ~IO_LD_completed' /\ IoOp = "none" /\ AluOut = LoadAddr
        BY <2>1, <3>1, <3>4, LoadCompletes, IoOpFacts DEF Is
      <4>2. /\ dout'.word = mem[InMem(LoadAddr)] /\ mem' = mem
            /\ byte_pos' = BytePos(LoadAddr) /\ ld_type' = Dc.size
        BY <2>1, <3>1, <3>4, <4>1 DEF MemoryAccess, Is, Types
      <4> QED
        BY <3>1, <3>2, <3>4, <4>1, <4>2 DEF Halfway, Is
    <3>5. CASE Is({"LD"}) /\ FromDevice
      <4>1. IoOp = "LD" /\ AluOut = LoadAddr
        BY <3>1, <3>5, IoOpFacts DEF Is
      <4>3. byte_pos' = 0 /\ ld_type' = "lw"
        BY <2>1, <3>1, <3>5, <4>1 DEF MemoryAccess, Halfway, Is
      <4>4. IoCompleted
        BY <2>7, <4>1 DEF Free, NoIo
      <4>5. IO_LD_completed'
        BY <4>1, <4>4 DEF IoCompleted
      <4>6. formatRead(BytePos(LoadAddr), Dc.size, latched') = latched'
        BY <1>2, <4>1, <4>5 DEF AnswersFit
      <4>7. PICK w \in Words[ld_size(Dc.size)] :
              latched' = w /\ ops' = Append(ops, Device("LD", AluOut, ld_size(Dc.size), w))
        BY <2>7, <4>1, <4>4 DEF IoCompleted, Free, Logged, Again
      <4>8. ops' # <<>> /\ ops'[Len(ops')] = Device("LD", LoadAddr, ld_size(Dc.size), latched')
        BY <4>1, <4>7 DEF Types
      <4> QED
        BY <3>1, <3>2, <3>5, <4>3, <4>5, <4>6, <4>8 DEF Halfway, Is
    <3> QED
      BY <2>7, <3>3, <3>4, <3>5 DEF Is
  <2> QED
    BY <1>2, <2>2, <2>3, <2>4, <2>5, <2>6, <2>7, ClockParts
<1> QED
  BY <1>1, <1>2

-----------------------------------------------------------------------------
(* The simulator's operators are the core's: an instance has its own copy *)

LEMMA SimWords ==
  /\ Sim!Modulus = Modulus /\ Sim!Word = Word
  /\ \A x, y, op : Sim!compute(x, y, op) = compute(x, y, op)
<1>1. Sim!Modulus = Modulus /\ Sim!Word = Word
  BY DEF Sim!Word, Word, Sim!Modulus, Modulus, Sim!Width, Width
<1>2. ASSUME NEW x, NEW y, NEW op
      PROVE  Sim!compute(x, y, op) = compute(x, y, op)
  BY DEF Sim!compute, compute, Sim!ShiftRight, ShiftRight, Sim!ShiftLeft, ShiftLeft,
         Sim!Num, Num, Sim!Bits, Bits, Sim!Flag, Flag, Sim!Sign, Sign, Sim!O, O,
         Sim!Modulus, Modulus, Sim!Width, Width,
         Sim!MapThenSumSet, MapThenSumSet, Sim!MapThenFoldSet, MapThenFoldSet
<1> QED
  BY <1>1, <1>2

LEMMA SimDecode ==
  /\ \A i : Sim!decode(i) = decode(i)
  /\ \A d : Sim!IsCsr(d) = IsCsr(d)
<1>1. ASSUME NEW i PROVE Sim!decode(i) = decode(i)
  BY DEF Sim!decode, decode, Sim!decMD, decMD, Sim!decComp, decComp,
         Sim!validateComp, validateComp, Sim!decBranch, decBranch, Sim!decLD, decLD,
         Sim!decST, decST, Sim!decSYS, decSYS, Sim!O, O, Sim!M, M
<1>2. ASSUME NEW d PROVE Sim!IsCsr(d) = IsCsr(d)
  BY DEF Sim!IsCsr, IsCsr
<1> QED
  BY <1>1, <1>2

LEMMA SimMemory ==
  /\ \A x : /\ Sim!BytePos(x) = BytePos(x) /\ Sim!InMem(x) = InMem(x)
            /\ Sim!MEM_ADDR_OUT_OF_BOUNDS(x) = MEM_ADDR_OUT_OF_BOUNDS(x)
            /\ Sim!ld_size(x) = ld_size(x) /\ Sim!st_size(x) = st_size(x)
  /\ \A p, t, x : Sim!formatRead(p, t, x) = formatRead(p, t, x)
  /\ \A p, t, x : Sim!formatWrite(p, t, x) = formatWrite(p, t, x)
  /\ \A x, y, e : Sim!storeMemByteEnable(x, y, e) = storeMemByteEnable(x, y, e)
  /\ \A k, a, s, w : Sim!Device(k, a, s, w) = Device(k, a, s, w)
<1>1. ASSUME NEW x
      PROVE  /\ Sim!BytePos(x) = BytePos(x) /\ Sim!InMem(x) = InMem(x)
             /\ Sim!ld_size(x) = ld_size(x) /\ Sim!st_size(x) = st_size(x)
  BY DEF Sim!BytePos, BytePos, Sim!InMem, InMem, Sim!ld_size, ld_size, Sim!st_size, st_size
<1>2. ASSUME NEW x
      PROVE  Sim!MEM_ADDR_OUT_OF_BOUNDS(x) = MEM_ADDR_OUT_OF_BOUNDS(x)
  BY DEF Sim!MEM_ADDR_OUT_OF_BOUNDS, MEM_ADDR_OUT_OF_BOUNDS
<1>3. ASSUME NEW p, NEW t, NEW x
      PROVE  Sim!formatRead(p, t, x) = formatRead(p, t, x)
  BY DEF Sim!formatRead, formatRead, Sim!ShiftRight, ShiftRight, Sim!Num, Num, Sim!Bits, Bits,
         Sim!ld_size, ld_size, Sim!Byte, Byte, Sim!Modulus, Modulus, Sim!Width, Width,
         Sim!MapThenSumSet, MapThenSumSet, Sim!MapThenFoldSet, MapThenFoldSet
<1>4. ASSUME NEW p, NEW t, NEW x
      PROVE  Sim!formatWrite(p, t, x) = formatWrite(p, t, x)
  BY DEF Sim!formatWrite, formatWrite, Sim!ShiftLeft, ShiftLeft, Sim!Num, Num, Sim!Bits, Bits,
         Sim!st_size, st_size, Sim!Byte, Byte, Sim!Width, Width,
         Sim!MapThenSumSet, MapThenSumSet, Sim!MapThenFoldSet, MapThenFoldSet
<1>5. ASSUME NEW x, NEW y, NEW e
      PROVE  Sim!storeMemByteEnable(x, y, e) = storeMemByteEnable(x, y, e)
  BY DEF Sim!storeMemByteEnable, storeMemByteEnable, Sim!Num, Num, Sim!Bits, Bits,
         Sim!Byte, Byte, Sim!Width, Width,
         Sim!MapThenSumSet, MapThenSumSet, Sim!MapThenFoldSet, MapThenFoldSet
<1>6. ASSUME NEW k, NEW a, NEW s, NEW w
      PROVE  Sim!Device(k, a, s, w) = Device(k, a, s, w)
  BY DEF Sim!Device, Device
<1> QED
  BY <1>1, <1>2, <1>3, <1>4, <1>5, <1>6

LEMMA SimRegisters ==
  /\ Sim!ResetCsr = ResetCsr
  /\ \A c, p : Sim!interrupt_detected(c, p) = interrupt_detected(c, p)
  /\ \A c, x : Sim!do_trap(c, x) = do_trap(c, x)
  /\ \A c : Sim!do_mret(c) = do_mret(c) /\ Sim!update_counter(c) = update_counter(c)
  /\ \A d, x : Sim!CsrSource(d, x) = CsrSource(d, x)
  /\ \A d, x : Sim!CsrSkipsWrite(d, x) = CsrSkipsWrite(d, x)
  /\ \A d, c : Sim!CsrRead(d, c) = CsrRead(d, c)
  /\ \A d, x, y : Sim!CsrModified(d, x, y) = CsrModified(d, x, y)
<1>1. ASSUME NEW d, NEW x, NEW y
      PROVE  Sim!CsrModified(d, x, y) = CsrModified(d, x, y)
  BY DEF Sim!CsrModified, CsrModified, Sim!Num, Num, Sim!Bits, Bits, Sim!Width, Width,
         Sim!MapThenSumSet, MapThenSumSet, Sim!MapThenFoldSet, MapThenFoldSet
<1>2. ASSUME NEW c, NEW x
      PROVE  /\ Sim!interrupt_detected(c, x) = interrupt_detected(c, x)
             /\ Sim!do_trap(c, x) = do_trap(c, x)
             /\ Sim!do_mret(c) = do_mret(c) /\ Sim!update_counter(c) = update_counter(c)
  BY DEF Sim!interrupt_detected, interrupt_detected, Sim!do_trap, do_trap, Sim!do_mret, do_mret,
         Sim!update_counter, update_counter, Sim!Modulus, Modulus, Sim!Width, Width
<1>3. ASSUME NEW d, NEW x
      PROVE  /\ Sim!CsrSource(d, x) = CsrSource(d, x)
             /\ Sim!CsrSkipsWrite(d, x) = CsrSkipsWrite(d, x)
             /\ Sim!CsrRead(d, x) = CsrRead(d, x)
  BY DEF Sim!CsrSource, CsrSource, Sim!CsrSkipsWrite, CsrSkipsWrite, Sim!CsrRead, CsrRead
<1>4. Sim!ResetCsr = ResetCsr
  BY DEF Sim!ResetCsr, ResetCsr
<1> QED
  BY <1>1, <1>2, <1>3, <1>4

-----------------------------------------------------------------------------
(* ARCH1 implements the simulator *)

\* The simulator's pc, pending interrupt and accesses, as module Core maps them.
SimPc  == IF T = 0 THEN pc ELSE tr
SimMip == T = 0 /\ mip
SimOps == IF T = 3 /\ IO_LD_completed THEN SubSeq(ops, 1, Len(ops) - 1) ELSE ops

\* A clock that leaves the simulator's registers alone moves at most the lines.
LEMMA Quiet ==
  ASSUME SimPc' = SimPc, SimOps' = SimOps, UNCHANGED <<prog, xreg, mem, csr>>
  PROVE  Sim!Lines \/ UNCHANGED Sim!issvars
<1>1. SimMip' = SimMip \/ SimMip' = ~SimMip
  BY DEF SimMip
<1> QED
  BY <1>1 DEF Sim!Lines, Sim!issvars, SimPc, SimOps, SimMip

\* While an instruction is executed the simulator decodes the same one, and
\* reads the same operands.
LEMMA SimReads ==
  ASSUME Types, Fetched, T \in {2, 3}
  PROVE  /\ Sim!Dc = Dc /\ Sim!Rs1 = xreg[Dc.rs1] /\ Sim!Rs2 = Rs2
         /\ Sim!nxt_pc = pc
         /\ Sim!Rs1Imm = (xreg[Dc.rs1] + Dc.imm) % Modulus
         /\ Sim!Active <=> Dc.opcode \in {"LD", "ST"}
                             /\ MEM_ADDR_OUT_OF_BOUNDS((xreg[Dc.rs1] + Dc.imm) % Modulus)
         /\ ~Sim!interrupt_detected(csr, SimMip)
<1>1. Sim!Dc = Dc
  BY SimDecode DEF Sim!Dc, Dc, Fetched
<1>2. Sim!Rs1 = xreg[Dc.rs1] /\ Sim!Rs2 = Rs2
  BY <1>1 DEF Sim!Rs1, Sim!Rs2, Rs2
<1>3. Sim!nxt_pc = pc
  BY SimWords DEF Sim!nxt_pc, Fetched
<1>4. Sim!Rs1Imm = (xreg[Dc.rs1] + Dc.imm) % Modulus
  BY <1>1, <1>2, SimWords DEF Sim!Rs1Imm
<1>5. Sim!Active <=> Dc.opcode \in {"LD", "ST"}
                       /\ MEM_ADDR_OUT_OF_BOUNDS((xreg[Dc.rs1] + Dc.imm) % Modulus)
  BY <1>1, <1>4, SimMemory DEF Sim!Active
<1>6. ~Sim!interrupt_detected(csr, SimMip)
  BY DEF SimMip, Sim!interrupt_detected
<1> QED
  BY <1>1, <1>2, <1>3, <1>4, <1>5, <1>6

\* The last clock of an instruction that ends at T2.
Ends ==
  /\ Types /\ Fetched /\ Free /\ Execute /\ MemoryAccess /\ prog' = prog
  /\ T' = 0 /\ ~Is({"LD", "BR"}) /\ ~IsMul

LEMMA EndsCommon ==
  ASSUME Ends
  PROVE  /\ T = 2 /\ SimPc' = pc' /\ SimPc = tr /\ SimOps = ops /\ SimOps' = ops'
         /\ csr' = update_counter(Written)
         /\ ~Is({"ST"}) => mem' = mem /\ ops' = ops
         /\ Sim!Execute <=> Sim!Compute \/ Sim!Branch \/ Sim!Load \/ Sim!Store \/ Sim!System
<1>1. T = 2 /\ SimPc' = pc' /\ SimPc = tr /\ SimOps = ops /\ SimOps' = ops'
  BY DEF Ends, Execute, SimPc, SimOps
<1>2. Advances /\ InstCompleted
  BY <1>1, NextT DEF Ends, InstCompleted
<1>3. csr' = update_counter(Written)
  BY <1>2 DEF Ends, Execute, Counted, Written
<1>4. ~Is({"ST"}) => mem' = mem /\ ops' = ops
  <2>1. ~Is({"ST"}) => NoIo
    BY LoadCompletes DEF Ends, Free, Is
  <2> QED
    BY <2>1 DEF Ends, MemoryAccess, NoIo
<1>5. SimMip' \in BOOLEAN /\ ~Sim!interrupt_detected(csr, SimMip)
  BY <1>1, SimReads DEF SimMip, Ends
<1>6. Sim!Execute <=> Sim!Compute \/ Sim!Branch \/ Sim!Load \/ Sim!Store \/ Sim!System
  BY <1>5 DEF Sim!Execute, SimMip
<1> QED
  BY <1>1, <1>3, <1>4, <1>6

\* Instructions that compute.
LEMMA ComputeEnds ==
  ASSUME Ends, Is({"COMP", "COMPI", "LUI", "AUIPC"})
  PROVE  Sim!Compute
<1>1. T = 2 /\ Dc.sys = "none" /\ ~IsCsr(Dc) /\ Types /\ Fetched
  BY EndsCommon, SysFacts DEF Ends, Is, IsCsr
<1>2. SetRd(AluOut) /\ pc' = pc
  BY <1>1 DEF Ends, Execute, Is
<1>3. ~Dc.isMD
  BY <1>1, DcFacts DEF Ends, IsMul, Is
<1>4. Bus1 = (IF Is({"AUIPC"}) THEN tr ELSE xreg[Dc.rs1])
      /\ Bus2 = (IF Is({"COMP"}) THEN Rs2 ELSE Dc.imm)
  BY <1>1 DEF Bus1, Bus2, Rs1, Is
<1>5. Written = csr
  BY <1>1 DEF Written, CsrWrites
<1> DEFINE v == CASE Dc.opcode = "LUI"   -> Dc.imm
                  [] Dc.opcode = "AUIPC" -> (tr + Dc.imm) % Modulus
                  [] Dc.opcode = "COMP"  -> compute(xreg[Dc.rs1], Rs2, Dc.opID)
                  [] OTHER               -> compute(xreg[Dc.rs1], Dc.imm, Dc.opID)
<1>6. AluOut = v
  <2>1. CASE Is({"COMP", "COMPI"})
    BY <1>1, <1>3, <1>4, <2>1, AluComputes DEF Is
  <2>2. CASE Is({"AUIPC"})
    BY <1>1, <1>4, <2>2, AluAdds DEF Is
  <2>3. CASE Is({"LUI"})
    <3>1. xreg[Dc.rs1] = 0 /\ Dc.imm \in Word
      BY <1>1, <2>3, DcFacts DEF Is, Types
    <3>2. AluOut = (0 + Dc.imm) % Modulus
      BY <1>1, <1>4, <2>3, <3>1, AluAdds DEF Is
    <3>3. 0 + Dc.imm = Dc.imm /\ Dc.imm % Modulus = Dc.imm
      BY <3>1, WordFacts
    <3> QED
      BY <2>3, <3>2, <3>3 DEF Is
  <2> QED
    BY <2>1, <2>2, <2>3 DEF Is
<1>7. v = CASE Sim!Dc.opcode = "LUI"   -> Sim!Dc.imm
            [] Sim!Dc.opcode = "AUIPC" -> (SimPc + Sim!Dc.imm) % Sim!Modulus
            [] Sim!Dc.opcode = "COMP"  -> Sim!compute(Sim!Rs1, Sim!Rs2, Sim!Dc.opID)
            [] OTHER                   -> Sim!compute(Sim!Rs1, Sim!Dc.imm, Sim!Dc.opID)
  BY <1>1, SimReads, SimWords, EndsCommon
<1> HIDE DEF v
<1>8. Sim!SetRd(v)
  BY <1>1, <1>2, <1>6, SimReads DEF SetRd, Sim!SetRd
<1>9. Sim!Retire(Sim!nxt_pc)
  BY <1>1, <1>2, <1>5, EndsCommon, SimReads, SimRegisters DEF Sim!Retire, SimPc, Ends
<1>10. Sim!Dc.opcode \in {"COMP", "COMPI", "LUI", "AUIPC"}
  BY <1>1, SimReads DEF Is
<1>11. mem' = mem /\ SimOps' = SimOps
  BY EndsCommon DEF Is
<1> QED
  BY <1>7, <1>8, <1>9, <1>10, <1>11 DEF Sim!Compute, SimPc, SimOps

\* Jumps.
LEMMA JumpEnds ==
  ASSUME Ends, Is({"JAL", "JALR"})
  PROVE  Sim!Branch
<1>1. T = 2 /\ Dc.sys = "none" /\ ~IsCsr(Dc) /\ Types /\ Fetched
  BY EndsCommon, SysFacts DEF Ends, Is, IsCsr
<1>2. SetRd(pc) /\ pc' = AluOut
  BY <1>1 DEF Ends, Execute, Is
<1>3. Bus1 = IF Is({"JAL"}) THEN tr ELSE xreg[Dc.rs1]
  BY <1>1 DEF Bus1, Rs1, Is
<1>4. Written = csr
  BY <1>1 DEF Written, CsrWrites
<1>5. AluOut = IF Is({"JAL"}) THEN (tr + Dc.imm) % Modulus
               ELSE (xreg[Dc.rs1] + Dc.imm) % Modulus
  BY <1>1, <1>3, AluAdds DEF Is
<1> DEFINE next == CASE Sim!Dc.opcode = "JALR" -> Sim!Rs1Imm
                     [] Sim!Dc.opcode = "BR" /\ Sim!compute(Sim!Rs1, Sim!Rs2, Sim!Dc.opID) % 2 = 0
                          -> Sim!nxt_pc
                     [] OTHER -> (SimPc + Sim!Dc.imm) % Sim!Modulus
<1>6. AluOut = next
  BY <1>1, <1>5, SimReads, SimWords, EndsCommon DEF Is
<1> HIDE DEF next
<1>7. Sim!Retire(next)
  BY <1>1, <1>2, <1>4, <1>6, EndsCommon, SimRegisters DEF Sim!Retire, SimPc, Ends
<1>8. Sim!SetRd(Sim!nxt_pc)
  BY <1>1, <1>2, SimReads DEF SetRd, Sim!SetRd
<1>9. Sim!Dc.opcode \in {"JAL", "JALR"}
  BY <1>1, SimReads DEF Is
<1>10. mem' = mem /\ SimOps' = SimOps
  BY EndsCommon DEF Is
<1> QED
  BY <1>6, <1>7, <1>8, <1>9, <1>10 DEF next, Sim!Branch, SimPc, SimOps

\* Stores, into memory or to a device.
LEMMA StoreEnds ==
  ASSUME Ends, Is({"ST"})
  PROVE  Sim!Store
<1>1. T = 2 /\ Dc.sys = "none" /\ ~IsCsr(Dc) /\ Types /\ Fetched /\ Dc.opcode = "ST"
  BY EndsCommon, SysFacts DEF Ends, Is, IsCsr
<1>2. xreg' = xreg /\ pc' = pc
  BY <1>1, DcFacts DEF Ends, Execute, Is, SetRd
<1>3. Written = csr
  BY <1>1 DEF Written, CsrWrites
<1>4. AluOut = Sim!Rs1Imm
  <2>1. AluOut = (xreg[Dc.rs1] + Dc.imm) % Modulus
    BY <1>1, IoOpFacts DEF LoadAddr, Rs1, Is
  <2> QED
    BY <1>1, <2>1, SimReads
<1>5. Sim!Active <=> IoOp = "ST"
  <2>1. Sim!Active <=> MEM_ADDR_OUT_OF_BOUNDS(AluOut)
    BY <1>1, <1>4, SimReads
  <2> QED
    BY <1>1, <2>1 DEF IoOp, Is
<1> DEFINE f == Sim!formatWrite(Sim!BytePos(Sim!Rs1Imm), Sim!Dc.size, Sim!Rs2)
<1>6. f = Formatted
  BY <1>1, <1>4, SimReads, SimMemory DEF Formatted
<1> HIDE DEF f
<1>7. Sim!Retire(Sim!nxt_pc)
  BY <1>1, <1>2, <1>3, EndsCommon, SimReads, SimRegisters DEF Sim!Retire, SimPc, Ends
<1>8. CASE Sim!Active
  <2>1. IoCompleted /\ IoOp = "ST"
    BY <1>5, <1>8 DEF Ends, Free, NoIo
  <2>2. ops' = Append(ops, Device("ST", AluOut, st_size(Dc.size), Formatted.din))
    BY <1>1, <2>1 DEF IoCompleted, Ends, Free, Logged, Again
  <2>3. SimOps' = Append(SimOps, Sim!Device("ST", Sim!Rs1Imm, Sim!st_size(Sim!Dc.size), f.din))
    BY <1>1, <1>4, <1>6, <2>2, EndsCommon, SimReads, SimMemory
  <2>4. mem' = mem
    BY <1>1, <2>1 DEF Ends, MemoryAccess
  <2> QED
    BY <1>1, <1>2, <1>7, <1>8, <2>3, <2>4, SimReads DEF f, Sim!Store, SimPc, SimOps
<1>9. CASE ~Sim!Active
  <2>1. NoIo /\ IoOp = "none"
    BY <1>1, <1>5, <1>9 DEF Ends, Free, IoCompleted, NoIo, IoOp, Is
  <2>2. SimOps' = SimOps
    BY <2>1, EndsCommon DEF NoIo
  <2>3. mem' = [mem EXCEPT ![InMem(AluOut)] =
                  storeMemByteEnable(@, Formatted.din, Formatted.byte_enable)]
    BY <1>1, <2>1 DEF Ends, MemoryAccess, Is
  <2>4. mem' = [mem EXCEPT ![Sim!InMem(Sim!Rs1Imm)] =
                  Sim!storeMemByteEnable(@, f.din, f.byte_enable)]
    BY <1>4, <1>6, <2>3, SimMemory
  <2> QED
    BY <1>1, <1>2, <1>7, <1>9, <2>2, <2>4, SimReads DEF f, Sim!Store, SimPc, SimOps
<1> QED
  BY <1>8, <1>9

\* Control registers: what ARCH1 reads and writes by the register numbers the
\* simulator reads and writes by the values.
LEMMA CsrAgrees ==
  ASSUME Types, Fetched, T = 2, IsCsr(Dc)
  PROVE  /\ CsrRead(Dc, csr) = CsrVal
         /\ CsrSource(Dc, xreg[Dc.rs1]) = Bus1
         /\ Written = IF CsrSkipsWrite(Dc, Bus1) THEN csr
                      ELSE [csr EXCEPT ![Dc.imm12] = CsrModified(Dc, CsrVal, Bus1)]
<1>1. CsrRead(Dc, csr) = CsrVal
  BY SysFacts DEF CsrRead, CsrVal
<1>2. Bus1 = Rs1 /\ CsrSource(Dc, xreg[Dc.rs1]) = Bus1
  BY DEF Bus1, Rs1, CsrSource
<1> DEFINE new == [csr EXCEPT ![Dc.imm12] = CsrModified(Dc, CsrVal, Bus1)]
<1>3. Written = IF Dc.rs1 # 0 THEN new ELSE csr
  <2>1. Dc.sys # "mret" /\ (CsrWrites <=> Dc.rs1 # 0)
    BY DEF IsCsr, CsrWrites
  <2> QED
    BY <2>1 DEF Written
<1>4. CsrSkipsWrite(Dc, Bus1) <=> Dc.sys \notin {"csrrw", "csrrwi"} /\ Bus1 = 0
  BY DEF CsrSkipsWrite
<1>5. Dc.rs1 = 0 => Bus1 = 0 /\ Dc.sys \notin {"csrrw", "csrrwi"}
  BY <1>2, SysFacts DEF Rs1, Types
<1>6. CASE Dc.sys \notin {"csrrw", "csrrwi"} /\ Bus1 = 0
  <2>1. CsrVal = csr[Dc.imm12] /\ CsrModified(Dc, CsrVal, 0) = CsrVal
    BY <1>6, SysFacts, CsrValIsWord, NothingModified DEF CsrVal
  <2>2. [csr EXCEPT ![Dc.imm12] = csr[Dc.imm12]] = csr
    BY DEF Types, CSR
  <2>3. new = csr
    BY <1>6, <2>1, <2>2
  <2> HIDE DEF new
  <2>4. Written = csr
    BY <1>3, <2>3
  <2> QED
    BY <1>1, <1>2, <1>4, <1>6, <2>4
<1>7. CASE ~(Dc.sys \notin {"csrrw", "csrrwi"} /\ Bus1 = 0)
  BY <1>1, <1>2, <1>3, <1>4, <1>5, <1>7
<1> QED
  BY <1>6, <1>7

LEMMA SystemEnds ==
  ASSUME Ends, Is({"SYS"})
  PROVE  Sim!System
<1>1. T = 2 /\ Dc.sys \in SystemOps /\ Types /\ Fetched /\ Dc.opcode = "SYS"
  BY EndsCommon, SysFacts DEF Ends, Is
<1>2. mem' = mem /\ SimOps' = SimOps /\ prog' = prog
  BY EndsCommon, <1>1 DEF Is, Ends
<1>3. Sim!Dc = Dc /\ Sim!nxt_pc = pc /\ Sim!Rs1 = xreg[Dc.rs1] /\ Sim!IsCsr(Dc) = IsCsr(Dc)
  BY <1>1, SimReads, SimDecode
<1> DEFINE src == Sim!CsrSource(Dc, xreg[Dc.rs1])
           val == Sim!CsrRead(Dc, csr)
           c == CASE Dc.sys = "mret" -> do_mret(csr)
                  [] IsCsr(Dc) /\ ~Sim!CsrSkipsWrite(Dc, src) ->
                       [csr EXCEPT ![Dc.imm12] = Sim!CsrModified(Dc, val, src)]
                  [] OTHER -> csr
<1>4. Written = c
  <2>1. CASE IsCsr(Dc)
    <3>1. src = Bus1 /\ val = CsrVal
      BY <1>1, <2>1, CsrAgrees, SimRegisters
    <3>2. Dc.sys # "mret"
      BY <2>1 DEF IsCsr
    <3> QED
      BY <1>1, <2>1, <3>1, <3>2, CsrAgrees, SimRegisters
  <2>2. CASE ~IsCsr(Dc)
    BY <2>2 DEF Written, CsrWrites
  <2> QED
    BY <2>1, <2>2
<1>5. csr' = Sim!update_counter(c)
  BY <1>4, EndsCommon, SimRegisters
<1>6. xreg' = xreg \/ IsCsr(Dc)
  BY <1>1, SysFacts DEF Ends, Execute, SetRd, Is, IsCsr, SystemOps
<1>7. IsCsr(Dc) => Sim!SetRd(val)
  <2> SUFFICES ASSUME IsCsr(Dc) PROVE Sim!SetRd(val)
    OBVIOUS
  <2>1. SetRd(CsrVal)
    BY <1>1 DEF Ends, Execute, Is, IsCsr
  <2>2. val = CsrVal
    BY <1>1, CsrAgrees, SimRegisters
  <2> QED
    BY <1>3, <2>1, <2>2 DEF SetRd, Sim!SetRd
<1>8. SimPc' = IF Dc.sys = "mret" THEN csr.mepc ELSE pc
  BY <1>1, EndsCommon DEF Ends, Execute, Is, IsCsr
<1> HIDE DEF c
<1>9. ~IsCsr(Dc) => xreg' = xreg
  BY <1>6
<1> QED
  BY <1>1, <1>2, <1>3, <1>5, <1>7, <1>8, <1>9, SimRegisters
     DEF c, Sim!System, SimPc, SimOps

\* The last clock of a load or of a branch.
LEMMA FinishCommon ==
  ASSUME Types, Fetched, Halfway, Free, Finish, MemoryAccess
  PROVE  /\ T = 3 /\ T' = 0 /\ Is({"LD", "BR"}) /\ mem' = mem /\ ops' = ops
         /\ SimPc' = pc' /\ SimPc = tr /\ SimOps' = ops
         /\ csr' = update_counter(csr)
         /\ Sim!Rs1Imm = LoadAddr
         /\ Sim!Execute <=> Sim!Compute \/ Sim!Branch \/ Sim!Load \/ Sim!Store \/ Sim!System
<1>1. T = 3 /\ T' = 0 /\ Is({"LD", "BR"}) /\ Advances
  BY NextT DEF Finish
<1>2. mem' = mem /\ ops' = ops
  <2>1. NoIo
    <3>1. NoIo \/ IoStalled \/ IoCompleted
      BY DEF Free
    <3> QED
      BY <1>1, <3>1, LoadCompletes
  <2> QED
    BY <1>1, <2>1 DEF MemoryAccess, NoIo
<1>3. csr' = update_counter(csr)
  BY <1>1 DEF Finish, Counted, InstCompleted
<1>4. Sim!Rs1Imm = LoadAddr
  <2>1. Rs1 = xreg[Dc.rs1]
    BY <1>1, SysFacts DEF Rs1, Is
  <2> QED
    BY <1>1, <2>1, SimReads DEF LoadAddr
<1>5. ~Sim!interrupt_detected(csr, SimMip) /\ SimMip' \in BOOLEAN
  BY <1>1, SimReads DEF SimMip
<1>6. Sim!Execute <=> Sim!Compute \/ Sim!Branch \/ Sim!Load \/ Sim!Store \/ Sim!System
  BY <1>5 DEF Sim!Execute, SimMip
<1>7. SimPc' = pc' /\ SimPc = tr /\ SimOps' = ops
  BY <1>1, <1>2 DEF SimPc, SimOps
<1> QED
  BY <1>1, <1>2, <1>3, <1>4, <1>6, <1>7

LEMMA BranchEnds ==
  ASSUME Types, Fetched, Halfway, Free, Finish, MemoryAccess, prog' = prog, Is({"BR"})
  PROVE  Sim!Branch
<1>1. T = 3 /\ Dc.opcode = "BR" /\ Dc.sys = "none"
  BY FinishCommon, SysFacts DEF Is
<1>2. /\ pc' = IF flg = 1 THEN AluOut ELSE pc
      /\ xreg' = xreg
  BY <1>1 DEF Finish, Is
<1>3. AluOut = (tr + Dc.imm) % Modulus
  <2>1. Bus1 = tr
    BY <1>1 DEF Bus1
  <2> QED
    BY <1>1, <2>1, AluAdds DEF Is
<1>4. flg = compute(xreg[Dc.rs1], Rs2, Dc.opID) % 2 /\ flg \in {0, 1}
  BY <1>1 DEF Halfway, Is, Rs1, Types
<1> DEFINE next == CASE Sim!Dc.opcode = "JALR" -> Sim!Rs1Imm
                     [] Sim!Dc.opcode = "BR" /\ Sim!compute(Sim!Rs1, Sim!Rs2, Sim!Dc.opID) % 2 = 0
                          -> Sim!nxt_pc
                     [] OTHER -> (SimPc + Sim!Dc.imm) % Sim!Modulus
<1>5. pc' = next
  <2>1. Sim!compute(Sim!Rs1, Sim!Rs2, Sim!Dc.opID) % 2 = flg
    BY <1>1, <1>4, SimReads, SimWords
  <2>2. Sim!Dc.opcode = "BR" /\ Sim!nxt_pc = pc /\ SimPc = tr /\ Sim!Modulus = Modulus
        /\ Sim!Dc.imm = Dc.imm
    BY <1>1, SimReads, SimWords, FinishCommon
  <2> QED
    BY <1>2, <1>3, <1>4, <2>1, <2>2
<1> HIDE DEF next
<1>6. Sim!Retire(next)
  BY <1>5, FinishCommon, SimRegisters DEF Sim!Retire, SimPc
<1>7. Sim!Dc.opcode = "BR"
  BY <1>1, SimReads
<1>8. mem' = mem /\ SimOps' = SimOps
  BY <1>1, FinishCommon DEF SimOps, Halfway, Is
<1> QED
  BY <1>2, <1>6, <1>7, <1>8 DEF next, Sim!Branch, SimPc, SimOps

LEMMA LastAppended ==
  ASSUME NEW S, NEW s \in Seq(S), s # <<>>
  PROVE  Append(SubSeq(s, 1, Len(s) - 1), s[Len(s)]) = s
  OBVIOUS

LEMMA AppendedLast ==
  ASSUME NEW S, NEW s \in Seq(S), NEW x \in S
  PROVE  SubSeq(Append(s, x), 1, Len(Append(s, x)) - 1) = s
  OBVIOUS

LEMMA LoadEnds ==
  ASSUME Types, Fetched, Halfway, Free, Finish, MemoryAccess, prog' = prog, Is({"LD"})
  PROVE  Sim!Load
<1>1. T = 3 /\ Dc.opcode = "LD"
  BY FinishCommon DEF Is
<1>2. SetRd(ReadData) /\ pc' = pc /\ mem' = mem
  BY <1>1, FinishCommon DEF Finish
<1> DEFINE word == IF FromDevice THEN latched ELSE mem[InMem(LoadAddr)]
<1>3. ReadData = formatRead(BytePos(LoadAddr), Dc.size, word)
  <2>1. latched \in Word => formatRead(0, "lw", latched) = latched
    BY ArithmeticAssumption
  <2> QED
    BY <1>1, <2>1 DEF ReadData, Halfway, Is, Types
<1>4. Sim!Active <=> FromDevice
  BY <1>1, SimReads, FinishCommon DEF FromDevice
<1>5. word \in IF Sim!Active THEN Sim!Word ELSE {mem[Sim!InMem(Sim!Rs1Imm)]}
  BY <1>4, FinishCommon, SimWords, SimMemory DEF Types
<1>6. SimOps' = IF Sim!Active
                THEN Append(SimOps, Sim!Device("LD", Sim!Rs1Imm, Sim!ld_size(Sim!Dc.size), word))
                ELSE SimOps
  <2>1. CASE FromDevice
    <3>1. IO_LD_completed /\ ops # <<>>
          /\ ops[Len(ops)] = Device("LD", LoadAddr, ld_size(Dc.size), latched)
      BY <1>1, <2>1 DEF Halfway, Is
    <3>2. SimOps = SubSeq(ops, 1, Len(ops) - 1)
      BY <1>1, <3>1 DEF SimOps
    <3>3. Append(SimOps, ops[Len(ops)]) = ops
      BY <3>1, <3>2, LastAppended DEF Types
    <3>4. Sim!Device("LD", Sim!Rs1Imm, Sim!ld_size(Sim!Dc.size), word) = ops[Len(ops)]
      BY <1>1, <2>1, <3>1, SimReads, SimMemory, FinishCommon
    <3> QED
      BY <1>4, <2>1, <3>3, <3>4, FinishCommon
  <2>2. CASE ~FromDevice
    BY <1>1, <1>4, <2>2, FinishCommon DEF Halfway, Is, SimOps
  <2> QED
    BY <2>1, <2>2
<1> HIDE DEF word
<1>7. Sim!SetRd(Sim!formatRead(Sim!BytePos(Sim!Rs1Imm), Sim!Dc.size, word))
  BY <1>1, <1>2, <1>3, FinishCommon, SimReads, SimMemory DEF SetRd, Sim!SetRd
<1>8. Sim!Retire(Sim!nxt_pc)
  BY <1>1, <1>2, FinishCommon, SimReads, SimRegisters DEF Sim!Retire, SimPc
<1>9. Sim!Dc.opcode = "LD"
  BY <1>1, SimReads
<1> QED
  BY <1>2, <1>5, <1>6, <1>7, <1>8, <1>9 DEF Sim!Load, SimOps, SimPc

-----------------------------------------------------------------------------
(* Every clock is a step of the simulator, or none *)

\* A clock in which the core is held changes nothing that the simulator has, apart
\* from an access that the debugger has made again.
LEMMA HeldIsQuiet ==
  ASSUME Types, Held, Stalled, MemoryAccess, AnswerUsed, prog' = prog
  PROVE  Sim!Lines \/ UNCHANGED Sim!issvars \/ AccessRepeated
<1>1. T' = T /\ pc' = pc /\ tr' = tr /\ xreg' = xreg /\ csr' = csr
  BY DEF Stalled, cpu
<1>2. NoIo \/ IoStalled \/ IoCompleted
  BY DEF Held
<1>3. CASE T # 2
  <2>1. NoIo /\ IoOp = "none"
    BY <1>2, <1>3, LoadCompletes
  <2>2. ops' = ops /\ ~IO_LD_completed'
    BY <2>1 DEF NoIo
  <2>3. mem' = mem
    BY <1>3 DEF MemoryAccess
  <2>4. ~(T = 3 /\ IO_LD_completed)
    <3>1. DbgStall
      BY <1>3, <2>1 DEF Held, IoStalled, MdPending, IsMul
    <3> QED
      BY <3>1 DEF AnswerUsed
  <2>5. SimOps' = SimOps
    BY <2>2, <2>4 DEF SimOps
  <2> QED
    BY <1>1, <2>3, <2>5, Quiet DEF SimPc
<1>4. CASE T = 2
  <2>1. CASE IoStalled
    <3>1. mem' = mem /\ ops' = ops
      BY <2>1 DEF IoStalled, MemoryAccess
    <3> QED
      BY <1>1, <1>4, <3>1, Quiet DEF SimPc, SimOps
  <2>2. CASE (DbgStall \/ MdPending) /\ (IoOp # "none" \/ Is({"ST"}))
    <3>1. ~MdPending
      BY <2>2 DEF MdPending, IsMul, IoOp, Is
    <3> QED
      BY <1>4, <2>2, <3>1 DEF AccessRepeated, Stalled
  <2>3. CASE (DbgStall \/ MdPending) /\ IoOp = "none" /\ ~Is({"ST"})
    <3>1. IoOp = "none" /\ ~Is({"ST"})
      BY <2>3
    <3>2. ops' = ops
      BY <1>2, <3>1 DEF NoIo, IoStalled, IoCompleted
    <3>3. mem' = mem
      BY <3>1 DEF MemoryAccess
    <3> QED
      BY <1>1, <1>4, <3>2, <3>3, Quiet DEF SimPc, SimOps
  <2> QED
    BY <2>1, <2>2, <2>3 DEF Held
<1> QED
  BY <1>3, <1>4

\* An interrupt is taken before an instruction is fetched.
LEMMA TrapIsTrap ==
  ASSUME Types, Fetched, Free, Trap, MemoryAccess, prog' = prog, mip' \in BOOLEAN
  PROVE  Sim!Trap
<1>1. T = 0 /\ T' = 0 /\ interrupt_detected(csr, SimMip)
  BY DEF Trap, InterruptDetected, SimMip, interrupt_detected
<1>2. NoIo
  <2>1. NoIo \/ IoStalled \/ IoCompleted
    BY DEF Free
  <2> QED
    BY <1>1, <2>1, LoadCompletes
<1>3. mem' = mem /\ SimOps' = SimOps
  BY <1>1, <1>2 DEF MemoryAccess, NoIo, SimOps
<1>4. /\ csr' = Sim!do_trap(csr, SimPc) /\ SimPc' = Mtvec /\ xreg' = xreg
      /\ Sim!interrupt_detected(csr, SimMip)
  BY <1>1, SimRegisters DEF Trap, SimPc
<1>5. SimMip' \in BOOLEAN
  BY <1>1 DEF SimMip
<1> QED
  BY <1>3, <1>4, <1>5 DEF Sim!Trap, SimPc, SimOps, SimMip

\* A fetch leaves the instruction to execute the same: pc moves on and tr takes
\* its place.
LEMMA FetchIsQuiet ==
  ASSUME Types, Fetched, Free, Fetch \/ Latch, MemoryAccess, prog' = prog
  PROVE  Sim!Lines \/ UNCHANGED Sim!issvars
<1>1. T \in {0, 1} /\ T' = T + 1 /\ xreg' = xreg /\ csr' = csr
  BY NextT DEF Fetch, Latch
<1>2. NoIo
  <2>1. NoIo \/ IoStalled \/ IoCompleted
    BY DEF Free
  <2> QED
    BY <1>1, <2>1, LoadCompletes
<1>3. mem' = mem /\ SimOps' = SimOps
  BY <1>1, <1>2 DEF MemoryAccess, NoIo, SimOps
<1>4. SimPc' = SimPc
  BY <1>1 DEF Fetch, Latch, SimPc
<1> QED
  BY <1>1, <1>3, <1>4, Quiet

\* The first clock of a load or a branch, and a clock of wfi that waits.
LEMMA UnfinishedIsQuiet ==
  ASSUME Types, Fetched, Free, Execute, MemoryAccess, prog' = prog, T' # 0
  PROVE  Sim!Lines \/ UNCHANGED Sim!issvars
<1>1. T = 2 /\ T' \in {2, 3} /\ tr' = tr
  BY NextT DEF Execute
<1>2. SimPc' = SimPc
  BY <1>1 DEF SimPc
<1>3. NoIo \/ IoStalled \/ IoCompleted
  BY DEF Free
<1>4. CASE Is({"LD", "BR"})
  <2>1. xreg' = xreg /\ T' = 3 /\ Dc.sys = "none" /\ mem' = mem
    BY <1>4, ExecuteKeeps, NextT, SysFacts DEF Is, MemoryAccess
  <2>2. csr' = csr
    <3>1. ~InstCompleted
      BY <1>1, <1>4 DEF InstCompleted
    <3>2. ~CsrWrites /\ Dc.sys # "mret"
      BY <1>4, <2>1 DEF CsrWrites, IsCsr, Is
    <3> QED
      BY <3>1, <3>2 DEF Execute, Counted
  <2>3. SimOps' = SimOps
    <3>1. CASE IoOp = "LD"
      <4>1. IoCompleted
        BY <3>1 DEF Free, NoIo
      <4>2. PICK w \in Words[ld_size(Dc.size)] :
              ops' = Append(ops, Device("LD", AluOut, ld_size(Dc.size), w))
        BY <3>1, <4>1 DEF IoCompleted, Free, Logged, Again
      <4>3. IO_LD_completed'
        BY <3>1, <4>1 DEF IoCompleted
      <4>4. Device("LD", AluOut, ld_size(Dc.size), w) \in Transfers
        BY AluIsWord, DeviceWord DEF Device, Transfers, ld_size
      <4>5. SubSeq(ops', 1, Len(ops') - 1) = ops
        BY <4>2, <4>4, AppendedLast DEF Types
      <4> QED
        BY <1>1, <2>1, <4>3, <4>5 DEF SimOps
    <3>2. CASE IoOp # "LD"
      <4>1. IoOp = "none"
        BY <1>4, <3>2 DEF IoOp, Is
      <4>2. ops' = ops /\ ~IO_LD_completed'
        BY <1>3, <4>1 DEF NoIo, IoStalled, IoCompleted
      <4> QED
        BY <1>1, <4>2 DEF SimOps
    <3> QED
      BY <3>1, <3>2
  <2> QED
    BY <1>2, <2>1, <2>2, <2>3, Quiet
<1>5. CASE ~Is({"LD", "BR"})
  <2>1. ~Advances /\ Wfi
    BY <1>1, <1>5, NextT, FreeAdvances
  <2>2. Dc.sys = "wfi" /\ Dc.rd = 0 /\ Dc.opcode = "SYS"
    BY <2>1, SysFacts DEF Wfi
  <2>3. xreg' = xreg
    BY <2>2 DEF Execute, SetRd, Is, IsCsr
  <2>4. csr' = csr
    <3>1. ~CsrWrites
      BY <2>2 DEF CsrWrites, IsCsr
    <3> QED
      BY <2>1, <2>2, <3>1 DEF Execute, Counted
  <2>5. ops' = ops
    <3>1. NoIo
      BY <1>3, <2>2, LoadCompletes DEF Is
    <3> QED
      BY <3>1 DEF NoIo
  <2>6. mem' = mem
    BY <2>2 DEF MemoryAccess, Is
  <2>7. SimOps' = SimOps
    <3>1. T' = 2
      BY <1>5, <2>1, NextT
    <3> QED
      BY <1>1, <2>5, <3>1 DEF SimOps
  <2> QED
    BY <1>2, <2>3, <2>4, <2>6, <2>7, Quiet
<1> QED
  BY <1>4, <1>5

\* Behind reset and the first fetch the instruction register is never empty.
LEMMA SomeOpcode ==
  ASSUME Types, Fetched, T = 2
  PROVE  Dc.opcode \in Opcodes
<1>1. ir \in Instructions
  BY DEF Types, Fetched
<1> QED
  BY <1>1 DEF Instructions, Records, Dc, decode

LEMMA SimStep ==
  ASSUME Types, Fetched, Halfway, [Clock /\ AnswersFit /\ AnswerUsed]_vars
  PROVE  [Sim!Next \/ MulEnds \/ AccessRepeated]_(Sim!issvars)
<1>1. CASE UNCHANGED vars
  BY <1>1, Quiet DEF vars, cpu, SimPc, SimOps, Sim!Next
<1>2. CASE Clock /\ AnswerUsed
  <2>1. MemoryAccess /\ prog' = prog /\ mip' \in BOOLEAN
    BY <1>2, ClockParts
  <2>2. CASE Held /\ Stalled
    BY <1>2, <2>1, <2>2, HeldIsQuiet DEF Sim!Next
  <2>3. CASE Free /\ Trap
    BY <2>1, <2>3, TrapIsTrap DEF Sim!Next
  <2>4. CASE Free /\ (Fetch \/ Latch)
    BY <2>1, <2>4, FetchIsQuiet DEF Sim!Next
  <2>5. CASE Free /\ Execute /\ T' # 0
    BY <2>1, <2>5, UnfinishedIsQuiet DEF Sim!Next
  <2>6. CASE Free /\ Execute /\ T' = 0 /\ IsMul
    BY <2>6 DEF MulEnds
  <2>7. CASE Free /\ Execute /\ T' = 0 /\ ~IsMul
    <3>1. T = 2 /\ ~Is({"LD", "BR"})
      BY <2>7, NextT DEF Execute
    <3>2. Ends
      BY <2>1, <2>7, <3>1 DEF Ends
    <3>3. Is({"COMP", "COMPI", "LUI", "AUIPC"}) \/ Is({"JAL", "JALR"}) \/ Is({"ST"}) \/ Is({"SYS"})
      BY <3>1, SomeOpcode DEF Opcodes, Is
    <3>4. Sim!Compute \/ Sim!Branch \/ Sim!Store \/ Sim!System
      BY <3>2, <3>3, ComputeEnds, JumpEnds, StoreEnds, SystemEnds
    <3>5. Sim!Execute
      BY <3>2, <3>4, EndsCommon
    <3> QED
      BY <3>5 DEF Sim!Next
  <2>8. CASE Free /\ Finish
    <3>1. Is({"LD", "BR"})
      BY <2>8, NextT
    <3>2. CASE Is({"LD"})
      BY <2>1, <2>8, <3>2, LoadEnds, FinishCommon DEF Sim!Next
    <3>3. CASE Is({"BR"})
      BY <2>1, <2>8, <3>3, BranchEnds, FinishCommon DEF Sim!Next
    <3> QED
      BY <3>1, <3>2, <3>3 DEF Is
  <2> QED
    BY <1>2, <2>2, <2>3, <2>4, <2>5, <2>6, <2>7, <2>8, ClockParts
<1> QED
  BY <1>1, <1>2

LEMMA SimInit ==
  ASSUME Init
  PROVE  Sim!Init
<1>1. SimPc = 0 /\ SimMip = FALSE /\ SimOps = <<>>
  BY DEF Init, InitCore, SimPc, SimMip, SimOps
<1>2. csr = Sim!ResetCsr
  BY SimRegisters DEF Init, InitCore
<1>3. xreg \in [Regs -> Sim!Word] /\ xreg[0] = 0 /\ mem \in [0 .. MemWords - 1 -> Sim!Word]
  BY SimWords DEF Init
<1> QED
  BY <1>1, <1>2, <1>3 DEF Sim!Init, SimPc, SimMip, SimOps

\* What the registers between the T-states hold is what the simulator would read
\* and decide, at every T-state and however long the core is held at it: of programs
\* of Instructions, on devices whose AnswersFit, and if each AnswerUsed at once.
THEOREM HalfwayCorrect == SpecAlike => [](Types /\ Fetched /\ Halfway)
<1>1. Init => Types /\ Fetched /\ Halfway
  BY InitHolds
<1>2. Types /\ Fetched /\ Halfway /\ [Clock /\ AnswersFit /\ AnswerUsed]_vars
        => Types' /\ Fetched' /\ Halfway'
  <2> SUFFICES ASSUME Types, Fetched, Halfway, [Clock /\ AnswersFit /\ AnswerUsed]_vars
               PROVE  Types' /\ Fetched' /\ Halfway'
    OBVIOUS
  <2>1. [Clock]_vars
    OBVIOUS
  <2> QED
    BY <2>1, TypesStep, FetchedStep, HalfwayStep
<1> QED
  BY <1>1, <1>2, PTL DEF SpecAlike

\* ARCH1 executes a program as the simulator does, one instruction after the other,
\* whatever stalls it and wherever interrupts fall: the same registers, memory,
\* control registers and count, and each access to a device in order and once, but
\* for those that a held core makes again.  Under the same three conditions.
THEOREM CoreCorrect == SpecAlike => ImplementsIss
<1>1. Init => Sim!Init
  BY SimInit
<1>2. Types /\ Fetched /\ Halfway /\ [Clock /\ AnswersFit /\ AnswerUsed]_vars
        => [Sim!Next \/ MulEnds \/ AccessRepeated]_(Sim!issvars)
  BY SimStep
<1> QED
  BY <1>1, <1>2, HalfwayCorrect, PTL DEF SpecAlike, ImplementsIss

-----------------------------------------------------------------------------
(* The debugger's steps *)

\* step_in: since the press, the instruction under way has ended just when T is 0
\* again.
SteppingIn ==
  /\ com = 1 => dbg.pending = 0 \/ dbg.halt = 1
  /\ com \notin 0 .. 4 => dbg.pending = 0
  /\ com \in 2 .. 4 =>
       /\ dbg.pending # 0 => dbg.halt \in 2 .. 4
       /\ dbg.pending \in {1, 2} /\ dbg.halt = 2 => since = IF T = 0 THEN 1 ELSE 0

\* A core that was held before an instruction and goes on without a press: another
\* interrupt is pending, and stays so until the core itself clears it.
OtherInterrupt == other /\ mip /\ csr.mie
Slipping ==
  com \in 2 .. 4 /\ dbg.pending = 3 =>
    /\ T = 1 => (mip => button \/ other)
    /\ T \in {2, 3} => OtherInterrupt

\* step_out: outside of the calls it passes, the core is in the function in which the
\* button was pressed, until the return that ends it.  A press in the last clock of a
\* return lets the core go behind it, but only while another interrupt is pending, and
\* that keeps it waiting.
SteppingOut ==
  com \in 2 .. 4 /\ dbg.halt = 4 =>
    /\ dbg.pending = 1 => /\ dbg.target = 0
                          /\ \/ depth = 0 /\ (T = 0 => ~ReturnInst)
                             \/ T = 0 /\ OtherInterrupt
    /\ dbg.pending = 2 /\ dbg.target = 0 => depth = IF T = 0 /\ ReturnInst THEN -1 ELSE 0

\* The debugger knows the end of a call by its return address alone, and takes address
\* 0 for none: what it needs of a program is that no call is behind the end of memory,
\* and that control comes to the address behind a call only when the call is over.
CallsReturn ==
  dbg.pending = 2 /\ dbg.halt = DBG_step_out =>
    /\ T = 2 /\ CallInst => pc # 0
    /\ T = 0 /\ dbg.target # 0 /\ dbg.target = pc => depth = 0

\* What a clock does to T and to the instruction under way.
LEMMA TAfter ==
  ASSUME Types, Fetched, Clock
  PROVE  /\ T \in {2, 3} => ir' = ir
         /\ T' = 0 /\ T # 0 => T \in {2, 3} /\ ir' = ir
<1>1. CASE Held /\ Stalled
  BY <1>1 DEF Stalled, cpu, Types
<1>2. CASE Free /\ (Trap \/ Fetch \/ Latch \/ Execute \/ Finish)
  <2>1. Latch => T' = 2 /\ T = 1
    BY <1>2, NextT DEF Latch
  <2>2. Trap \/ Fetch => T = 0
    BY DEF Trap, Fetch
  <2>3. Execute \/ Finish => T \in {2, 3} /\ ir' = ir
    BY DEF Execute, Finish
  <2> QED
    BY <1>2, <2>1, <2>2, <2>3
<1> QED
  BY <1>1, <1>2, ClockParts

\* The interrupt lines, and the command.
Cleared == IoOp = "ST" /\ SysMode /\ Formatted.din # 0
LEMMA LinesAfter ==
  ASSUME Types, Clock
  PROVE  /\ com' = com \/ (com \in 2 .. 4 /\ com' \in {0, 2, 3, 4})
         /\ other => mip' /\ (~Cleared => other')
         /\ ~Cleared /\ ~InternalIrqClear => (mip' => button' \/ other')
<1>1. PICK press, raise \in BOOLEAN :
        Lines(press, raise) /\ com' \in IF press THEN Switches(com) ELSE {com}
  BY DEF Clock
<1>2. com' = com \/ (com \in 2 .. 4 /\ com' \in {0, 2, 3, 4})
  BY <1>1 DEF Switches, DBG_run, DBG_step_in, DBG_step_out
<1>3. /\ mip' = (button \/ press \/ other \/ raise)
      /\ button' = ((button \/ press) /\ ~Cleared /\ ~InternalIrqClear)
      /\ other' = ((other \/ raise) /\ ~Cleared)
  BY <1>1 DEF Lines, Cleared
<1> QED
  BY <1>2, <1>3, Zenon

\* Before T2 nothing but the debugger holds the core.
LEMMA HeldByDebugger ==
  ASSUME Types, Fetched, Clock, T \in {0, 1}
  PROVE  /\ IoOp = "none" /\ ~Wfi /\ ~Break
         /\ DbgStall => T' = T /\ ir' = ir
         /\ ~DbgStall /\ (T = 0 => ~InterruptDetected \/ StepMode) => T' = T + 1
<1>1. IoOp = "none" /\ ~Wfi /\ ~Break /\ ~MdPending
  BY DEF IoOp, Wfi, Break, MdPending, IsMul
<1>2. ~IoStalled
  BY <1>1 DEF IoStalled
<1>3. CASE Held /\ Stalled
  <2>1. DbgStall
    BY <1>1, <1>2, <1>3 DEF Held
  <2> QED
    BY <1>1, <1>3, <2>1 DEF Stalled, cpu
<1>4. CASE Free /\ (Trap \/ Fetch \/ Latch \/ Execute \/ Finish)
  <2>1. ~DbgStall
    BY <1>4 DEF Free
  <2>2. ~Execute /\ ~Finish /\ (Latch => T = 1 /\ T' = 2) /\ (Fetch => T = 0 /\ T' = 1)
    BY <1>4, NextT DEF Execute, Finish, Latch, Fetch
  <2>3. Trap => T = 0 /\ InterruptDetected /\ ~StepMode
    BY DEF Trap
  <2> QED
    BY <1>1, <1>4, <2>1, <2>2, <2>3
<1> QED
  BY <1>3, <1>4, ClockParts

\* The counts of a clock.
Ended == T' = 0 /\ T # 0
LEMMA Recorded ==
  ASSUME Clock
  PROVE  /\ Break \/ Resume => since' = IF Ended THEN 1 ELSE 0
         /\ ~(Break \/ Resume) /\ dbg.pending # 3 /\ since \in {0, 1} =>
              since' = IF Ended THEN since + 1 ELSE since
         /\ dbg'.pending # 0 /\ (dbg.pending # 3 \/ Break \/ Resume) =>
              depth' = (IF Break \/ Resume THEN 0 ELSE depth)
                       + (IF Ended /\ CallInst THEN 1 ELSE IF Ended /\ ReturnInst THEN -1 ELSE 0)
<1>1. Record
  BY DEF Clock
<1>2. \A b \in {0, 1} : ~(b > SinceCap) /\ ~(b + 1 > SinceCap)
  BY DEF SinceCap
<1>3. Flag(TRUE) = 1 /\ Flag(FALSE) = 0
  BY DEF Flag
<1>4. Break \/ Resume => since' = IF Ended THEN 1 ELSE 0
  BY <1>1, <1>2, <1>3 DEF Record, Ended, Flag
<1>5. ~(Break \/ Resume) /\ dbg.pending # 3 /\ since \in {0, 1} =>
        since' = IF Ended THEN since + 1 ELSE since
  BY <1>1, <1>2, <1>3 DEF Record, Ended, Flag
<1>6. dbg'.pending # 0 /\ (dbg.pending # 3 \/ Break \/ Resume) =>
        depth' = (IF Break \/ Resume THEN 0 ELSE depth)
                 + (IF Ended /\ CallInst THEN 1 ELSE IF Ended /\ ReturnInst THEN -1 ELSE 0)
  BY <1>1 DEF Record, Ended
<1> QED
  BY <1>4, <1>5, <1>6

\* Where the debugger goes: from wfi or from a hold by a button, or on its own.
LEMMA AfterBreak ==
  ASSUME Types, Clock, Break
  PROVE  /\ com \in 1 .. 4 /\ T = 2 /\ ~CallInst /\ ~ReturnInst
         /\ dbg'.pending = 1 /\ dbg'.target = 0 /\ dbg'.halt = IF com = 3 THEN 2 ELSE com
<1>1. com \in 1 .. 4 /\ T = 2 /\ Dc.sys = "wfi"
  BY DEF Break, StepMode, Wfi, DBG_step_cycle, DBG_step_out
<1>2. ~CallInst /\ ~ReturnInst
  BY <1>1, SysFacts DEF CallInst, ReturnInst, Is
<1>3. DbgMode = com
  BY <1>1 DEF DbgMode, DBG_step_cycle, DBG_step_out
<1>4. dbg' = [pending |-> 1, target |-> 0, halt |-> IF com = 3 THEN 2 ELSE com]
  BY <1>3, ClockParts DEF DbgNext, DBG_step_over, DBG_step_in
<1> QED
  BY <1>1, <1>2, <1>4

LEMMA AfterResume ==
  ASSUME Types, Clock, Resume
  PROVE  /\ com \notin 1 .. 4 => dbg'.pending = 0
         /\ com \in 1 .. 4 => dbg'.pending = 1
         /\ com = 1 => dbg'.halt = 1
         /\ com \in 2 .. 4 => dbg'.halt \in 2 .. 4 /\ (dbg'.halt = 4 => dbg'.target = 0)
<1> DEFINE mode == IF DbgMode = DBG_step_over /\ ~CallInst THEN DBG_step_in ELSE DbgMode
           at == IF mode = DBG_step_over THEN (pc + 1) % Modulus ELSE 0
<1>1. ~Break /\ button /\ dbg.pending = 3
  BY DEF Resume
<1>2. dbg' = [pending |-> Flag(StepMode), halt |-> mode, target |-> at]
  BY <1>1, ClockParts DEF DbgNext
<1>3. StepMode <=> com \in 1 .. 4
  BY <1>1 DEF StepMode, DBG_step_cycle, DBG_step_out
<1>4. com = 1 => mode = 1
  BY DEF DbgMode, DBG_step_cycle, DBG_step_out, DBG_step_over
<1>5. com \in 2 .. 4 => mode \in 2 .. 4 /\ (mode = 4 => at = 0)
  BY DEF DbgMode, DBG_step_cycle, DBG_step_in, DBG_step_out, DBG_step_over
<1>6. dbg'.pending = Flag(StepMode) /\ dbg'.halt = mode /\ dbg'.target = at
  BY <1>2
<1> HIDE DEF mode, at
<1> QED
  BY <1>3, <1>4, <1>5, <1>6 DEF Flag

LEMMA AfterOther ==
  ASSUME Types, Clock, ~Break, ~Resume
  PROVE  /\ dbg'.halt = dbg.halt
         /\ dbg.pending \in {0, 3} => dbg' = dbg
         /\ dbg.pending = 1 /\ InterruptDetected => dbg' = dbg
         /\ dbg.pending = 1 /\ ~InterruptDetected =>
              dbg'.pending = (IF dbg.halt = 1 THEN 3 ELSE 2) /\ dbg'.target = dbg.target
         /\ dbg.pending = 2 =>
              /\ T = 0 /\ HaltCondition => dbg'.pending = 3 /\ dbg'.target = dbg.target
              /\ ~(T = 0 /\ HaltCondition) => dbg'.pending = 2
              /\ dbg'.halt = 4 /\ dbg'.target = 0 /\ ~(T = 0 /\ HaltCondition) =>
                   \/ dbg.target = 0 /\ ~(T = 2 /\ CallInst)
                   \/ dbg.target = 0 /\ T = 2 /\ CallInst /\ pc = 0
                   \/ dbg.target # 0 /\ T = 0 /\ dbg.target = pc
<1>1. dbg' = DbgNext /\ dbg \in [pending : 0 .. 3, halt : 0 .. 4, target : Word]
  BY ClockParts DEF Types
<1>2. dbg.pending \in {0, 3} => dbg' = dbg
  BY <1>1 DEF DbgNext
<1>3. dbg.pending = 1 /\ InterruptDetected => dbg' = dbg
  BY <1>1 DEF DbgNext
<1>4. dbg.pending = 1 /\ ~InterruptDetected =>
        dbg' = [dbg EXCEPT !.pending = IF dbg.halt = 1 THEN 3 ELSE 2]
  BY <1>1 DEF DbgNext, DBG_step_cycle
<1>5. dbg.pending = 2 /\ T = 0 /\ HaltCondition => dbg' = [dbg EXCEPT !.pending = 3]
  BY <1>1 DEF DbgNext
<1>6. dbg.pending = 2 /\ ~(T = 0 /\ HaltCondition) =>
        \/ T = 0 /\ dbg.halt = 4 /\ dbg.target = pc /\ dbg' = [dbg EXCEPT !.target = 0]
        \/ /\ T = 2 /\ dbg.halt = 4 /\ dbg.target = 0 /\ CallInst
           /\ dbg' = [dbg EXCEPT !.target = pc]
        \/ /\ dbg' = dbg /\ ~(T = 0 /\ dbg.halt = 4 /\ dbg.target = pc)
           /\ ~(T = 2 /\ dbg.halt = 4 /\ dbg.target = 0 /\ CallInst)
  BY <1>1 DEF DbgNext, DBG_step_out
<1> QED
  BY <1>1, <1>2, <1>3, <1>4, <1>5, <1>6

\* An interrupt that lets a held core go on is still pending when the instruction under
\* way is not over, and when it is a call or a return: only a store clears it, and only
\* mret changes what is enabled.
LEMMA StaysPending ==
  ASSUME Types, Fetched, Clock, OtherInterrupt, dbg.pending = 3, T \in {2, 3}
  PROVE  T' # 0 \/ CallInst \/ ReturnInst => OtherInterrupt'
<1>1. /\ mip' /\ (~Cleared => other')
      /\ InterruptDetected /\ Advances /\ ~DbgStall
  BY LinesAfter DEF OtherInterrupt, InterruptDetected, interrupt_detected, Advances,
                    DbgStall, StepWaitIrqClear
<1>2. CASE Held /\ Stalled
  <2>1. csr' = csr
    BY <1>2 DEF Stalled
  <2>2. IoStalled \/ MdPending
    BY <1>1, <1>2 DEF Held
  <2>3. ~Cleared
    BY <2>2 DEF IoStalled, MdPending, IsMul, Is, IoOp, Cleared
  <2> QED
    BY <1>1, <2>1, <2>3 DEF OtherInterrupt
<1>3. CASE Free /\ Execute /\ T' # 0
  <2>1. Is({"LD", "BR"})
    BY <1>1, <1>3, NextT
  <2>2. ~Cleared /\ Dc.sys = "none" /\ ~CsrWrites /\ ~InstCompleted
    BY <1>3, <2>1, SysFacts DEF Is, IoOp, Cleared, CsrWrites, IsCsr, InstCompleted, Execute
  <2>3. csr' = csr
    BY <1>3, <2>2 DEF Execute, Counted
  <2> QED
    BY <1>1, <2>2, <2>3 DEF OtherInterrupt
<1>4. CASE Free /\ Execute /\ (CallInst \/ ReturnInst)
  <2>1. Is({"JAL", "JALR"})
    BY <1>4 DEF CallInst, ReturnInst, Is
  <2>2. ~Cleared /\ Dc.sys = "none" /\ ~CsrWrites
    BY <2>1, SysFacts DEF Is, IoOp, Cleared, CsrWrites, IsCsr
  <2>3. csr' = csr \/ csr' = update_counter(csr)
    BY <1>4, <2>2 DEF Execute, Counted
  <2>4. csr'.mie = csr.mie
    BY <2>3 DEF update_counter, Types, CSR
  <2> QED
    BY <1>1, <2>2, <2>4 DEF OtherInterrupt
<1>5. CASE Free /\ Finish
  <2>1. T' = 0 /\ Is({"LD", "BR"})
    BY <1>5, NextT
  <2> QED
    BY <2>1 DEF CallInst, ReturnInst, Is
<1> QED
  BY <1>2, <1>3, <1>4, <1>5, ClockParts DEF Trap, Fetch, Latch

\* step_in, clock by clock.
LEMMA SteppingInStep ==
  ASSUME Types, Fetched, SteppingIn, [Clock]_vars
  PROVE  SteppingIn'
<1>1. CASE UNCHANGED vars
  BY <1>1 DEF vars, SteppingIn
<1>2. CASE Clock
  <2>1. com' = com \/ (com \in 2 .. 4 /\ com' \in {0, 2, 3, 4})
    BY <1>2, LinesAfter
  <2>2. dbg \in [pending : 0 .. 3, halt : 0 .. 4, target : Word] /\ com \in Nat /\ T \in 0 .. 3
    BY DEF Types
  <2>3. com' = 1 => dbg'.pending = 0 \/ dbg'.halt = 1
    <3>1. CASE Break
      BY <1>2, <2>1, <3>1, AfterBreak
    <3>2. CASE Resume
      BY <1>2, <2>1, <3>2, AfterResume
    <3>3. CASE ~Break /\ ~Resume
      BY <1>2, <2>1, <3>3, AfterOther DEF SteppingIn
    <3> QED
      BY <3>1, <3>2, <3>3
  <2>4. com' \notin 0 .. 4 => dbg'.pending = 0
    <3>1. CASE Break
      BY <1>2, <2>1, <3>1, AfterBreak
    <3>2. CASE Resume
      BY <1>2, <2>1, <3>2, AfterResume
    <3>3. CASE ~Break /\ ~Resume
      BY <1>2, <2>1, <3>3, AfterOther DEF SteppingIn
    <3> QED
      BY <3>1, <3>2, <3>3
  <2>5. ASSUME com' \in 2 .. 4
        PROVE  /\ dbg'.pending # 0 => dbg'.halt \in 2 .. 4
               /\ dbg'.pending \in {1, 2} /\ dbg'.halt = 2 => since' = IF T' = 0 THEN 1 ELSE 0
    <3>1. com \in 2 .. 4
      BY <2>1, <2>5
    <3>2. /\ dbg.pending # 0 => dbg.halt \in 2 .. 4
          /\ dbg.pending \in {1, 2} /\ dbg.halt = 2 => since = IF T = 0 THEN 1 ELSE 0
      BY <3>1 DEF SteppingIn
    <3>3. CASE Break
      <4>1. dbg'.pending = 1 /\ dbg'.halt \in {2, 4} /\ T = 2
        BY <1>2, <3>1, <3>3, AfterBreak
      <4>2. since' = IF T' = 0 THEN 1 ELSE 0
        BY <1>2, <3>3, <4>1, Recorded DEF Ended
      <4> QED
        BY <4>1, <4>2
    <3>4. CASE Resume
      <4>1. dbg'.pending = 1 /\ dbg'.halt \in 2 .. 4
        BY <1>2, <3>1, <3>4, AfterResume
      <4>2. InterruptDetected /\ StepMode
        BY <3>1, <3>4 DEF Resume, StepMode, DBG_step_cycle, DBG_step_out
      <4>3. ~DbgStall
        BY <3>4, <4>2 DEF DbgStall, StepWaitIrqClear, Resume
      <4>4. T = 0 => T' = 1
        BY <1>2, <4>2, <4>3, HeldByDebugger
      <4>5. since' = IF T' = 0 THEN 1 ELSE 0
        BY <1>2, <2>2, <3>4, <4>4, Recorded DEF Ended
      <4> QED
        BY <4>1, <4>5
    <3>5. CASE ~Break /\ ~Resume
      <4>1. dbg.pending # 3 /\ since \in {0, 1} => since' = IF Ended THEN since + 1 ELSE since
        BY <1>2, <3>5, Recorded
      <4>2. dbg'.halt = dbg.halt
        BY <1>2, <3>5, AfterOther
      <4>3. CASE dbg.pending \in {0, 3}
        BY <1>2, <3>2, <3>5, <4>2, <4>3, AfterOther
      <4>4. CASE dbg.pending = 1
        <5>1. DbgStall
          BY <3>5, <4>4 DEF DbgStall, StepWaitIrqClear
        <5>2. T' = T
          BY <1>2, <5>1, ClockParts DEF Free, Held, Stalled
        <5>3. dbg.halt = 2 => since' = IF T' = 0 THEN 1 ELSE 0
          BY <3>2, <4>1, <4>4, <5>2 DEF Ended
        <5> QED
          BY <3>2, <4>2, <4>4, <5>3
      <4>5. CASE dbg.pending = 2 /\ T = 0 /\ HaltCondition
        BY <1>2, <3>2, <3>5, <4>2, <4>5, AfterOther
      <4>6. CASE dbg.pending = 2 /\ ~(T = 0 /\ HaltCondition)
        <5>1. dbg.halt = 2 => T # 0
          BY <4>6 DEF HaltCondition, DBG_step_in
        <5>2. dbg.halt = 2 => since' = IF T' = 0 THEN 1 ELSE 0
          BY <3>2, <4>1, <4>6, <5>1 DEF Ended
        <5> QED
          BY <3>2, <4>2, <4>6, <5>2
      <4> QED
        BY <2>2, <4>3, <4>4, <4>5, <4>6
    <3> QED
      BY <3>3, <3>4, <3>5
  <2> QED
    BY <2>3, <2>4, <2>5 DEF SteppingIn
<1> QED
  BY <1>1, <1>2

\* A held core that goes on, clock by clock.
LEMMA SlippingStep ==
  ASSUME Types, Fetched, SteppingIn, Slipping, [Clock]_vars
  PROVE  Slipping'
<1>1. CASE UNCHANGED vars
  BY <1>1 DEF vars, cpu, Slipping, OtherInterrupt
<1>2. CASE Clock
  <2> SUFFICES ASSUME com' \in 2 .. 4, dbg'.pending = 3
               PROVE  /\ T' = 1 => (mip' => button' \/ other')
                      /\ T' \in {2, 3} => OtherInterrupt'
    BY DEF Slipping, OtherInterrupt
  <2>1. com \in 2 .. 4
    BY <1>2, LinesAfter
  <2>2. ~Break /\ ~Resume
    BY <1>2, <2>1, AfterBreak, AfterResume
  <2>3. dbg \in [pending : 0 .. 3, halt : 0 .. 4, target : Word] /\ T \in 0 .. 3
    BY DEF Types
  <2>4. dbg.pending = 3 \/ (dbg.pending = 2 /\ T = 0 /\ HaltCondition)
    <3>1. dbg.pending = 1 => dbg.halt # 1
      BY <2>1 DEF SteppingIn
    <3> QED
      BY <1>2, <2>2, <2>3, <3>1, AfterOther
  <2>5. T \in {0, 1} => IoOp = "none" /\ ~Cleared /\ ~InternalIrqClear
    BY <1>2, <2>4, HeldByDebugger DEF Cleared, InternalIrqClear
  <2>6. T \in {0, 1} => (mip' => button' \/ other')
    BY <1>2, <2>5, LinesAfter
  <2>7. T = 0 => T' \in {0, 1}
    <3>1. StepMode
      BY <2>1, <2>4 DEF StepMode, DBG_step_cycle, DBG_step_out
    <3> QED
      BY <1>2, <3>1, HeldByDebugger
  <2>8. CASE T = 0
    BY <2>6, <2>7, <2>8
  <2>9. CASE T = 1
    <3>1. dbg.pending = 3 /\ (mip => button \/ other)
      BY <2>1, <2>4, <2>9 DEF Slipping
    <3>2. CASE DbgStall
      <4>1. T' = 1
        BY <1>2, <2>9, <3>2, HeldByDebugger
      <4> QED
        BY <2>6, <2>9, <4>1
    <3>3. CASE ~DbgStall
      <4>1. InterruptDetected
        BY <2>2, <3>1, <3>3 DEF DbgStall, StepWfi
      <4>2. ~button
        BY <2>2, <3>1, <4>1 DEF Resume
      <4>3. other /\ mip /\ csr.mie
        BY <3>1, <4>1, <4>2 DEF InterruptDetected, interrupt_detected
      <4>4. other' /\ mip'
        BY <1>2, <2>5, <2>9, <4>3, LinesAfter
      <4>5. T' = 2 /\ csr' = csr
        <5>1. Free /\ Latch
          <6>1. ~Held
            BY <1>2, <2>9, <3>3, HeldByDebugger DEF Held, IoStalled, MdPending, IsMul
          <6> QED
            BY <1>2, <2>9, <6>1, ClockParts DEF Trap, Fetch, Execute, Finish
        <5> QED
          BY <5>1, NextT DEF Latch
      <4> QED
        BY <4>3, <4>4, <4>5 DEF OtherInterrupt
    <3> QED
      BY <3>2, <3>3
  <2>10. CASE T \in {2, 3}
    <3>1. dbg.pending = 3 /\ OtherInterrupt
      BY <2>1, <2>4, <2>10 DEF Slipping
    <3>2. T' # 0 => OtherInterrupt'
      BY <1>2, <2>10, <3>1, StaysPending
    <3>3. T' # 1
      <4>1. CASE Held /\ Stalled
        BY <2>10, <4>1 DEF Stalled
      <4>2. CASE Free /\ (Execute \/ Finish)
        BY <4>2, NextT
      <4> QED
        BY <1>2, <2>10, <4>1, <4>2, ClockParts DEF Trap, Fetch, Latch
    <3> QED
      BY <3>2, <3>3
  <2> QED
    BY <2>3, <2>8, <2>9, <2>10
<1> QED
  BY <1>1, <1>2

\* step_out, clock by clock, of programs whose calls return.
LEMMA SteppingOutStep ==
  ASSUME Types, Fetched, SteppingIn, Slipping, SteppingOut, CallsReturn, [Clock]_vars
  PROVE  SteppingOut'
<1>1. CASE UNCHANGED vars
  BY <1>1 DEF vars, cpu, SteppingOut, ReturnInst, Is, Dc, OtherInterrupt
<1>2. CASE Clock
  <2> SUFFICES ASSUME com' \in 2 .. 4, dbg'.halt = 4
               PROVE  /\ dbg'.pending = 1 => /\ dbg'.target = 0
                                             /\ \/ depth' = 0 /\ (T' = 0 => ~ReturnInst')
                                                \/ T' = 0 /\ OtherInterrupt'
                      /\ dbg'.pending = 2 /\ dbg'.target = 0 =>
                           depth' = IF T' = 0 /\ ReturnInst' THEN -1 ELSE 0
    BY DEF SteppingOut, OtherInterrupt
  <2>1. com \in 2 .. 4
    BY <1>2, LinesAfter
  <2>2. dbg \in [pending : 0 .. 3, halt : 0 .. 4, target : Word] /\ T \in 0 .. 3
    BY DEF Types
  <2>3. ir' = ir => (ReturnInst' <=> ReturnInst)
    BY DEF ReturnInst, Is, Dc
  <2>4. /\ T \in {2, 3} => ir' = ir
        /\ Ended => T \in {2, 3} /\ ir' = ir
    BY <1>2, TAfter DEF Ended
  <2>5. dbg'.pending # 0 /\ (dbg.pending # 3 \/ Break \/ Resume) =>
          depth' = (IF Break \/ Resume THEN 0 ELSE depth)
                   + (IF Ended /\ CallInst THEN 1 ELSE IF Ended /\ ReturnInst THEN -1 ELSE 0)
    BY <1>2, Recorded
  <2>6. CASE Break
    <3>1. T = 2 /\ ~CallInst /\ ~ReturnInst /\ dbg'.pending = 1 /\ dbg'.target = 0
      BY <1>2, <2>6, AfterBreak
    <3>2. depth' = 0
      BY <2>5, <2>6, <3>1
    <3>3. ~ReturnInst'
      BY <2>3, <2>4, <3>1
    <3> QED
      BY <3>1, <3>2, <3>3
  <2>7. CASE Resume
    <3>1. dbg'.pending = 1 /\ dbg'.target = 0
      BY <1>2, <2>1, <2>7, AfterResume
    <3>2. InterruptDetected /\ StepMode /\ dbg.pending = 3
      BY <2>1, <2>7 DEF Resume, StepMode, DBG_step_cycle, DBG_step_out
    <3>3. ~DbgStall
      BY <2>7, <3>2 DEF DbgStall, StepWaitIrqClear, Resume
    <3>4. T \in {0, 1} => T' # 0
      BY <1>2, <2>2, <3>2, <3>3, HeldByDebugger
    <3>5. CASE Ended /\ (CallInst \/ ReturnInst)
      <4>1. T \in {2, 3} /\ T' = 0
        BY <2>4, <3>5 DEF Ended
      <4>2. OtherInterrupt
        BY <2>1, <3>2, <4>1 DEF Slipping
      <4>3. OtherInterrupt'
        BY <1>2, <3>2, <3>5, <4>1, <4>2, StaysPending
      <4> QED
        BY <3>1, <4>1, <4>3
    <3>6. CASE ~(Ended /\ (CallInst \/ ReturnInst))
      <4>1. depth' = 0
        BY <2>5, <2>7, <3>1, <3>6
      <4>2. T' = 0 => Ended
        BY <2>2, <3>4 DEF Ended
      <4>3. T' = 0 => ~ReturnInst'
        BY <2>3, <2>4, <3>6, <4>2
      <4> QED
        BY <3>1, <4>1, <4>3
    <3> QED
      BY <3>5, <3>6
  <2>8. CASE ~Break /\ ~Resume
    <3>1. dbg.halt = 4
      BY <1>2, <2>8, AfterOther
    <3>2. /\ dbg.pending = 1 => /\ dbg.target = 0
                                /\ \/ depth = 0 /\ (T = 0 => ~ReturnInst)
                                   \/ T = 0 /\ OtherInterrupt
          /\ dbg.pending = 2 /\ dbg.target = 0 => depth = IF T = 0 /\ ReturnInst THEN -1 ELSE 0
      BY <2>1, <3>1 DEF SteppingOut
    <3>3. CASE dbg.pending \in {0, 3}
      BY <1>2, <2>8, <3>3, AfterOther
    <3>4. CASE dbg.pending = 1
      <4>1. DbgStall
        BY <2>8, <3>4 DEF DbgStall, StepWaitIrqClear
      <4>2. T' = T /\ ir' = ir /\ ~Ended /\ csr' = csr
        BY <1>2, <4>1, ClockParts DEF Free, Held, Stalled, cpu, Ended
      <4>3. dbg'.pending \in {1, 2} /\ dbg'.target = 0
        BY <1>2, <2>8, <3>1, <3>2, <3>4, AfterOther
      <4>4. depth = 0 => depth' = 0
        BY <2>5, <2>8, <3>4, <4>2, <4>3
      <4>5. CASE depth = 0 /\ (T = 0 => ~ReturnInst)
        BY <2>3, <3>4, <4>2, <4>3, <4>4, <4>5
      <4>6. CASE T = 0 /\ OtherInterrupt
        <5>1. InterruptDetected
          BY <4>6 DEF OtherInterrupt, InterruptDetected, interrupt_detected
        <5>2. dbg' = dbg
          BY <1>2, <2>8, <3>4, <5>1, AfterOther
        <5>3. ~Cleared
          BY <4>6 DEF Cleared, IoOp
        <5>4. OtherInterrupt'
          BY <1>2, <4>2, <4>6, <5>3, LinesAfter DEF OtherInterrupt
        <5> QED
          BY <3>4, <4>2, <4>3, <4>6, <5>2, <5>4
      <4> QED
        BY <3>2, <3>4, <4>5, <4>6
    <3>5. CASE dbg.pending = 2 /\ T = 0 /\ HaltCondition
      BY <1>2, <2>8, <3>5, AfterOther
    <3>6. CASE dbg.pending = 2 /\ ~(T = 0 /\ HaltCondition)
      <4>1. dbg'.pending = 2
        BY <1>2, <2>8, <3>6, AfterOther
      <4>2. SUFFICES ASSUME dbg'.target = 0
                     PROVE  depth' = IF T' = 0 /\ ReturnInst' THEN -1 ELSE 0
        BY <4>1
      <4>3. ~(T = 2 /\ CallInst /\ pc = 0)
        BY <3>1, <3>6 DEF CallsReturn, DBG_step_out
      <4>4. \/ dbg.target = 0 /\ ~(T = 2 /\ CallInst)
            \/ dbg.target # 0 /\ T = 0 /\ dbg.target = pc
        BY <1>2, <2>8, <3>6, <4>2, <4>3, AfterOther
      <4>5. ~(Ended /\ CallInst)
        <5>1. T = 3 => Is({"LD", "BR"})
          BY DEF Fetched, Is, Dc, decode
        <5>2. Is({"LD", "BR"}) => ~CallInst
          BY DEF Is, CallInst
        <5> QED
          BY <2>4, <4>4, <5>1, <5>2
      <4>6. depth = 0
        <5>1. CASE dbg.target = 0
          <6>1. ~(T = 0 /\ ReturnInst)
            BY <3>1, <3>6, <5>1 DEF HaltCondition, DBG_step_out
          <6> QED
            BY <3>2, <3>6, <5>1, <6>1
        <5>2. CASE dbg.target # 0
          BY <3>1, <3>6, <4>4, <5>2 DEF CallsReturn, DBG_step_out
        <5> QED
          BY <5>1, <5>2
      <4>7. depth' = IF Ended /\ ReturnInst THEN -1 ELSE 0
        BY <2>5, <2>8, <3>6, <4>1, <4>5, <4>6
      <4>8. T = 0 => T' # 0
        <5>1. StepMode
          BY <2>1, <3>6 DEF StepMode, DBG_step_cycle, DBG_step_out
        <5>2. T = 0 => ~DbgStall
          BY <3>6 DEF DbgStall, StepWaitIrqClear, StepWfi
        <5> QED
          BY <1>2, <5>1, <5>2, HeldByDebugger
      <4>9. T' = 0 => Ended
        BY <4>8 DEF Ended
      <4>10. Ended => T' = 0 /\ (ReturnInst' <=> ReturnInst)
        BY <2>3, <2>4 DEF Ended
      <4> QED
        BY <4>7, <4>9, <4>10
    <3> QED
      BY <2>2, <3>3, <3>4, <3>5, <3>6
  <2> QED
    BY <2>6, <2>7, <2>8
<1> QED
  BY <1>1, <1>2

LEMMA SteppingInit ==
  ASSUME Init
  PROVE  SteppingIn /\ Slipping /\ SteppingOut
  BY DEF Init, InitCore, SteppingIn, Slipping, SteppingOut

\* step_in: whatever the program, wherever the button is pressed and other interrupts
\* come, the debugger stops the core after one instruction.
StepsInByOne == Stops /\ com # DBG_run /\ dbg.halt = DBG_step_in => since = 1

LEMMA Commands ==
  ASSUME Types, SteppingIn, dbg.pending = 2, com # DBG_run,
         dbg.halt \in {DBG_step_in, DBG_step_out}
  PROVE  com \in 2 .. 4
  BY DEF Types, SteppingIn, DBG_run, DBG_step_in, DBG_step_out

THEOREM StepInCorrect == Spec => []StepsInByOne
<1>1. Init => Inv /\ SteppingIn
  BY InitHolds, SteppingInit DEF Inv
<1>2. Inv /\ SteppingIn /\ [Clock]_vars => (Inv /\ SteppingIn)'
  BY InvStep, SteppingInStep DEF Inv
<1>3. Inv /\ SteppingIn => StepsInByOne
  BY Commands DEF Inv, SteppingIn, StepsInByOne, Stops, DBG_step_in
<1> QED
  BY <1>1, <1>2, <1>3, PTL DEF Spec

\* StepsExactly: step_in stops after one instruction, and step_out after the return of the
\* function in which the button was pressed, wherever interrupts come, of every program
\* whose calls return.
THEOREM StepsCorrect == Spec /\ []CallsReturn => []StepsExactly
<1> DEFINE I == Inv /\ SteppingIn /\ Slipping /\ SteppingOut
<1>1. Init => I
  BY InitHolds, SteppingInit DEF Inv
<1>2. I /\ CallsReturn /\ [Clock]_vars => I'
  BY InvStep, SteppingInStep, SlippingStep, SteppingOutStep DEF Inv
<1>3. I => StepsExactly
  <2> SUFFICES ASSUME I, Stops, com # DBG_run
               PROVE  /\ dbg.halt = DBG_step_in => since = 1
                      /\ dbg.halt = DBG_step_out => depth = -1
    BY DEF StepsExactly
  <2>1. dbg.halt = DBG_step_in => since = 1
    BY Commands DEF Inv, SteppingIn, Stops, DBG_step_in
  <2>2. dbg.halt = DBG_step_out => depth = -1
    BY Commands DEF Inv, SteppingOut, Stops, HaltCondition, DBG_step_in, DBG_step_over, DBG_step_out
  <2> QED
    BY <2>1, <2>2
<1> QED
  BY <1>1, <1>2, <1>3, PTL DEF Spec
=============================================================================
