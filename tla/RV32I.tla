------------------------------- MODULE RV32I -------------------------------
(***************************************************************************)
(* What the two cores share (struct RV32I of rv32.h): the arithmetic,      *)
(* compute of the simulator and ALUcompute with its shifters of ARCH1, the *)
(* formats of loads and stores, the decoder, and the CSR operations.  A    *)
(* word has Width = 2^LogWidth bits and four bytes; the code's 32 bits are *)
(* LogWidth = 5.  Code addresses are instruction numbers.                  *)
(***************************************************************************)
EXTENDS Integers, FiniteSets, FiniteSetsExt

CONSTANTS
  LogWidth,    \* the width of a word is 2^LogWidth bits
  MemWords     \* MEM_SIZE: words of data memory; further addresses are devices
ASSUME WidthAssumption == LogWidth \in Nat /\ LogWidth >= 2 /\ MemWords \in Nat \ {0}

Width == 2 ^ LogWidth
Modulus == 2 ^ Width
Word == 0 .. Modulus - 1
Byte == Width \div 4

\* A word as the set of its one bits, and back.
Bits(x) == {i \in 0 .. Width - 1 : (x \div 2 ^ i) % 2 = 1}
Num(S) == MapThenSumSet(LAMBDA i : 2 ^ i, S)
Sign(x) == x \div 2 ^ (Width - 1)
Flag(b) == IF b THEN 1 ELSE 0

\* CodeEnum: opcodes, loads, stores and system instructions.
Opcodes == {"COMP", "COMPI", "LUI", "AUIPC", "LD", "ST", "JAL", "JALR", "BR", "SYS"}
LoadTypes == {"lb", "lbu", "lh", "lhu", "lw"}
StoreTypes == {"sb", "sh", "sw"}
SystemOps == {"csrrw", "csrrs", "csrrc", "csrrwi", "csrrsi", "csrrci", "mret", "wfi"}

\* CodeEnum: one bit per operation; the codes of mul to remu are those of xor
\* to geu.
O == [add |-> 2 ^ 13, sub |-> 2 ^ 12, lt  |-> 2 ^ 11, ltu |-> 2 ^ 10,
      and |-> 2 ^ 9,  or  |-> 2 ^ 8,  xor |-> 2 ^ 7,  sll |-> 2 ^ 6,
      srl |-> 2 ^ 5,  sra |-> 2 ^ 4,  eq  |-> 2 ^ 3,  ne  |-> 2 ^ 2,
      ge  |-> 2,      geu |-> 1]
M == [mul |-> 2 ^ 7, mulh |-> 2 ^ 6, mulhsu |-> 2 ^ 5, mulhu |-> 2 ^ 4,
      div |-> 2 ^ 3, divu |-> 2 ^ 2, rem |-> 2, remu |-> 1]

-----------------------------------------------------------------------------
(* The simulator's operations *)

ShiftRight(x, n, fill) ==
  Num({i - n : i \in {j \in Bits(x) : j >= n}}
      \cup IF fill THEN Width - n .. Width - 1 ELSE {})
ShiftLeft(x, n) == Num({i + n : i \in {j \in Bits(x) : j + n < Width}})

compute(in0, in1, op) ==
  LET sft == in1 % Width
      ult == in0 < in1
      slt == (ult # (Sign(in0) = 1)) # (Sign(in1) = 1)
  IN  CASE op = O.add -> (in0 + in1) % Modulus
        [] op = O.sub -> (in0 - in1) % Modulus
        [] op = O.and -> Num(Bits(in0) \cap Bits(in1))
        [] op = O.or  -> Num(Bits(in0) \cup Bits(in1))
        [] op = O.xor -> Num((Bits(in0) \cup Bits(in1)) \ (Bits(in0) \cap Bits(in1)))
        [] op = O.sll -> ShiftLeft(in0, sft)
        [] op = O.srl -> ShiftRight(in0, sft, FALSE)
        [] op = O.sra -> ShiftRight(in0, sft, Sign(in0) = 1)
        [] op = O.lt  -> Flag(slt)
        [] op = O.ltu -> Flag(ult)
        [] op = O.ge  -> Flag(~slt)
        [] op = O.geu -> Flag(~ult)
        [] op = O.eq  -> Flag(in0 = in1)
        [] op = O.ne  -> Flag(in0 # in1)
        [] OTHER      -> 0

-----------------------------------------------------------------------------
(* ARCH1's: one adder, barrel shifters of one stage per bit of the amount *)

\* OP_TYPE::set: the operation bits raised by an opID.
OpBits(opID) == {n \in DOMAIN O : (opID \div O[n]) % 2 = 1}

sll(x, y) ==
  LET stage[k \in 0 .. LogWidth] ==
        IF k = 0 THEN x
        ELSE IF k - 1 \in Bits(y) THEN ShiftLeft(stage[k - 1], 2 ^ (k - 1))
        ELSE stage[k - 1]
  IN  stage[LogWidth]

\* srx: t is the sign, widened by each stage.
srx(x, y, sra) ==
  LET fill == sra /\ Sign(x) = 1
      stage[k \in 0 .. LogWidth] ==
        IF k = 0 THEN x
        ELSE IF k - 1 \in Bits(y) THEN ShiftRight(stage[k - 1], 2 ^ (k - 1), fill)
        ELSE stage[k - 1]
  IN  stage[LogWidth]

\* The comparisons come from the carry of x + ~y + 1.
ALUcompute(x, y, op) ==
  LET sub  == op \cap {"sub", "ltu", "geu", "lt", "ge"} # {}
      sum  == x + (IF sub THEN Modulus - 1 - y ELSE y) + Flag(sub)
      c31  == sum >= Modulus
      exor == Num((Bits(x) \cup Bits(y)) \ (Bits(x) \cap Bits(y)))
      ge   == (c31 # (Sign(x) = 1)) # (Sign(y) = 1)
      holds == [ltu |-> ~c31, geu |-> c31, lt |-> ~ge, ge |-> ge,
                eq |-> exor = 0, ne |-> exor # 0]
  IN  CASE op \cap {"add", "sub"} # {} -> sum % Modulus
        [] "and" \in op -> Num(Bits(x) \cap Bits(y))
        [] "or"  \in op -> Num(Bits(x) \cup Bits(y))
        [] "xor" \in op -> exor
        [] "sll" \in op -> sll(x, y % Width)
        [] op \cap {"srl", "sra"} # {} -> srx(x, y % Width, "sra" \in op)
        [] OTHER -> Flag(\E n \in op \cap DOMAIN holds : holds[n])

-----------------------------------------------------------------------------
(* Loads and stores of bytes, halves and words *)

BytePos(addr) == addr % 4
ld_size(t) == IF t \in {"lb", "lbu"} THEN 1 ELSE IF t \in {"lh", "lhu"} THEN 2 ELSE 4
st_size(t) == CASE t = "sb" -> 1 [] t = "sh" -> 2 [] OTHER -> 4

\* formatRead: the word's bytes from bytePos on, cut and extended; a misaligned
\* half or word is an error of the program.
formatRead(bytePos, ld_type, dout) ==
  LET w == ld_size(ld_type) * Byte
      x == ShiftRight(dout, bytePos * Byte, FALSE) % 2 ^ w
  IN  IF ld_type \in {"lb", "lh"} /\ w - 1 \in Bits(x) THEN x + Modulus - 2 ^ w ELSE x

\* formatWrite: the word moved to its byte position, and the bytes enabled.
formatWrite(bytePos, st_type, din) ==
  [din |-> ShiftLeft(din, bytePos * Byte),
   byte_enable |-> bytePos .. bytePos + st_size(st_type) - 1]

Aligned(addr, size) == addr % size = 0

storeMemByteEnable(old, din, byte_enable) ==
  LET on == {i \in 0 .. Width - 1 : i \div Byte \in byte_enable}
  IN  Num((Bits(old) \ on) \cup (Bits(din) \cap on))

-----------------------------------------------------------------------------
(* The decoder: from funct3 and funct7 to opID *)

validateComp(f3, f7, isCOMPI) ==
  CASE f3 = 0 -> isCOMPI \/ f7 \in {0, 32}
    [] f3 = 5 -> f7 \in {0, 32}
    [] f3 = 1 -> f7 = 0
    [] OTHER  -> isCOMPI \/ f7 = 0

decComp(f3, f7, isCOMPI) ==
  IF ~validateComp(f3, f7, isCOMPI) THEN 0
  ELSE CASE f3 = 0 -> IF isCOMPI \/ f7 = 0 THEN O.add ELSE O.sub
         [] f3 = 2 -> O.lt  [] f3 = 3 -> O.ltu [] f3 = 7 -> O.and
         [] f3 = 6 -> O.or  [] f3 = 4 -> O.xor [] f3 = 1 -> O.sll
         [] OTHER  -> IF f7 = 0 THEN O.srl ELSE O.sra

decMD(f3) == <<M.mul, M.mulh, M.mulhsu, M.mulhu, M.div, M.divu, M.rem, M.remu>>[f3 + 1]

decBranch(f3) ==
  CASE f3 = 0 -> O.eq  [] f3 = 1 -> O.ne  [] f3 = 4 -> O.lt
    [] f3 = 5 -> O.ge  [] f3 = 6 -> O.ltu [] f3 = 7 -> O.geu
    [] OTHER -> 0

decLD(f3) ==
  CASE f3 = 0 -> "lb" [] f3 = 4 -> "lbu" [] f3 = 1 -> "lh" [] f3 = 5 -> "lhu"
    [] f3 = 2 -> "lw" [] OTHER -> "none"
decST(f3) == CASE f3 = 0 -> "sb" [] f3 = 1 -> "sh" [] f3 = 2 -> "sw" [] OTHER -> "none"

\* imm12 is the name of a CSR, or of the instruction when funct3 is 0.
decSYS(imm12, f3) ==
  CASE f3 = 1 -> "csrrw"  [] f3 = 2 -> "csrrs"  [] f3 = 3 -> "csrrc"
    [] f3 = 5 -> "csrrwi" [] f3 = 6 -> "csrrsi" [] f3 = 7 -> "csrrci"
    [] f3 = 0 /\ imm12 \in {"mret", "wfi"} -> imm12
    [] OTHER -> "none"

\* decode: the registers an opcode uses, and its operation.
decode(ir) ==
  LET isMD == ir.opcode = "COMP" /\ ir.f7 = 1
  IN  [opcode |-> ir.opcode, isMD |-> isMD, imm |-> ir.imm, imm12 |-> ir.imm12,
       rd  |-> IF ir.opcode \in {"ST", "BR"} THEN 0 ELSE ir.rd,
       rs1 |-> IF ir.opcode \in {"LUI", "AUIPC", "JAL"} THEN 0 ELSE ir.rs1,
       rs2 |-> IF ir.opcode \in {"COMP", "ST", "BR"} THEN ir.rs2 ELSE 0,
       opID |-> CASE isMD -> decMD(ir.f3)
                  [] ir.opcode = "COMP" /\ ~isMD -> decComp(ir.f3, ir.f7, FALSE)
                  [] ir.opcode = "COMPI" -> decComp(ir.f3, ir.f7, TRUE)
                  [] ir.opcode = "BR"    -> decBranch(ir.f3)
                  [] OTHER -> 0,
       size |-> CASE ir.opcode = "LD" -> decLD(ir.f3)
                  [] ir.opcode = "ST" -> decST(ir.f3)
                  [] OTHER -> "none",
       sys  |-> IF ir.opcode = "SYS" THEN decSYS(ir.imm12, ir.f3) ELSE "none"]

-----------------------------------------------------------------------------
(* Memory and devices *)

MEM_ADDR_OUT_OF_BOUNDS(addr) == addr \div 4 >= MemWords
InMem(addr) == addr \div 4

\* One access of a device: what it was and the word written or read.
Device(kind, addr, size, word) ==
  [op |-> kind, addr |-> addr, size |-> size, word |-> word]

-----------------------------------------------------------------------------
(* Control registers; mstatus, mie and mip in full are in module Csr *)

CSR == [mie : BOOLEAN, mpie : BOOLEAN, mepc : Word, mscratch : Word, minstret : Word]
ResetCsr == [mie |-> TRUE, mpie |-> FALSE, mepc |-> 0, mscratch |-> 0, minstret |-> 0]

interrupt_detected(c, pending) == pending /\ c.mie

do_trap(c, at) == [c EXCEPT !.mie = FALSE, !.mpie = c.mie, !.mepc = at]
do_mret(c) == [c EXCEPT !.mie = c.mpie, !.mpie = TRUE]
\* Mutation of update_counter: the counter does not wrap.
update_counterWide(c) == [c EXCEPT !.minstret = @ + 1]
update_counter(c) == [c EXCEPT !.minstret = (@ + 1) % Modulus]

\* do_csrrx: the value read, and the value written if one is.
CsrSource(d, rs1) == IF d.sys \in {"csrrwi", "csrrsi", "csrrci"} THEN d.rs1 ELSE rs1
CsrSkipsWrite(d, src) == d.sys \notin {"csrrw", "csrrwi"} /\ src = 0
CsrRead(d, c) == IF d.sys \in {"csrrw", "csrrwi"} /\ d.rd = 0 THEN 0 ELSE c[d.imm12]
CsrModified(d, old, src) ==
  CASE d.sys \in {"csrrw", "csrrwi"} -> src
    [] d.sys \in {"csrrs", "csrrsi"} -> Num(Bits(old) \cup Bits(src))
    [] OTHER -> Num(Bits(old) \ Bits(src))
IsCsr(d) == d.opcode = "SYS" /\ d.sys \notin {"wfi", "mret"}

-----------------------------------------------------------------------------
\* What holds of words of any width, by induction on the width: sums of powers of
\* two are words, ARCH1's adder and shifters compute what the simulator does, and
\* a whole word is read as it is.  TLC evaluates this for the width of a run.
Operations == {0} \cup {O[n] : n \in DOMAIN O}
ASSUME ArithmeticAssumption ==
  /\ Width \in Nat /\ Modulus \in Nat \ {0}
  /\ \A S \in SUBSET (0 .. Width - 1) : Num(S) \in Word
  /\ Bits(0) = {} /\ \A x \in Word : Num(Bits(x)) = x
  /\ \A x, y \in Word, op \in Operations :
       /\ compute(x, y, op) \in Word
       /\ compute(x, y, op) = IF OpBits(op) = {} THEN 0 ELSE ALUcompute(x, y, OpBits(op))
  /\ \A x \in Word, p \in 0 .. 3, t \in LoadTypes \cup {"none"} :
       formatRead(p, t, x) \in Word
  /\ \A x \in Word : formatRead(0, "lw", x) = x
=============================================================================
