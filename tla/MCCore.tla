------------------------------- MODULE MCCore -------------------------------
(***************************************************************************)
(* Programs for Core: every operation on every pair of words; loads,       *)
(* stores, calls and CSR instructions with interrupts at any clock; and    *)
(* the debugger's commands with the button pressed and other interrupts    *)
(* raised at any clock.                                                    *)
(***************************************************************************)
EXTENDS Core

CONSTANT Stepping   \* commands tried with the debugger

\* A device asked for a byte or a half answers with no more.
DeviceWords == [n \in {1, 2, 4} |-> CASE n = 1 -> {0, 1} [] n = 2 -> {2} [] OTHER -> {6, 11}]

Inst(opcode, rd, rs1, rs2, f3, f7, imm) ==
  [opcode |-> opcode, rd |-> rd, rs1 |-> rs1, rs2 |-> rs2, f3 |-> f3, f7 |-> f7, imm |-> imm,
   imm12 |-> "none"]

COMP(f3, f7)      == Inst("COMP", 3, 1, 2, f3, f7, 0)
COMPI(f3, f7, imm) == Inst("COMPI", 3, 1, 0, f3, f7, imm)
ADDI(rd, rs1, imm) == Inst("COMPI", rd, rs1, 0, 0, 0, imm)
BR(f3)            == Inst("BR", 0, 1, 2, f3, 0, 2)
LUI(rd, imm)      == Inst("LUI", rd, 0, 0, 0, 0, imm)
AUIPC(rd, imm)    == Inst("AUIPC", rd, 0, 0, 0, 0, imm)
LD(f3, rd, rs1, imm)  == Inst("LD", rd, rs1, 0, f3, 0, imm)
ST(f3, rs2, rs1, imm) == Inst("ST", 0, rs1, rs2, f3, 0, imm)
JAL(rd, imm)      == Inst("JAL", rd, 0, 0, 0, 0, imm)
JALR(rd, rs1)     == Inst("JALR", rd, rs1, 0, 0, 0, 0)
SYS(f3, rd, rs1, name) == [Inst("SYS", rd, rs1, 0, f3, 0, 0) EXCEPT !.imm12 = name]
WFI == SYS(0, 0, 0, "wfi")
MRET == SYS(0, 0, 0, "mret")
RET == JALR(0, R_ra)
End == JAL(0, 0)

\* Code fills the memory from 0 on and stops at wfi; the handler clears irq_ctrl
\* with x3.
IrqCtrl == 4 * MemWords
DeviceAddr == 4 * (MemWords + 1)
Code(s) == [n \in Word |-> IF n < Len(s) THEN s[n + 1]
                           ELSE IF n = Mtvec THEN ST(2, 3, 0, IrqCtrl)
                           ELSE IF n = Mtvec + 1 THEN MRET
                           ELSE IF n = Modulus - 1 THEN End ELSE WFI]

Comps == {COMP(f3, 0) : f3 \in 0 .. 7} \cup {COMP(f3, 32) : f3 \in {0, 5}}
MUL == COMP(0, 1)
Compis == {COMPI(f3, 0, imm) : f3 \in 0 .. 7, imm \in {0, 1, 3, 8, 15}}
          \cup {COMPI(5, 32, imm) : imm \in {1, 2, 3}}
Branches == {BR(f3) : f3 \in {0, 1, 4, 5, 6, 7}}

Accesses == <<ADDI(2, 0, DeviceAddr), ST(0, 3, 0, 1), LD(1, 1, 0, 0), ST(2, 1, 2, 0),
              LD(2, 1, 2, 0), LD(4, 1, 0, 1), ST(1, 3, 0, 6), LD(4, 1, 2, 0), LD(5, 1, 2, 0), LD(0, 2, 0, 6)>>
Calls == <<ADDI(2, 0, 5), SYS(1, 1, 2, "mscratch"), SYS(6, 1, 2, "mscratch"),
           JAL(1, 4), WFI, SYS(2, 2, 3, "mscratch"), WFI,
           AUIPC(2, 1), LUI(2, 4), RET>>
Nested == <<WFI, JAL(1, 3), ST(2, 3, 0, IrqCtrl), WFI, ADDI(2, 1, 0), JAL(1, 3), ADDI(1, 2, 0), RET,
            ADDI(3, 0, 1), RET>>
Cycles == <<WFI, ST(2, 1, 0, DeviceAddr), LD(2, 2, 0, 4), BR(1), MUL, MUL>>

Scenario(code, x1, x2, x3, c, irqsLeft) ==
  /\ prog = Code(code)
  /\ xreg = [r \in Regs |-> <<0, x1, x2, x3>>[r + 1]]
  /\ com = c
  /\ irqs = MaxIrq - irqsLeft

Init ==
  /\ InitCore
  /\ mem = [i \in 0 .. MemWords - 1 |-> i + 2]
  /\ \/ \E i \in Comps \cup Branches, x, y \in Word : Scenario(<<i>>, x, y, 0, DBG_run, 0)
     \/ \E x, y \in Word : Scenario(<<MUL, MUL>>, x, y, 0, DBG_run, 0)
     \/ \E i \in Compis, x \in Word : Scenario(<<i>>, x, 0, 0, DBG_run, 0)
     \/ Scenario(Accesses, 1, 1, Modulus - 1, DBG_run, 2)
     \/ Scenario(Calls, 3, 5, Modulus - 1, DBG_run, 2)
     \/ Scenario(Calls, 3, 5, Modulus - 1, DBG_ignore_wfi, 1)
     \/ \E c \in Stepping \ {DBG_step_cycle} :
          Scenario(Nested, 0, 0, Modulus - 1, c, MaxIrq)
     \/ /\ DBG_step_cycle \in Stepping
        /\ Scenario(Cycles, 1, 3, Modulus - 1, DBG_step_cycle, MaxIrq)

Next == Clock

Spec == Init /\ [][Next]_vars
\* The clock ticks, and a device answers in the end (AxiBus).
FairSpec == Spec /\ WF_vars(Next) /\ WF_vars(Next /\ IoCompleted)
=============================================================================
