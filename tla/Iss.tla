-------------------------------- MODULE Iss --------------------------------
(***************************************************************************)
(* What a core promises: the program's instructions one at a time.  This   *)
(* is RV32ISim::execute of the simulator (rv32.cpp), which module Core     *)
(* shows ARCH1 to implement.  Code addresses are instruction numbers (the  *)
(* code's divided by four) and the program is apart from the data.         *)
(***************************************************************************)
EXTENDS RV32I, Sequences

CONSTANTS
  Regs,        \* register numbers
  Mtvec        \* address of the trap handler

VARIABLES
  prog, pc, xreg, mem,   \* the program and the simulator's state
  csr,                   \* mstatus.mie and mpie, mepc, mscratch, minstret
  mip,                   \* an enabled interrupt is pending
  ops                    \* history: accesses to devices, in order

issvars == <<prog, pc, xreg, mem, csr, mip, ops>>

-----------------------------------------------------------------------------
Init ==
  /\ pc = 0 /\ mip = FALSE /\ ops = <<>>
  /\ csr = ResetCsr
  /\ xreg \in [Regs -> Word] /\ xreg[0] = 0
  /\ mem \in [0 .. MemWords - 1 -> Word]

Dc  == decode(prog[pc])
Rs1 == xreg[Dc.rs1]
Rs2 == xreg[Dc.rs2]
nxt_pc == (pc + 1) % Modulus
Rs1Imm == (Rs1 + Dc.imm) % Modulus
Active == Dc.opcode \in {"LD", "ST"} /\ MEM_ADDR_OUT_OF_BOUNDS(Rs1Imm)

SetRd(v) == xreg' = IF Dc.rd = 0 THEN xreg ELSE [xreg EXCEPT ![Dc.rd] = v]
Retire(next) == pc' = next /\ csr' = update_counter(csr) /\ UNCHANGED prog

Compute ==
  /\ Dc.opcode \in {"COMP", "COMPI", "LUI", "AUIPC"}
  /\ SetRd(CASE Dc.opcode = "LUI"   -> Dc.imm
             [] Dc.opcode = "AUIPC" -> (pc + Dc.imm) % Modulus
             [] Dc.opcode = "COMP"  -> compute(Rs1, Rs2, Dc.opID)
             [] OTHER               -> compute(Rs1, Dc.imm, Dc.opID))
  /\ Retire(nxt_pc)
  /\ UNCHANGED <<mem, ops>>

Branch ==
  /\ Dc.opcode \in {"JAL", "JALR", "BR"}
  /\ IF Dc.opcode = "BR" THEN UNCHANGED xreg ELSE SetRd(nxt_pc)
  /\ Retire(CASE Dc.opcode = "JALR" -> Rs1Imm
              [] Dc.opcode = "BR" /\ compute(Rs1, Rs2, Dc.opID) % 2 = 0 -> nxt_pc
              [] OTHER -> (pc + Dc.imm) % Modulus)
  /\ UNCHANGED <<mem, ops>>

Load ==
  /\ Dc.opcode = "LD"
  /\ \E dout \in IF Active THEN Word ELSE {mem[InMem(Rs1Imm)]} :
       /\ SetRd(formatRead(BytePos(Rs1Imm), Dc.size, dout))
       /\ ops' = IF Active
                 THEN Append(ops, Device("LD", Rs1Imm, ld_size(Dc.size), dout)) ELSE ops
  /\ Retire(nxt_pc)
  /\ UNCHANGED mem

Store ==
  LET f == formatWrite(BytePos(Rs1Imm), Dc.size, Rs2)
  IN  /\ Dc.opcode = "ST"
      /\ IF Active
         THEN /\ ops' = Append(ops, Device("ST", Rs1Imm, st_size(Dc.size), f.din))
              /\ UNCHANGED mem
         ELSE /\ mem' = [mem EXCEPT ![InMem(Rs1Imm)] =
                                      storeMemByteEnable(@, f.din, f.byte_enable)]
              /\ UNCHANGED ops
      /\ Retire(nxt_pc)
      /\ UNCHANGED xreg

\* wfi, mret and the CSR instructions.
System ==
  LET src == CsrSource(Dc, Rs1)
      val == CsrRead(Dc, csr)
  IN  /\ Dc.opcode = "SYS"
      /\ IF IsCsr(Dc) THEN SetRd(val) ELSE UNCHANGED xreg
      /\ pc' = IF Dc.sys = "mret" THEN csr.mepc ELSE nxt_pc
      /\ csr' = update_counter(CASE Dc.sys = "mret" -> do_mret(csr)
                  [] IsCsr(Dc) /\ ~CsrSkipsWrite(Dc, src) ->
                       [csr EXCEPT ![Dc.imm12] = CsrModified(Dc, val, src)]
                  [] OTHER -> csr)
      /\ UNCHANGED <<prog, mem, ops>>

\* An access to a device is made before interrupts are looked at.
Execute ==
  /\ ~interrupt_detected(csr, mip) \/ Active
  /\ Compute \/ Branch \/ Load \/ Store \/ System
  /\ mip' \in BOOLEAN

\* The simulator takes the interrupt after a device access that it finds
\* pending at it; here it may come first.
Trap ==
  /\ interrupt_detected(csr, mip)
  /\ csr' = do_trap(csr, pc)
  /\ pc' = Mtvec
  /\ mip' \in BOOLEAN
  /\ UNCHANGED <<prog, xreg, mem, ops>>

\* The interrupt lines move while nothing is executed.
Lines == mip' = ~mip /\ UNCHANGED <<prog, pc, xreg, mem, csr, ops>>

Next == Execute \/ Trap \/ Lines

Spec == Init /\ [][Next]_issvars
=============================================================================
