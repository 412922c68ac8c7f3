-------------------------------- MODULE Csr --------------------------------
(***************************************************************************)
(* The machine-mode control registers of the two cores (RV32I_ARCH1, the   *)
(* hardware; RV32ISim, the instruction-set simulator) under the firmware   *)
(* that switches interrupts on and off: entry.S, the enable and disable    *)
(* routines and the critical section of io.c, the end of main.c.           *)
(*                                                                         *)
(* A step is one instruction on a CSR, or a trap or an mret; mip may       *)
(* change in every step.  A register is the set of its bits that are one:  *)
(* mstatus of MIE, MPIE, MPP, mie and mip of the interrupt sources, mtvec  *)
(* and mcause of the one value they are compared with.                     *)
(***************************************************************************)
EXTENDS Sequences, Naturals

CONSTANT Cores   \* the cores to run on, a subset of {"ARCH1", "ISS"}

ASSUME CoreAssumption == Cores \subseteq {"ARCH1", "ISS"} /\ Cores # {}

VARIABLES
  core,      \* the core the program runs on, fixed
  csr,       \* mstatus, mie, mtvec, mcause
  mip,       \* mip: the lines of the UARTs and buttons, and of the timer
  todo,      \* main: the instructions left of the routine it is in
  prv_mstatus,
  nesting,   \* traps taken and not returned from
  on         \* history: sources main switched on and not off again

vars == <<core, csr, mip, todo, prv_mstatus, nesting, on>>

Sources == {"external", "timer"}
Handler == {"_mhandler"}
Bits == [mstatus |-> {"MIE", "MPIE", "MPP"}, mie |-> Sources,
         mtvec |-> Handler, mcause |-> Sources]

-----------------------------------------------------------------------------
(* Instructions and the firmware's routines *)

\* op is rw, rs or rc (csrrw, csrrs, csrrc and their immediate forms); rd and
\* rs1 say whether the instruction's rd and rs1 (or imm5) fields are not zero;
\* val is the operand.
Inst(op, reg, rd, rs1, val) ==
  [op |-> op, reg |-> reg, rd |-> rd, rs1 |-> rs1, val |-> val]

csrw(reg, val) == Inst("rw", reg, FALSE, TRUE, val)
csrs(reg, val) == Inst("rs", reg, FALSE, TRUE, val)
csrc(reg, val) == Inst("rc", reg, FALSE, TRUE, val)
csrr(reg)      == Inst("rs", reg, TRUE, FALSE, {})

enable_BUTTON_interrupt ==
  <<csrw("mtvec", Handler), csrs("mie", {"external"}), csrs("mstatus", {"MIE"})>>
enable_UART_interrupt ==
  <<csrs("mie", {"external"}), csrs("mstatus", {"MIE"}), csrw("mtvec", Handler)>>
enable_timer_interrupt ==
  <<csrs("mie", {"timer"}), csrs("mstatus", {"MIE"}), csrw("mtvec", Handler)>>
disable_UART_interrupt == <<csrc("mstatus", {"MIE"})>>

\* main switches the timer off before it returns.
end_of_main == <<csrc("mie", {"timer"})>>

\* entry.S, before main.
start == disable_UART_interrupt \o enable_BUTTON_interrupt

\* enter_critical_section and leave_critical_section: the value csrw writes is
\* prv_mstatus, read by csrr.
Leave == Inst("rw", "mstatus", FALSE, TRUE, {})
critical_section == <<csrr("mstatus"), csrc("mstatus", {"MIE"}), Leave>>

Routines == {enable_UART_interrupt, enable_timer_interrupt, end_of_main,
             critical_section, start}

Init ==
  /\ core \in Cores
  /\ csr = [mstatus |-> {}, mie |-> {}, mtvec |-> {}, mcause |-> {}]
  /\ mip \in SUBSET Sources
  /\ todo = start
  /\ prv_mstatus = {} /\ nesting = 0 /\ on = {}

-----------------------------------------------------------------------------
(* The cores *)

\* What an instruction makes of the value it read.
Modified(op, old, val) ==
  CASE op = "rw" -> val [] op = "rs" -> old \cup val [] op = "rc" -> old \ val

\* ARCH1: csr_rw has one bit for rd # x0 and one for rs1 # x0, for every op;
\* the first allows the read, the second the write.
ReadArch1(i) == IF i.rd THEN csr[i.reg] ELSE {}
WritesArch1(i) == i.rs1

\* Mutation of ReadIss: the read is skipped whatever the operation.
ReadIssSkipped(i) == IF ~i.rd THEN {} ELSE csr[i.reg]

\* ISS: do_csrrx skips the read of csrrw and the write of csrrs and csrrc.
ReadIss(i) == IF i.op = "rw" /\ ~i.rd THEN {} ELSE csr[i.reg]
WritesIss(i, val) == i.op = "rw" \/ val # {}

Read(i) == IF core = "ARCH1" THEN ReadArch1(i) ELSE ReadIss(i)
Writes(i, val) == IF core = "ARCH1" THEN WritesArch1(i) ELSE WritesIss(i, val)

\* Mutation of writeback: the address of the register is ignored.
writebackToMie(i, val) ==
  IF Writes(i, val)
  THEN [csr EXCEPT !["mie"] = Modified(i.op, Read(i), val)]
  ELSE csr

writeback(i, val) ==
  IF Writes(i, val)
  THEN [csr EXCEPT ![i.reg] = Modified(i.op, Read(i), val)]
  ELSE csr

interrupt_detected == mip \cap csr.mie # {} /\ "MIE" \in csr.mstatus

\* Mutation of Cause: a pending timer comes first, enabled or not.
CausePending ==
  IF "timer" \in mip THEN {"timer"} ELSE {"external"}

\* An external interrupt before one of the timer.
Cause ==
  IF "external" \in mip \cap csr.mie THEN {"external"} ELSE {"timer"}

do_trap ==
  [csr EXCEPT !.mcause = Cause,
              !.mstatus = {"MPP"} \cup IF "MIE" \in @ THEN {"MPIE"} ELSE {}]

\* Mutation of do_mret: mie is not restored.
do_mretClosed == [csr EXCEPT !.mstatus = {"MPIE"}]

do_mret ==
  [csr EXCEPT !.mstatus = {"MPIE"} \cup IF "MPIE" \in @ THEN {"MIE"} ELSE {}]

-----------------------------------------------------------------------------
(* The program *)

Lines == mip' \in SUBSET Sources

\* main calls a routine.
Call(r) ==
  /\ nesting = 0 /\ todo = <<>>
  /\ todo' = r
  /\ Lines
  /\ UNCHANGED <<core, csr, prv_mstatus, nesting, on>>

Switches(i) == CASE i.reg # "mie" -> on
                 [] i.reg = "mie" /\ i.op = "rs" -> on \cup i.val
                 [] i.reg = "mie" /\ i.op = "rc" -> on \ i.val

\* The next instruction of the routine, if no interrupt is taken instead.
Exec ==
  LET i == Head(todo)
      val == IF i = Leave THEN prv_mstatus ELSE i.val
  IN  /\ nesting = 0 /\ todo # <<>>
      /\ ~interrupt_detected
      /\ csr' = writeback(i, val)
      /\ prv_mstatus' = IF i = csrr("mstatus") THEN Read(i) ELSE prv_mstatus
      /\ on' = Switches(i)
      /\ todo' = Tail(todo)
      /\ Lines
      /\ UNCHANGED <<core, nesting>>

\* At an instruction of main or of the handler; a trap within a trap is as far
\* as it need be followed.
Trap ==
  /\ interrupt_detected
  /\ nesting < 2
  /\ csr' = do_trap
  /\ nesting' = nesting + 1
  /\ Lines
  /\ UNCHANGED <<core, todo, prv_mstatus, on>>

\* mhandler reads mcause, serves the cause and returns; what it serves may
\* change its line.
Mret ==
  /\ nesting > 0
  /\ csr' = do_mret
  /\ nesting' = nesting - 1
  /\ Lines
  /\ UNCHANGED <<core, todo, prv_mstatus, on>>

Next == Exec \/ Trap \/ Mret \/ \E r \in Routines : Call(r)

Spec == Init /\ [][Next]_vars

-----------------------------------------------------------------------------
\* Type correctness.
TypeOK ==
  /\ core \in Cores
  /\ \A r \in DOMAIN Bits : csr[r] \subseteq Bits[r]
  /\ mip \subseteq Sources /\ on \subseteq Sources
  /\ prv_mstatus \subseteq Bits.mstatus
  /\ nesting \in 0 .. 2

\* A critical section holds: the handler is not interrupted, and neither is the
\* section; while mstatus is saved and not restored no trap is under way.  The section,
\* and a trap that may come between its instructions, leave main with interrupts enabled,
\* as they were: after start, main runs its own code with mie set, and a section restores
\* what a trap had not changed.
SectionsHold ==
  /\ nesting < 2
  /\ nesting = 0 => /\ todo = <<>> => "MIE" \in csr.mstatus
                    /\ todo = <<Leave>> => "MIE" \in prv_mstatus
  /\ todo = <<Leave>> => nesting = 0

\* A trap is justified: none is taken before mtvec is set, although enable_UART_interrupt
\* and enable_timer_interrupt set mie first and a line may be high at power-up, and none
\* for a source that main has not switched on, though mip is a clock old.
TrapJustified ==
  nesting > 0 => csr.mtvec = Handler /\ csr.mcause \subseteq on

\* An interrupt source main has switched on stays enabled until main switches
\* it off: csrs sets bits and csrc clears bits, the other bits stay.
EnabledStays == on \subseteq csr.mie

\* The same of the simulator.
EnabledStaysOnIss == core = "ISS" => EnabledStays
=============================================================================
