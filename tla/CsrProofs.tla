------------------------------ MODULE CsrProofs ------------------------------
(***************************************************************************)
(* Proofs about the control registers, for every set of cores: the         *)
(* handler and the critical section are not interrupted, a trap has its    *)
(* vector and an interrupt main has switched on, and the simulator keeps   *)
(* what main has switched on.                                              *)
(***************************************************************************)
EXTENDS Csr, SequenceTheorems, TLAPS

\* Interrupts as main has them: those a trap has put away come back with mret.
Enabled == IF nesting = 0 THEN "MIE" \in csr.mstatus ELSE "MPIE" \in csr.mstatus

\* The parts of routines that main runs with interrupts enabled, and what is left
\* of the critical section when mstatus is saved.
Open == {enable_UART_interrupt, enable_timer_interrupt, end_of_main,
         critical_section, start,
         <<csrs("mstatus", {"MIE"}), csrw("mtvec", Handler)>>,
         <<csrw("mtvec", Handler)>>, <<>>}
Saved == <<csrc("mstatus", {"MIE"}), Leave>>

\* Parts of start that it runs with interrupts off, before and after mtvec is
\* set.
Early == {start, enable_BUTTON_interrupt}
Late == {<<csrs("mie", {"external"}), csrs("mstatus", {"MIE"})>>,
         <<csrs("mstatus", {"MIE"})>>}

\* Where main is, and what that says about its interrupts.
Place ==
  \/ todo \in Open /\ Enabled
  \/ todo = Saved /\ Enabled /\ "MIE" \in prv_mstatus
  \/ todo = <<Leave>> /\ nesting = 0 /\ "MIE" \notin csr.mstatus
                      /\ "MIE" \in prv_mstatus /\ csr.mtvec = Handler
  \/ todo \in Early /\ nesting = 0 /\ "MIE" \notin csr.mstatus
  \/ todo \in Late /\ nesting = 0 /\ "MIE" \notin csr.mstatus
                   /\ csr.mtvec = Handler

\* A trap is taken only with the vector set, masks interrupts, and is for
\* something enabled then; whatever is enabled main has switched on.
Masked ==
  /\ nesting \in {0, 1}
  /\ nesting = 1 => "MIE" \notin csr.mstatus /\ csr.mcause \subseteq on
  /\ Enabled => csr.mtvec = Handler

\* The registers as a set of records: TypeOK alone does not say that csr is one.
Registers == [mstatus : SUBSET Bits.mstatus, mie : SUBSET Sources,
              mtvec : SUBSET Handler, mcause : SUBSET Sources]

\* SectionsHold is not inductive: it says nothing of main between the
\* instructions of its routines, nor of what a trap has put away.
IInv == /\ TypeOK /\ csr \in Registers
        /\ Place /\ Masked
        /\ csr.mie \subseteq on /\ EnabledStaysOnIss

-----------------------------------------------------------------------------
LEMMA RegistersTyped ==
  ASSUME csr \in Registers
  PROVE  \A r \in DOMAIN Bits : csr[r] \subseteq Bits[r]
  BY DEF Registers, Bits

LEMMA InitInv == Init => IInv
  <1> SUFFICES ASSUME Init PROVE IInv
    OBVIOUS
  <1>1. csr \in Registers
    BY DEF Init, Registers, Bits
  <1>2. TypeOK
    BY <1>1, RegistersTyped DEF Init, TypeOK, Bits
  <1>3. todo \in Early /\ nesting = 0 /\ "MIE" \notin csr.mstatus
    BY DEF Init, Early
  <1>4. Place
    BY <1>3 DEF Place
  <1>5. Masked
    BY <1>3 DEF Masked, Enabled
  <1> QED BY <1>1, <1>2, <1>4, <1>5 DEF IInv, Init, EnabledStaysOnIss, EnabledStays

LEMMA TrapInv == IInv /\ Trap => IInv'
  <1> SUFFICES ASSUME IInv, Trap PROVE IInv'
    OBVIOUS
  <1>1. /\ csr \in Registers
        /\ nesting = 0 /\ nesting' = 1
        /\ "MIE" \in csr.mstatus
        /\ todo' = todo /\ prv_mstatus' = prv_mstatus /\ on' = on /\ core' = core
        /\ mip' \in SUBSET Sources
    BY DEF IInv, Masked, Trap, interrupt_detected, Lines
  <1>2. Cause \subseteq csr.mie /\ Cause \subseteq Sources
    BY <1>1 DEF Cause, Trap, interrupt_detected, IInv, TypeOK, Sources, Registers
  <1>3. csr' = [csr EXCEPT !.mcause = Cause, !.mstatus = {"MPP", "MPIE"}]
    BY <1>1, Zenon DEF Trap, do_trap
  <1>4. /\ csr' \in Registers
        /\ csr'.mstatus = {"MPP", "MPIE"} /\ csr'.mcause = Cause
        /\ csr'.mie = csr.mie /\ csr'.mtvec = csr.mtvec
    BY <1>1, <1>2, <1>3 DEF Registers, Bits
  <1>5. Place'
    BY <1>1, <1>4 DEF IInv, Place, Enabled
  <1>6. Masked'
    BY <1>1, <1>2, <1>4 DEF IInv, Masked, Enabled
  <1>7. TypeOK'
    BY <1>1, <1>4, RegistersTyped DEF IInv, TypeOK, Bits, Registers
  <1> QED BY <1>1, <1>4, <1>5, <1>6, <1>7 DEF IInv, EnabledStaysOnIss, EnabledStays

LEMMA MretInv == IInv /\ Mret => IInv'
  <1> SUFFICES ASSUME IInv, Mret PROVE IInv'
    OBVIOUS
  <1>1. /\ csr \in Registers
        /\ nesting = 1 /\ nesting' = 0
        /\ todo' = todo /\ prv_mstatus' = prv_mstatus /\ on' = on /\ core' = core
        /\ mip' \in SUBSET Sources
    BY DEF IInv, Masked, Mret, Lines
  <1>2. todo \in Open \cup {Saved} /\ Enabled /\ "MPIE" \in csr.mstatus
    BY <1>1 DEF IInv, Place, Enabled
  <1>3. csr' = [csr EXCEPT !.mstatus = {"MPIE"} \cup {"MIE"}]
    BY <1>2, Zenon DEF Mret, do_mret
  <1>4. /\ csr' \in Registers
        /\ csr'.mstatus = {"MPIE", "MIE"}
        /\ csr'.mie = csr.mie /\ csr'.mtvec = csr.mtvec
    BY <1>1, <1>3 DEF Registers, Bits
  <1>5. Place'
    BY <1>1, <1>2, <1>4 DEF IInv, Place, Enabled
  <1>6. Masked'
    BY <1>1, <1>2, <1>4 DEF IInv, Masked, Enabled
  <1>7. TypeOK'
    BY <1>1, <1>4, RegistersTyped DEF IInv, TypeOK, Bits, Registers
  <1> QED BY <1>1, <1>4, <1>5, <1>6, <1>7 DEF IInv, EnabledStaysOnIss, EnabledStays

LEMMA CallInv ==
  ASSUME IInv, NEW r \in Routines, Call(r)
  PROVE  IInv'
  <1>1. /\ nesting' = nesting /\ csr' = csr /\ todo' = r
        /\ prv_mstatus' = prv_mstatus /\ on' = on /\ core' = core
        /\ mip' \in SUBSET Sources /\ todo = <<>>
    BY DEF Call, Lines
  <1>2. r \in Open
    BY DEF Routines, Open
  <1>3. Enabled
    <2>1. /\ Saved # <<>> /\ <<Leave>> # <<>>
          /\ start # <<>> /\ enable_BUTTON_interrupt # <<>>
          /\ <<>> \notin Late
      BY DEF Saved, Late, start, disable_UART_interrupt, enable_BUTTON_interrupt
    <2> QED BY <1>1, <2>1 DEF IInv, Place, Early
  <1>4. Place'
    BY <1>1, <1>2, <1>3 DEF Place, Enabled
  <1>5. Masked'
    BY <1>1 DEF IInv, Masked, Enabled
  <1> QED BY <1>1, <1>4, <1>5 DEF IInv, TypeOK, EnabledStaysOnIss, EnabledStays

-----------------------------------------------------------------------------
(* Instructions *)

\* An instruction of main runs with no trap under way.
LEMMA ExecFrame ==
  ASSUME IInv, Exec
  PROVE  /\ nesting = 0 /\ nesting' = 0 /\ core' = core /\ todo # <<>>
         /\ mip' \in SUBSET Sources
         /\ todo' = Tail(todo)
         /\ csr \in Registers
         /\ (Enabled <=> "MIE" \in csr.mstatus)
         /\ (Enabled' <=> "MIE" \in csr'.mstatus)
  BY DEF IInv, Exec, Lines, Enabled

\* csrw.
LEMMA ExecRw ==
  ASSUME IInv, Exec, NEW r \in DOMAIN Bits, NEW v,
         Head(todo) = csrw(r, v), Head(todo) # Leave, v # {}
  PROVE  /\ csr' = [csr EXCEPT ![r] = v]
         /\ prv_mstatus' = prv_mstatus
         /\ r # "mie" => on' = on
  <1> DEFINE i == csrw(r, v)
  <1>1. /\ i.op = "rw" /\ i.reg = r /\ i.val = v /\ ~i.rd /\ i.rs1
        /\ i # csrr("mstatus")
    BY DEF csrw, csrr, Inst
  <1>2. /\ csr' = writeback(i, v)
        /\ prv_mstatus' = prv_mstatus
        /\ on' = Switches(i)
    BY <1>1, Zenon DEF Exec
  <1>3. writeback(i, v) = [csr EXCEPT ![r] = v]
    BY <1>1, Zenon DEF writeback, Writes, WritesArch1, WritesIss, Modified
  <1> QED BY <1>1, <1>2, <1>3 DEF Switches

\* csrs with rd = x0 sets the bits it names and keeps at most the others; the
\* simulator keeps all of them.
LEMMA ExecSet ==
  ASSUME IInv, Exec, NEW r \in DOMAIN Bits, NEW v, Head(todo) = csrs(r, v), v # {}
  PROVE  /\ \E new : /\ csr' = [csr EXCEPT ![r] = new]
                     /\ v \subseteq new /\ new \subseteq csr[r] \cup v
                     /\ core = "ISS" => new = csr[r] \cup v
         /\ prv_mstatus' = prv_mstatus
         /\ on' = IF r = "mie" THEN on \cup v ELSE on
  <1> DEFINE i == csrs(r, v)
             new == IF core = "ARCH1" THEN v ELSE csr[r] \cup v
  <1>1. /\ i.op = "rs" /\ i.reg = r /\ i.val = v /\ ~i.rd /\ i.rs1
        /\ i # csrr("mstatus") /\ i # Leave
    BY DEF csrs, csrr, Leave, Inst
  <1>2. /\ csr' = writeback(i, v)
        /\ prv_mstatus' = prv_mstatus
        /\ on' = Switches(i)
    BY <1>1, Zenon DEF Exec
  <1>3. Modified("rs", Read(i), v) = new
    <2>1. Read(i) = IF core = "ARCH1" THEN {} ELSE csr[r]
      BY <1>1, Zenon DEF Read, ReadArch1, ReadIss
    <2> QED BY <2>1 DEF Modified
  <1>4. Writes(i, v)
    BY <1>1, Zenon DEF Writes, WritesArch1, WritesIss
  <1>5. csr' = [csr EXCEPT ![r] = new]
    BY <1>1, <1>2, <1>3, <1>4, Zenon DEF writeback
  <1>6. /\ v \subseteq new /\ new \subseteq csr[r] \cup v
        /\ core = "ISS" => new = csr[r] \cup v
    OBVIOUS
  <1>7. Switches(i) = IF r = "mie" THEN on \cup v ELSE on
    BY <1>1 DEF Switches
  <1> HIDE DEF new
  <1> QED BY <1>2, <1>5, <1>6, <1>7

\* csrc with rd = x0 clears the bits it names.
LEMMA ExecClear ==
  ASSUME IInv, Exec, NEW r \in DOMAIN Bits, NEW v, Head(todo) = csrc(r, v), v # {}
  PROVE  /\ \E new : /\ csr' = [csr EXCEPT ![r] = new]
                     /\ new \subseteq csr[r] \ v
                     /\ core = "ISS" => new = csr[r] \ v
         /\ prv_mstatus' = prv_mstatus
         /\ on' = IF r = "mie" THEN on \ v ELSE on
  <1> DEFINE i == csrc(r, v)
             new == IF core = "ARCH1" THEN {} ELSE csr[r] \ v
  <1>1. /\ i.op = "rc" /\ i.reg = r /\ i.val = v /\ ~i.rd /\ i.rs1
        /\ i # csrr("mstatus") /\ i # Leave
    BY DEF csrc, csrr, Leave, Inst
  <1>2. /\ csr' = writeback(i, v)
        /\ prv_mstatus' = prv_mstatus
        /\ on' = Switches(i)
    BY <1>1, Zenon DEF Exec
  <1>3. Modified("rc", Read(i), v) = new
    <2>1. Read(i) = IF core = "ARCH1" THEN {} ELSE csr[r]
      BY <1>1, Zenon DEF Read, ReadArch1, ReadIss
    <2> QED BY <2>1 DEF Modified
  <1>4. Writes(i, v)
    BY <1>1, Zenon DEF Writes, WritesArch1, WritesIss
  <1>5. csr' = [csr EXCEPT ![r] = new]
    BY <1>1, <1>2, <1>3, <1>4, Zenon DEF writeback
  <1>6. /\ new \subseteq csr[r] \ v
        /\ core = "ISS" => new = csr[r] \ v
    OBVIOUS
  <1>7. Switches(i) = IF r = "mie" THEN on \ v ELSE on
    BY <1>1 DEF Switches
  <1> HIDE DEF new
  <1> QED BY <1>2, <1>5, <1>6, <1>7

LEMMA ClearMIE ==
  ASSUME IInv, Exec, Head(todo) = csrc("mstatus", {"MIE"})
  PROVE  /\ \E new : /\ csr' = [csr EXCEPT !["mstatus"] = new]
                     /\ new \subseteq csr.mstatus \ {"MIE"}
         /\ prv_mstatus' = prv_mstatus /\ on' = on
  <1>1. "mstatus" \in DOMAIN Bits /\ {"MIE"} # {}
    BY DEF Bits
  <1>2. /\ \E new : /\ csr' = [csr EXCEPT !["mstatus"] = new]
                    /\ new \subseteq csr["mstatus"] \ {"MIE"}
                    /\ core = "ISS" => new = csr["mstatus"] \ {"MIE"}
        /\ prv_mstatus' = prv_mstatus
        /\ on' = IF "mstatus" = "mie" THEN on \ {"MIE"} ELSE on
    BY <1>1, ExecClear
  <1> QED BY <1>2

\* The two halves of the critical section that move mstatus.
LEMMA ExecSave ==
  ASSUME IInv, Exec, Head(todo) = csrr("mstatus")
  PROVE  csr' = csr /\ prv_mstatus' = csr.mstatus /\ on' = on
  <1> DEFINE i == csrr("mstatus")
  <1>1. /\ i.op = "rs" /\ i.reg = "mstatus" /\ i.val = {} /\ i.rd /\ ~i.rs1
        /\ i # Leave
    BY DEF csrr, Leave, Inst
  <1>2. /\ csr' = writeback(i, {})
        /\ prv_mstatus' = Read(i)
        /\ on' = Switches(i)
    BY <1>1, Zenon DEF Exec
  <1>3. ~Writes(i, {})
    BY <1>1, Zenon DEF Writes, WritesArch1, WritesIss
  <1>4. Read(i) = csr.mstatus
    BY <1>1, Zenon DEF Read, ReadArch1, ReadIss
  <1>5. Switches(i) = on
    BY <1>1 DEF Switches
  <1> QED BY <1>2, <1>3, <1>4, <1>5, Zenon DEF writeback

LEMMA ExecLeave ==
  ASSUME IInv, Exec, Head(todo) = Leave
  PROVE  /\ csr' = [csr EXCEPT !.mstatus = prv_mstatus]
         /\ prv_mstatus' = prv_mstatus /\ on' = on
  <1>1. /\ Leave.op = "rw" /\ Leave.reg = "mstatus" /\ Leave.rs1
        /\ Leave # csrr("mstatus")
    BY DEF csrr, Leave, Inst
  <1>2. /\ csr' = writeback(Leave, prv_mstatus)
        /\ prv_mstatus' = prv_mstatus
        /\ on' = Switches(Leave)
    BY <1>1, Zenon DEF Exec
  <1>3. Writes(Leave, prv_mstatus)
    BY <1>1, Zenon DEF Writes, WritesArch1, WritesIss
  <1>4. Modified("rw", Read(Leave), prv_mstatus) = prv_mstatus
    BY Zenon DEF Modified
  <1>5. Switches(Leave) = on
    BY <1>1 DEF Switches
  <1> QED BY <1>1, <1>2, <1>3, <1>4, <1>5, Zenon DEF writeback

\* What the write of one register leaves to show: where main is then.
LEMMA WriteKeeps ==
  ASSUME IInv, Exec, NEW r \in DOMAIN Bits, NEW new \in SUBSET Bits[r],
         csr' = [csr EXCEPT ![r] = new],
         on' \subseteq Sources, prv_mstatus' \subseteq Bits.mstatus,
         csr'.mie \subseteq on', core = "ISS" => on' \subseteq csr'.mie,
         "MIE" \in csr'.mstatus => csr'.mtvec = Handler,
         Place'
  PROVE  IInv'
  <1>1. csr' \in Registers
    BY DEF IInv, Registers, Bits
  <1>2. TypeOK'
    BY <1>1, RegistersTyped, ExecFrame DEF IInv, TypeOK, Bits
  <1>3. Masked'
    BY ExecFrame DEF Masked
  <1> QED BY <1>1, <1>2, <1>3, ExecFrame DEF IInv, EnabledStaysOnIss, EnabledStays

\* start is a concatenation; its first instruction and the rest.
LEMMA Prepended ==
  ASSUME NEW S, NEW c \in S, NEW t \in Seq(S), Len(t) = 3,
         NEW s, s = <<c>> \o t
  PROVE  Len(s) = 4 /\ Head(s) = c /\ Tail(s) = t
  <1>1. <<c>> \in Seq(S) /\ Len(<<c>>) = 1 /\ <<c>>[1] = c
    OBVIOUS
  <1>2. /\ s \in Seq(S) /\ Len(s) = 4
        /\ \A k \in 1 .. 1 + 3 : s[k] = IF k <= 1 THEN <<c>>[k] ELSE t[k - 1]
    <2>1. /\ s \in Seq(S) /\ Len(s) = Len(<<c>>) + Len(t)
          /\ \A k \in 1 .. Len(<<c>>) + Len(t) :
               s[k] = IF k <= Len(<<c>>) THEN <<c>>[k] ELSE t[k - Len(<<c>>)]
      BY <1>1, ConcatProperties, Zenon
    <2> QED BY <1>1, <2>1
  <1>3. s[1] = c /\ \A k \in 1 .. 3 : s[k + 1] = t[k]
    BY <1>1, <1>2
  <1>4. s # <<>> /\ Head(s) = c
    BY <1>2, <1>3
  <1>5. /\ Tail(s) \in Seq(S) /\ Len(Tail(s)) = 3
        /\ \A k \in 1 .. Len(Tail(s)) : Tail(s)[k] = s[k + 1]
    BY <1>2, <1>4
  <1>6. Tail(s) = t
    BY <1>3, <1>5, SeqEqual
  <1> QED BY <1>2, <1>4, <1>6

LEMMA StartSuffix ==
  /\ Len(start) = 4
  /\ Head(start) = csrc("mstatus", {"MIE"})
  /\ Tail(start) = enable_BUTTON_interrupt
  <1> DEFINE c == csrc("mstatus", {"MIE"})
             w == csrw("mtvec", Handler)
             e == csrs("mie", {"external"})
             m == csrs("mstatus", {"MIE"})
             S == {c, w, e, m}
  <1>1. start = <<c>> \o <<w, e, m>> /\ enable_BUTTON_interrupt = <<w, e, m>>
    BY DEF start, disable_UART_interrupt, enable_BUTTON_interrupt
  <1> HIDE DEF c, w, e, m
  <1>2. c \in S /\ <<w, e, m>> \in Seq(S) /\ Len(<<w, e, m>>) = 3
    OBVIOUS
  <1>3. Len(start) = 4 /\ Head(start) = c /\ Tail(start) = <<w, e, m>>
    BY <1>1, <1>2, Prepended, Zenon
  <1> QED BY <1>1, <1>3 DEF c

\* What is left after the first instruction of the other short routines.
LEMMA Suffixes ==
  /\ Head(Saved) = csrc("mstatus", {"MIE"}) /\ Tail(Saved) = <<Leave>>
  /\ Head(<<Leave>>) = Leave /\ Tail(<<Leave>>) = <<>>
  /\ Head(critical_section) = csrr("mstatus") /\ Tail(critical_section) = Saved
  /\ Head(end_of_main) = csrc("mie", {"timer"}) /\ Tail(end_of_main) = <<>>
  BY DEF Saved, critical_section, end_of_main

\* Length and first instruction tell the parts of routines apart.
Shape(s) == <<Len(s), IF s = <<>> THEN Leave ELSE Head(s)>>

LEMMA Shapes ==
  /\ Shape(<<>>) = <<0, Leave>>
  /\ Shape(enable_UART_interrupt) = <<3, csrs("mie", {"external"})>>
  /\ Shape(enable_timer_interrupt) = <<3, csrs("mie", {"timer"})>>
  /\ Shape(end_of_main) = <<1, csrc("mie", {"timer"})>>
  /\ Shape(critical_section) = <<3, csrr("mstatus")>>
  /\ Shape(start) = <<4, csrc("mstatus", {"MIE"})>>
  /\ Shape(<<csrs("mstatus", {"MIE"}), csrw("mtvec", Handler)>>)
       = <<2, csrs("mstatus", {"MIE"})>>
  /\ Shape(<<csrw("mtvec", Handler)>>) = <<1, csrw("mtvec", Handler)>>
  /\ Shape(Saved) = <<2, csrc("mstatus", {"MIE"})>>
  /\ Shape(<<Leave>>) = <<1, Leave>>
  /\ Shape(enable_BUTTON_interrupt) = <<3, csrw("mtvec", Handler)>>
  /\ Shape(<<csrs("mie", {"external"}), csrs("mstatus", {"MIE"})>>)
       = <<2, csrs("mie", {"external"})>>
  /\ Shape(<<csrs("mstatus", {"MIE"})>>) = <<1, csrs("mstatus", {"MIE"})>>
  <1>1. start # <<>>
    BY StartSuffix
  <1> QED BY <1>1, StartSuffix DEF Shape, enable_UART_interrupt, enable_timer_interrupt,
             end_of_main, critical_section, Saved, enable_BUTTON_interrupt

\* Instructions that differ in operation, register or operand.
LEMMA Instructions ==
  /\ csrs("mie", {"external"}) \notin {csrr("mstatus"), csrs("mie", {"timer"}),
       csrw("mtvec", Handler), csrc("mstatus", {"MIE"}), csrs("mstatus", {"MIE"})}
  /\ csrs("mie", {"timer"}) \notin {csrr("mstatus"), csrw("mtvec", Handler)}
  /\ csrc("mie", {"timer"}) \notin {Leave, csrw("mtvec", Handler),
                                    csrs("mstatus", {"MIE"})}
  /\ csrr("mstatus") # csrw("mtvec", Handler)
  /\ csrs("mstatus", {"MIE"}) \notin {csrw("mtvec", Handler), Leave,
                                      csrc("mstatus", {"MIE"})}
  /\ csrw("mtvec", Handler) # Leave
  BY DEF csrs, csrr, csrw, csrc, Leave, Inst, Handler

\* What is known in each part of a routine.
LEMMA PlaceOf ==
  ASSUME IInv
  PROVE  /\ todo \in Open \ {start} => Enabled
         /\ todo = Saved => Enabled /\ "MIE" \in prv_mstatus
         /\ todo = <<Leave>> => /\ nesting = 0 /\ "MIE" \notin csr.mstatus
                                /\ "MIE" \in prv_mstatus /\ csr.mtvec = Handler
         /\ todo = enable_BUTTON_interrupt => "MIE" \notin csr.mstatus
         /\ todo \in Late => "MIE" \notin csr.mstatus /\ csr.mtvec = Handler
  <1>1. Place
    BY DEF IInv
  <1>2. ASSUME NEW s \in Open \ {start}
        PROVE  s \notin {Saved, <<Leave>>} \cup Early \cup Late
    <2>1. s # start
      OBVIOUS
    <2>2. s \notin {Saved, <<Leave>>}
      BY Shapes, Instructions DEF Open
    <2>3. s # enable_BUTTON_interrupt
      BY Shapes, Instructions DEF Open
    <2>4. s \notin Late
      BY Shapes, Instructions DEF Open, Late
    <2> QED BY <2>1, <2>2, <2>3, <2>4 DEF Early
  <1>3. Saved \notin {<<Leave>>} \cup Early \cup Late \cup Open
    <2>1. Saved # <<Leave>>
      BY Shapes
    <2>2. Saved \notin Early
      BY Shapes DEF Early
    <2>3. Saved \notin Late
      BY Shapes, Instructions DEF Late
    <2>4. Saved \notin Open
      BY Shapes, Instructions DEF Open
    <2> QED BY <2>1, <2>2, <2>3, <2>4
  <1>4. <<Leave>> \notin Early \cup Late \cup Open
    <2>1. <<Leave>> \notin Early
      BY Shapes DEF Early
    <2>2. <<Leave>> \notin Late
      BY Shapes, Instructions DEF Late
    <2>3. <<Leave>> \notin Open
      BY Shapes, Instructions DEF Open
    <2> QED BY <2>1, <2>2, <2>3
  <1>5. enable_BUTTON_interrupt \notin Late \cup Open
    <2>1. enable_BUTTON_interrupt \notin Late
      BY Shapes DEF Late
    <2>2. enable_BUTTON_interrupt # start
      BY Shapes
    <2>3. ASSUME NEW s \in Open \ {start} PROVE s # enable_BUTTON_interrupt
      BY <1>2 DEF Early
    <2> QED BY <2>1, <2>2, <2>3
  <1>6. ASSUME NEW s \in Late PROVE s \notin Open \cup Early
    BY Shapes, Instructions DEF Open, Early, Late
  <1>7. todo \in Open \ {start} => Enabled
    BY <1>1, <1>2 DEF Place
  <1>8. todo = Saved => Enabled /\ "MIE" \in prv_mstatus
    BY <1>1, <1>3 DEF Place
  <1>9. todo = <<Leave>> => /\ nesting = 0 /\ "MIE" \notin csr.mstatus
                            /\ "MIE" \in prv_mstatus /\ csr.mtvec = Handler
    BY <1>1, <1>3, <1>4 DEF Place
  <1>10. todo = enable_BUTTON_interrupt => "MIE" \notin csr.mstatus
    BY <1>1, <1>3, <1>4, <1>5 DEF Place, Early
  <1>11. todo \in Late => "MIE" \notin csr.mstatus /\ csr.mtvec = Handler
    BY <1>1, <1>3, <1>4, <1>6 DEF Place
  <1> QED BY <1>7, <1>8, <1>9, <1>10, <1>11

LEMMA ExecInv == IInv /\ Exec => IInv'
  <1> SUFFICES ASSUME IInv, Exec PROVE IInv'
    OBVIOUS
  <1> USE ExecFrame
  <1>0. /\ on \subseteq Sources /\ prv_mstatus \subseteq Bits.mstatus
        /\ csr.mie \subseteq on /\ (core = "ISS" => on \subseteq csr.mie)
        /\ ("MIE" \in csr.mstatus => csr.mtvec = Handler)
        /\ csr \in Registers
    BY DEF IInv, TypeOK, Masked, EnabledStaysOnIss, EnabledStays
  <1>p. /\ todo \in Open \ {start} => "MIE" \in csr.mstatus
        /\ todo = Saved => "MIE" \in csr.mstatus /\ "MIE" \in prv_mstatus
        /\ todo = <<Leave>> => "MIE" \in prv_mstatus /\ csr.mtvec = Handler
        /\ todo = enable_BUTTON_interrupt => "MIE" \notin csr.mstatus
        /\ todo \in Late => "MIE" \notin csr.mstatus /\ csr.mtvec = Handler
        /\ todo \in Open \cup {Saved, <<Leave>>} \cup Early \cup Late
    BY PlaceOf DEF IInv, Place
  \* mtvec
  <1>1. ASSUME todo \in {<<csrw("mtvec", Handler)>>, enable_BUTTON_interrupt}
        PROVE  IInv'
    <2>1. Head(todo) = csrw("mtvec", Handler) /\ Head(todo) # Leave
      BY <1>1, Instructions DEF enable_BUTTON_interrupt
    <2>2. /\ csr' = [csr EXCEPT !["mtvec"] = Handler]
          /\ prv_mstatus' = prv_mstatus /\ on' = on
      BY <2>1, ExecRw DEF Bits, Handler
    <2>3. csr'.mtvec = Handler /\ csr'.mie = csr.mie /\ csr'.mstatus = csr.mstatus
      BY <1>0, <2>2 DEF Registers
    <2>4. Place'
      <3>1. CASE todo = <<csrw("mtvec", Handler)>>
        <4>1. todo \in Open \ {start} /\ todo' = <<>>
          BY <3>1, Shapes DEF Open
        <4> QED BY <1>p, <2>3, <4>1 DEF Place, Open
      <3>2. CASE todo = enable_BUTTON_interrupt
        <4>1. todo' \in Late
          BY <3>2 DEF Late, enable_BUTTON_interrupt
        <4> QED BY <1>p, <2>3, <3>2, <4>1 DEF Place
      <3> QED BY <1>1, <3>1, <3>2
    <2> QED BY <1>0, <2>2, <2>3, <2>4, WriteKeeps DEF Bits
  \* mie
  <1>2. ASSUME NEW x \in {{"external"}, {"timer"}}, Head(todo) = csrs("mie", x),
               todo \in {enable_UART_interrupt, enable_timer_interrupt}
                        \cup Late
        PROVE  IInv'
    <2>1. PICK new : /\ csr' = [csr EXCEPT !["mie"] = new]
                     /\ x \subseteq new /\ new \subseteq csr.mie \cup x
                     /\ core = "ISS" => new = csr.mie \cup x
      BY <1>2, ExecSet DEF Bits
    <2>2. prv_mstatus' = prv_mstatus /\ on' = on \cup x
      BY <1>2, ExecSet DEF Bits
    <2>3. /\ new \in SUBSET Sources /\ x \in SUBSET Sources
          /\ csr'.mie = new /\ csr'.mtvec = csr.mtvec /\ csr'.mstatus = csr.mstatus
      BY <1>0, <1>2, <2>1 DEF Registers, Sources
    <2>4. Place'
      <3>1. CASE todo \in Late
        <4>1. todo = <<csrs("mie", {"external"}), csrs("mstatus", {"MIE"})>>
          <5>1. Head(<<csrs("mstatus", {"MIE"})>>) # csrs("mie", x)
            BY DEF csrs, Inst
          <5> QED BY <1>2, <3>1, <5>1 DEF Late
        <4>2. todo' \in Late
          BY <4>1 DEF Late
        <4> QED BY <1>p, <2>3, <3>1, <4>2 DEF Place
      <3>2. CASE todo \in {enable_UART_interrupt, enable_timer_interrupt}
        <4>1. todo \in Open \ {start}
          BY <3>2, Shapes DEF Open
        <4>2. todo' = <<csrs("mstatus", {"MIE"}), csrw("mtvec", Handler)>>
          <5>1. CASE todo = enable_UART_interrupt
            BY <5>1 DEF enable_UART_interrupt
          <5>2. CASE todo = enable_timer_interrupt
            BY <5>2 DEF enable_timer_interrupt
          <5> QED BY <3>2, <5>1, <5>2
        <4> QED BY <1>p, <2>3, <4>1, <4>2 DEF Place, Open
      <3> QED BY <1>2, <3>1, <3>2
    <2>5. /\ csr'.mie \subseteq on'
          /\ core = "ISS" => on' \subseteq csr'.mie
          /\ on' \subseteq Sources
      BY <1>0, <2>1, <2>2, <2>3
    <2> QED BY <1>0, <2>1, <2>2, <2>3, <2>4, <2>5, WriteKeeps DEF Bits
  <1>3. ASSUME todo = end_of_main PROVE IInv'
    <2>0. Head(todo) = csrc("mie", {"timer"}) /\ todo' = <<>>
      BY <1>3, Suffixes
    <2>1. PICK new : /\ csr' = [csr EXCEPT !["mie"] = new]
                     /\ new \subseteq csr.mie \ {"timer"}
                     /\ core = "ISS" => new = csr.mie \ {"timer"}
      BY <2>0, ExecClear DEF Bits
    <2>2. prv_mstatus' = prv_mstatus /\ on' = on \ {"timer"}
      BY <2>0, ExecClear DEF Bits
    <2>3. /\ new \in SUBSET Sources
          /\ csr'.mie = new /\ csr'.mtvec = csr.mtvec /\ csr'.mstatus = csr.mstatus
      BY <1>0, <2>1 DEF Registers
    <2>4. Place'
      <3>1. todo \in Open \ {start}
        BY <1>3, Shapes DEF Open
      <3> QED BY <1>p, <2>0, <2>3, <3>1 DEF Place, Open
    <2>5. /\ csr'.mie \subseteq on'
          /\ core = "ISS" => on' \subseteq csr'.mie
          /\ on' \subseteq Sources
      BY <1>0, <2>1, <2>2, <2>3
    <2> QED BY <1>0, <2>1, <2>2, <2>3, <2>4, <2>5, WriteKeeps DEF Bits
  \* mstatus
  <1>4. ASSUME todo \in {<<csrs("mstatus", {"MIE"}), csrw("mtvec", Handler)>>,
                         <<csrs("mstatus", {"MIE"})>>}
        PROVE  IInv'
    <2>0. Head(todo) = csrs("mstatus", {"MIE"})
      BY <1>4
    <2>1. PICK new : /\ csr' = [csr EXCEPT !["mstatus"] = new]
                     /\ {"MIE"} \subseteq new /\ new \subseteq csr.mstatus \cup {"MIE"}
      BY <2>0, ExecSet DEF Bits
    <2>2. prv_mstatus' = prv_mstatus /\ on' = on
      BY <2>0, ExecSet DEF Bits
    <2>3. /\ new \in SUBSET Bits.mstatus
          /\ csr'.mie = csr.mie /\ csr'.mtvec = csr.mtvec /\ "MIE" \in csr'.mstatus
      BY <1>0, <2>1 DEF Registers, Bits
    <2>4. todo' \in Open /\ csr.mtvec = Handler
      <3>1. CASE todo = <<csrs("mstatus", {"MIE"}), csrw("mtvec", Handler)>>
        <4>1. todo \in Open \ {start} /\ todo' = <<csrw("mtvec", Handler)>>
          BY <3>1, Shapes DEF Open
        <4> QED BY <1>0, <1>p, <4>1 DEF Open
      <3>2. CASE todo = <<csrs("mstatus", {"MIE"})>>
        <4>1. todo \in Late /\ todo' = <<>>
          BY <3>2 DEF Late
        <4> QED BY <1>p, <4>1 DEF Open
      <3> QED BY <1>4, <3>1, <3>2
    <2>5. Place'
      BY <2>3, <2>4 DEF Place
    <2> QED BY <1>0, <2>1, <2>2, <2>3, <2>4, <2>5, WriteKeeps DEF Bits
  <1>5. ASSUME todo \in {start, Saved} PROVE IInv'
    <2>0. Head(todo) = csrc("mstatus", {"MIE"})
      BY <1>5, StartSuffix, Suffixes
    <2>1. PICK new : /\ csr' = [csr EXCEPT !["mstatus"] = new]
                     /\ new \subseteq csr.mstatus \ {"MIE"}
      BY <2>0, ClearMIE
    <2>2. prv_mstatus' = prv_mstatus /\ on' = on
      BY <2>0, ClearMIE
    <2>3. /\ new \in SUBSET Bits.mstatus
          /\ csr'.mie = csr.mie /\ csr'.mtvec = csr.mtvec /\ "MIE" \notin csr'.mstatus
      BY <1>0, <2>1 DEF Registers, Bits
    <2>4. Place'
      <3>1. CASE todo = start
        <4>1. todo' \in Early
          BY <3>1, StartSuffix DEF Early
        <4> QED BY <2>3, <4>1 DEF Place
      <3>2. CASE todo = Saved
        <4>1. /\ todo' = <<Leave>> /\ nesting' = 0 /\ csr'.mtvec = Handler
              /\ "MIE" \in prv_mstatus'
          BY <1>0, <1>p, <2>2, <2>3, <3>2, Suffixes
        <4> QED BY <2>3, <4>1 DEF Place
      <3> QED BY <1>5, <3>1, <3>2
    <2> QED BY <1>0, <2>1, <2>2, <2>3, <2>4, WriteKeeps DEF Bits
  <1>6. ASSUME todo = critical_section PROVE IInv'
    <2>1. Head(todo) = csrr("mstatus") /\ todo' = Saved
      BY <1>6, Suffixes
    <2>2. csr' = csr /\ prv_mstatus' = csr.mstatus /\ on' = on
      BY <2>1, ExecSave
    <2>3. todo \in Open \ {start}
      BY <1>6, Shapes DEF Open
    <2>4. Place'
      BY <1>p, <2>1, <2>2, <2>3 DEF Place
    <2>5. csr' = [csr EXCEPT !["mstatus"] = csr.mstatus] /\ csr.mstatus \in SUBSET Bits.mstatus
      BY <1>0, <2>2 DEF Registers
    <2> QED BY <1>0, <2>2, <2>4, <2>5, WriteKeeps DEF Bits
  <1>7. ASSUME todo = <<Leave>> PROVE IInv'
    <2>1. Head(todo) = Leave /\ todo' = <<>>
      BY <1>7, Suffixes
    <2>2. /\ csr' = [csr EXCEPT !["mstatus"] = prv_mstatus]
          /\ prv_mstatus' = prv_mstatus /\ on' = on
      BY <2>1, ExecLeave
    <2>3. /\ csr'.mstatus = prv_mstatus /\ csr'.mie = csr.mie
          /\ csr'.mtvec = csr.mtvec
      BY <1>0, <2>2 DEF Registers
    <2>4. Place'
      BY <1>p, <1>7, <2>1, <2>3 DEF Place, Open
    <2> QED BY <1>0, <1>p, <1>7, <2>2, <2>3, <2>4, WriteKeeps DEF Bits
  <1>8. CASE todo \in Open
    <2>1. todo # <<>>
      OBVIOUS
    <2>2. todo = enable_UART_interrupt => Head(todo) = csrs("mie", {"external"})
      BY DEF enable_UART_interrupt
    <2>3. todo = enable_timer_interrupt => Head(todo) = csrs("mie", {"timer"})
      BY DEF enable_timer_interrupt
    <2> QED BY <1>1, <1>2, <1>3, <1>4, <1>5, <1>6, <1>8, <2>1, <2>2, <2>3 DEF Open
  <1>9. CASE todo \in Late
    <2>1. todo = <<csrs("mie", {"external"}), csrs("mstatus", {"MIE"})>>
            => Head(todo) = csrs("mie", {"external"})
      OBVIOUS
    <2> QED BY <1>2, <1>4, <1>9, <2>1 DEF Late
  <1>10. CASE todo \in Early
    BY <1>1, <1>5, <1>10 DEF Early
  <1> QED BY <1>p, <1>5, <1>7, <1>8, <1>9, <1>10

-----------------------------------------------------------------------------
LEMMA NextInv == IInv /\ [Next]_vars => IInv'
  <1> SUFFICES ASSUME IInv, [Next]_vars PROVE IInv'
    OBVIOUS
  <1>1. CASE UNCHANGED vars
    BY <1>1 DEF vars, IInv, TypeOK, Place, Masked, Enabled, EnabledStaysOnIss,
                EnabledStays
  <1> QED BY <1>1, ExecInv, TrapInv, MretInv, CallInv DEF Next

LEMMA Invariance == Spec => []IInv
  BY InitInv, NextInv, PTL DEF Spec

\* The registers of both cores keep their types.
THEOREM TypeCorrect == Spec => []TypeOK
  <1>1. IInv => TypeOK
    BY DEF IInv
  <1> QED BY <1>1, Invariance, PTL

\* Neither the handler nor a critical section is interrupted, and main comes
\* back to its own code with interrupts on, on either core.
THEOREM SectionsCorrect == Spec => []SectionsHold
  <1>1. IInv => SectionsHold
    <2> SUFFICES ASSUME IInv PROVE SectionsHold
      OBVIOUS
    <2>1. todo = <<>> => todo \in Open \ {start}
      BY Shapes DEF Open
    <2> QED BY <2>1, PlaceOf DEF IInv, Masked, SectionsHold, Enabled
  <1> QED BY <1>1, Invariance, PTL

\* No trap before the vector is set and none for a source that main has not
\* switched on, on either core.
THEOREM TrapsCorrect == Spec => []TrapJustified
  <1>1. IInv => TrapJustified
    <2> SUFFICES ASSUME IInv, nesting > 0 PROVE TrapJustified
      BY DEF TrapJustified
    <2>1. nesting = 1 /\ csr.mcause \subseteq on
      BY DEF IInv, Masked
    <2>2. Enabled
      BY <2>1 DEF IInv, Place
    <2> QED BY <2>1, <2>2 DEF IInv, Masked, TrapJustified
  <1> QED BY <1>1, Invariance, PTL

\* The simulator never forgets an interrupt main has switched on.
THEOREM EnabledCorrect == Spec => []EnabledStaysOnIss
  <1>1. IInv => EnabledStaysOnIss
    BY DEF IInv
  <1> QED BY <1>1, Invariance, PTL
=============================================================================
