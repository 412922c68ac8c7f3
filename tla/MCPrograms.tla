----------------------------- MODULE MCPrograms -----------------------------
(***************************************************************************)
(* Programs for TLC: files with sections that share a word, leave a gap,   *)
(* have no image or end at the end of memory, damaged and cut files; small *)
(* games, from the opening or from positions where the rules bite.         *)
(***************************************************************************)
EXTENDS Programs

\* A section of n bytes at a; the file is too short for the last `short` of them.
Sec(a, n, type, short) ==
  [name |-> "", type |-> type, alloc |-> TRUE, addr |-> a, size |-> n,
   data |-> [i \in 1 .. n |-> (3 * i + a) % Base], held |-> n - short]
Text == Sec(2, 4, "PROGBITS", 0)
NameTable(name) == [Sec(0, 5, "STRTAB", 0) EXCEPT !.name = name, !.alloc = FALSE]
Names == NameTable(".strtab")
DynamicNames == NameTable(".dynstr")
Table(name, type, n, entries) ==
  [name |-> name, type |-> type, alloc |-> FALSE, addr |-> 0, size |-> n, data |-> <<>>,
   held |-> n, entsize |-> IF type \in {"SYMTAB", "DYNSYM"} THEN 16 ELSE 8, entries |-> entries]
Symbol(type) == [bind |-> "GLOBAL", type |-> type]
SymbolTable == Table(".symtab", "SYMTAB", 32, {Symbol("FUNC"), Symbol("OBJECT")})
DynamicTable(tag) == Table(".dynamic", "DYNAMIC", 8, {[tag |-> tag]})
DynamicSymbols == Table(".dynsym", "DYNSYM", 16, {Symbol("FUNC")})
Relocations(sym) == Table(".rel", "REL", 8, {[sym |-> sym]})

Segment(type, n, memsz, held) == [type |-> type, size |-> n, memsz |-> memsz, held |-> held]
MCFile(sections) ==
  [magic |-> TRUE, class |-> 32, versioned |-> TRUE, named |-> TRUE, entry |-> 2, sections |-> sections,
   entsize |-> [header |-> 52, segments |-> 32, sections |-> 40],
   segments |-> {Segment("LOAD", 8, 8, 8)}]
Layouts(short) ==
  {{Text, Sec(6, 3, "PROGBITS", short), Sec(10, 3, "NOBITS", 0)},
   {Text, Sec(8, 1, "PROGBITS", short), Sec(10, 2, "PROGBITS", 0)},
   {Text, Sec(6, 3, "PROGBITS", 0), Sec(9, 2, "PROGBITS", short)},
   {Text, Sec(10, 4, "PROGBITS", short)}}
MCMain == MCFile({Text, Names, SymbolTable, DynamicNames, DynamicSymbols,
                  DynamicTable("NULL"), Relocations(0)})
Damaged == {[MCMain EXCEPT !.magic = FALSE], [MCMain EXCEPT !.named = FALSE],
            [MCMain EXCEPT !.versioned = FALSE], [MCMain EXCEPT !.class = 64],
            [MCMain EXCEPT !.segments = {Segment("?", 8, 8, 8)}],
            [MCMain EXCEPT !.segments = {Segment("INTERP", 8, 8, 7)}],
            [MCMain EXCEPT !.segments = {Segment("INTERP", 8, 7, 8)}],
            MCFile({Text, Sec(6, 2, "?", 0)}),
            MCFile({Text, SymbolTable}),
            MCFile({Text, [Names EXCEPT !.held = 4], SymbolTable}),
            MCFile({Text, [Names EXCEPT !.size = 0, !.held = 0], SymbolTable}),
            MCFile({Text, Names, Table(".symtab", "SYMTAB", 32, {Symbol("FUNC"), Symbol("?")})}),
            MCFile({Text, Names, Table(".symtab", "SYMTAB", 24, {Symbol("FUNC")})}),
            MCFile({Text, DynamicSymbols}),
            MCFile({Text, DynamicTable("NULL")}),
            MCFile({Text, DynamicNames, DynamicTable("?")}),
            MCFile({Text, DynamicNames, DynamicSymbols, Relocations(1)})}
MCFiles == {MCMain, MCFile({Text, Sec(12, 4, "PROGBITS", 0)})} \cup Damaged
           \cup {MCFile(l) : l \in Layouts(0) \cup Layouts(1)}
           \cup {MCFile({Text, Table("", "RELA", 30, {})}),
                 [MCFile({Text}) EXCEPT !.class = 64,
                    !.entsize = [header |-> 64, segments |-> 56, sections |-> 64]]}

\* Positions of nine men's morris.
Opening(one, two, t, n) == [one |-> one, two |-> two, turn |-> t, plies |-> n]
MCOpenings ==
  { Opening({}, {}, 0, 2),
    Opening({<<0, 0>>, <<0, 3>>, <<1, 1>>}, {<<2, 2>>, <<2, 3>>, <<5, 5>>}, 6, 3),
    Opening({<<0, 0>>, <<0, 3>>, <<1, 5>>, <<3, 6>>}, {<<2, 2>>, <<2, 3>>, <<3, 4>>}, 18, 3),
    Opening({<<0, 0>>, <<0, 3>>, <<1, 5>>, <<3, 6>>}, {<<2, 2>>, <<2, 3>>, <<2, 4>>}, 18, 3),
    Opening({<<0, 0>>, <<0, 3>>, <<3, 6>>}, {<<2, 2>>, <<2, 3>>, <<3, 4>>}, 19, 3),
    Opening({<<0, 0>>, <<0, 3>>, <<0, 6>>, <<3, 0>>}, {<<1, 3>>, <<6, 0>>, <<3, 6>>, <<3, 1>>}, 18, 2) }

\* First all throws of five dice, in ascending order; then two that fit many roles.
MCRolls(t) ==
  IF t = 1 THEN {d \in [1 .. 5 -> 1 .. 6] : \A i \in 1 .. 4 : d[i] <= d[i + 1]}
  ELSE {<<2, 2, 2, 3, 3>>, <<1, 2, 3, 4, 5>>}
=============================================================================
