------------------------------ MODULE ElfFile ------------------------------
(***************************************************************************)
(* Reading an ELF file (ELFUtil.cpp): its header, the tables of segments,  *)
(* sections, symbols, dynamic symbols, dynamic entries and relocations,    *)
(* one after the other until one of them cannot be read.  Only when all    *)
(* can are the images of the sections read.                                *)
(*                                                                         *)
(* The host ends in the middle where an assertion fails (C2R_ASSERT), and *)
(* where a type or a machine it has no name for is printed.                *)
(*                                                                         *)
(* A file is a record: magic, class, versioned (byte order and version are *)
(* known), named (ABI, type and machine are known), entsize of the tables  *)
(* the header tells of, entry, segments, sections.  A section has name,    *)
(* type, alloc, addr, size, data, entsize, entries (the kinds of its       *)
(* entries, if it is a table), and held, the number of its bytes that the  *)
(* file is long enough for.  A kind the tables of names do not list is     *)
(* "?".  What is read from a table is printed, no more.                    *)
(***************************************************************************)
EXTENDS Integers, FiniteSets

Unknown == "?"

\* Sizes of a header, and of an entry of a table, in a file of 32 or 64 bits.
EntSize(class) ==
  IF class = 32
  THEN [header |-> 52, segments |-> 32, sections |-> 40,
        SYMTAB |-> 16, DYNSYM |-> 16, DYNAMIC |-> 8, REL |-> 8, RELA |-> 12]
  ELSE [header |-> 64, segments |-> 56, sections |-> 64,
        SYMTAB |-> 24, DYNSYM |-> 24, DYNAMIC |-> 16, REL |-> 16, RELA |-> 24]

\* Ehdr::Parse copies the header once it has seen its first bytes; else its fields
\* are what the stack held.
Recognized(f) == f.magic /\ f.class \in {32, 64}
HeaderParses(f) ==
  /\ Recognized(f) /\ f.versioned /\ f.named
  /\ \A t \in {"header", "sections", "segments"} : f.entsize[t] = EntSize(f.class)[t]
Entries(f, words) == IF Recognized(f) THEN {f.entry} ELSE words

\* PhdrTable::Parse: of the segments only the name of an interpreter is read.
Held(s) == s.held = s.size
SegmentsParse(f) ==
  \A s \in f.segments : s.type # Unknown /\ (s.type = "INTERP" => Held(s))

\* ShdrTable::Parse: the tables of names are read; the other tables are known by
\* their names and types.
TableOf(f, name, type) == {s \in f.sections : s.name = name /\ s.type = type}
NamesRead(f, names) == \A n \in names : \A s \in TableOf(f, n, "STRTAB") : Held(s)
SectionsParse(f) ==
  /\ \A s \in f.sections : s.type # Unknown
  /\ NamesRead(f, {".shstrtab", ".strtab", ".dynstr"})

\* Whole entries, all of them in the file.
EntriesRead(f, s) ==
  s.entsize = EntSize(f.class)[s.type] /\ s.size % s.entsize = 0 /\ Held(s)
\* SymTable::Parse: of known binding and type.  DynTable::Parse: of known tag.
SymbolsParse(f, s) == EntriesRead(f, s) /\ \A e \in s.entries : Unknown \notin {e.bind, e.type}
DynamicParses(f, s) == EntriesRead(f, s) /\ \A e \in s.entries : e.tag # Unknown

\* Info::Parse, up to the images.  Nobody asks whether the relocations were read.
Symbols(f) == TableOf(f, ".symtab", "SYMTAB")
DynamicSymbols(f) == TableOf(f, ".dynsym", "DYNSYM")
Dynamic(f) == TableOf(f, ".dynamic", "DYNAMIC")
SymbolsRead(f) == \A s \in Symbols(f) \cup DynamicSymbols(f) : SymbolsParse(f, s)
TablesParse(f) ==
  /\ HeaderParses(f) /\ SegmentsParse(f) /\ SectionsParse(f)
  /\ SymbolsRead(f) /\ \A s \in Dynamic(f) : DynamicParses(f, s)

\* The host ends at the header, the segments, the sections, or a table of symbols,
\* of dynamic entries or of relocations whose names or symbols are not there.
Nameless(f, name) == \A s \in TableOf(f, name, "STRTAB") : s.size = 0
SegmentsEnd(f) ==
  \E s \in f.segments : s.type = Unknown \/ (s.type = "INTERP" /\ s.size > s.memsz)
SectionsEnd(f) ==
  \/ \E s \in f.sections : s.type = Unknown
  \/ /\ NamesRead(f, {".shstrtab"})
     /\ Symbols(f) # {} /\ TableOf(f, ".strtab", "STRTAB") = {}
  \/ /\ NamesRead(f, {".shstrtab", ".strtab"})
     /\ DynamicSymbols(f) # {} /\ TableOf(f, ".dynstr", "STRTAB") = {}
TablesEnd(f) ==
  \/ Symbols(f) # {} /\ Nameless(f, ".strtab")
  \/ /\ \A s \in Symbols(f) : SymbolsParse(f, s)
     /\ DynamicSymbols(f) # {} /\ Nameless(f, ".dynstr")
  \/ SymbolsRead(f) /\ Dynamic(f) # {} /\ Nameless(f, ".dynstr")
RelocationsEnd(f) ==
  \E s \in f.sections, d \in DynamicSymbols(f) :
    /\ s.type \in {"REL", "RELA"} /\ EntriesRead(f, s) /\ d.size > 0
    /\ \E e \in s.entries : e.sym >= d.size \div d.entsize
Ends(f) ==
  \/ Recognized(f) /\ ~f.named
  \/ HeaderParses(f) /\ SegmentsEnd(f)
  \/ HeaderParses(f) /\ SegmentsParse(f) /\ SectionsEnd(f)
  \/ HeaderParses(f) /\ SegmentsParse(f) /\ SectionsParse(f) /\ TablesEnd(f)
  \/ TablesParse(f) /\ RelocationsEnd(f)

\* It may end where it uses what nobody has set: the header, or the name of a symbol.
MayEnd(f) ==
  \/ ~Recognized(f)
  \/ /\ HeaderParses(f) /\ SegmentsParse(f) /\ SectionsParse(f)
     /\ \E s \in Symbols(f) : s.entsize = EntSize(f.class).SYMTAB /\ ~SymbolsParse(f, s)
=============================================================================
