------------------------------ MODULE Loading ------------------------------
(***************************************************************************)
(* A program on its way to the processor: the host's InstallElf            *)
(* (ELFUtil.cpp) reads an ELF file, installs its sections in the memory of *)
(* the simulators, dumps them for the RTL, and writes a .bin file; the     *)
(* .bin goes over the serial line to the boot loader of the board          *)
(* (boot_rv32.c), which writes the words to memory, compares their number  *)
(* and sum, and jumps.  One word of the transfer may be disturbed.         *)
(***************************************************************************)
EXTENDS ElfFile, Sequences, SequencesExt, FiniteSetsExt

CONSTANTS
  Base,      \* values of a byte; 256 in the code
  WordBytes, \* wordByteNum
  MemBytes,  \* getTotalByteNum
  Files      \* the ELF files

Words == 0 .. Base ^ WordBytes - 1
Unset == -1

VARIABLES
  \* host: the file, sections in order of address, InstallMemory's flag, the
  \* simulator's memory, the words dumped, the .bin file
  file, order, flag, sim, dump, bin,
  \* line: words received, position of the word disturbed (0: none)
  next, hit,
  \* boot loader: control point, locals, memory of the board
  boot, entry_point, sections_left, addr, words_left, wordcount, checksum,
  r_wordcount, mem

hostvars == <<file, order, flag, sim, dump, bin>>
bootvars == <<next, hit, boot, entry_point, sections_left, addr, words_left,
              wordcount, checksum, r_wordcount, mem>>
vars == <<hostvars, bootvars>>

Cells == 0 .. MemBytes - 1
MemWords == 0 .. MemBytes \div WordBytes - 1
ByteOf(w, i) == (w \div Base ^ i) % Base
AlignUp(a) == ((a + WordBytes - 1) \div WordBytes) * WordBytes
WordOf(bytes) == FoldLeft(LAMBDA s, i : s + bytes[i] * Base ^ (i - 1), 0, [i \in 1 .. WordBytes |-> i])

-----------------------------------------------------------------------------
(* Host *)

\* CreateSections, by address alone: the images, until a section that ends past
\* the range of a word, or an image that the file is too short for.
Orders(f) ==
  LET alloc == IF TablesParse(f) THEN {s \in f.sections : s.alloc} ELSE {}
  IN {q \in SetToSeqs(alloc) : \A i, j \in 1 .. Len(q) : i < j => q[i].addr <= q[j].addr}
HasBits(s) == s.type # "NOBITS"
Outside(s) == s.addr + s.size >= Base ^ WordBytes
Stops(q) == {i \in 1 .. Len(q) : Outside(q[i]) \/ (HasBits(q[i]) /\ ~Held(q[i]))}
HasImage(q, i) == /\ HasBits(q[i]) /\ \A k \in Stops(q) : i <= k
                  /\ i \in Stops(q) => ~Outside(q[i])

\* An image is whole words of zeros; what the file holds is read into it.
Image(s) == [b \in 1 .. AlignUp(s.size) |-> IF b <= s.held THEN s.data[b] ELSE 0]

\* InstallMemory: a section that ends at the end of memory is refused, too.
Fits(s) == s.addr + s.size < MemBytes
Flag(q) == \A i \in 1 .. Len(q) : Fits(q[i])
SimMemory(q) ==
  FoldLeft(LAMBDA m, i :
             [a \in Cells |->
                IF ~Fits(q[i]) \/ a \notin q[i].addr .. q[i].addr + q[i].size - 1 THEN m[a]
                ELSE IF HasImage(q, i) THEN Image(q[i])[a - q[i].addr + 1] ELSE 0],
           [a \in Cells |-> 0], [i \in 1 .. Len(q) |-> i])

\* InstallSection and DumpFile: whole words, from the end of the section before.
InstallSection(q, i) ==
  LET first == Max({(q[i].addr \div WordBytes) * WordBytes}
                   \cup {AlignUp(q[i - 1].addr + q[i - 1].size) : k \in {i} \ {1}})
  IN (first \div WordBytes) .. (AlignUp(q[i].addr + q[i].size) \div WordBytes - 1)
Dump(q, memory) ==
  IF ~Flag(q) THEN {}
  ELSE {<<w, WordOf([i \in 1 .. WordBytes |-> memory[w * WordBytes + i - 1]])>> :
          w \in UNION {InstallSection(q, i) : i \in 1 .. Len(q)}}

\* BinFileWriter: entry, number of sections; address, size and words of each; the
\* number and the sum of these.
ImageWords(s) ==
  [k \in 1 .. AlignUp(s.size) \div WordBytes |->
     WordOf([b \in 1 .. WordBytes |-> Image(s)[(k - 1) * WordBytes + b]])]
Section(q, i) ==
  IF HasImage(q, i) THEN <<q[i].addr, q[i].size>> \o ImageWords(q[i]) ELSE <<q[i].addr, 0>>
Sum32(s) == FoldLeft(LAMBDA x, y : (x + y) % Base ^ WordBytes, 0, s)
Bin(entry, q) ==
  LET body == <<entry, Len(q)>>
              \o FlattenSeq([i \in 1 .. Len(q) |-> Section(q, i)])
  IN body \o <<Len(body), Sum32(body)>>

\* InstallElf goes on whether Info::Parse succeeds or not.  A host that ends in it
\* installs nothing and writes no .bin file.
Install(f, q) ==
  \/ /\ ~Ends(f)
     /\ flag = Flag(q) /\ sim = SimMemory(q) /\ dump = Dump(q, sim)
     /\ \E entry \in Entries(f, Words) : bin = Bin(entry, q)
  \/ /\ Ends(f) \/ MayEnd(f)
     /\ flag = FALSE /\ sim = SimMemory(<<>>) /\ dump = {} /\ bin = <<>>

Init ==
  /\ file \in Files
  /\ order \in Orders(file)
  /\ Install(file, order)
  /\ next = 0 /\ hit = 0 /\ boot = "entry" /\ entry_point = 0 /\ sections_left = 0
  /\ addr = 0 /\ words_left = 0 /\ wordcount = 0 /\ checksum = 0 /\ r_wordcount = 0
  /\ mem = [w \in MemWords |-> Unset]

-----------------------------------------------------------------------------
(* Boot loader *)

\* getint at one point of main: the next word of the file, or a word disturbed.
getint(at, w) ==
  /\ boot = at /\ next < Len(bin)
  /\ next' = next + 1
  /\ w \in (IF hit = 0 THEN Words ELSE {bin[next + 1]})
  /\ hit' = (IF w = bin[next + 1] THEN hit ELSE next + 1)
  /\ UNCHANGED hostvars

Counted(w) == /\ wordcount' = (wordcount + 1) % Base ^ WordBytes
              /\ checksum' = (checksum + w) % Base ^ WordBytes

ReadEntry == \E w \in Words :
  /\ getint("entry", w) /\ Counted(w)
  /\ boot' = "count" /\ entry_point' = w
  /\ UNCHANGED <<sections_left, addr, words_left, r_wordcount, mem>>

\* The head of the loop over the sections.
ForSection(n) == IF n = 0 THEN "wordcount" ELSE "addr"
ReadCount == \E w \in Words :
  /\ getint("count", w) /\ Counted(w)
  /\ boot' = ForSection(w) /\ sections_left' = w
  /\ UNCHANGED <<entry_point, addr, words_left, r_wordcount, mem>>
ReadAddr == \E w \in Words :
  /\ getint("addr", w) /\ Counted(w)
  /\ boot' = "size" /\ addr' = w
  /\ UNCHANGED <<entry_point, sections_left, words_left, r_wordcount, mem>>

\* The loop over the words of a section; size is signed.
ForWord(left) == IF left > 0 THEN "data" ELSE ForSection(sections_left')
ReadSize == \E w \in Words :
  /\ getint("size", w) /\ Counted(w)
  /\ words_left' = IF 2 * w >= Base ^ WordBytes THEN 0 ELSE AlignUp(w) \div WordBytes
  /\ sections_left' = IF words_left' = 0 THEN sections_left - 1 ELSE sections_left
  /\ boot' = ForWord(words_left')
  /\ UNCHANGED <<entry_point, addr, r_wordcount, mem>>

ReadData == \E w \in Words :
  /\ getint("data", w) /\ Counted(w)
  /\ mem' = [a \in MemWords |-> IF a = addr \div WordBytes THEN w ELSE mem[a]]
  /\ addr' = addr + WordBytes
  /\ words_left' = words_left - 1
  /\ sections_left' = IF words_left' = 0 THEN sections_left - 1 ELSE sections_left
  /\ boot' = ForWord(words_left')
  /\ UNCHANGED <<entry_point, r_wordcount>>

ReadWordcount == \E w \in Words :
  /\ getint("wordcount", w) /\ r_wordcount' = w /\ boot' = "checksum"
  /\ UNCHANGED <<entry_point, sections_left, addr, words_left, wordcount, checksum, mem>>

\* Mutation of ReadChecksum: only the number of words is compared.
ReadChecksumCountOnly == \E w \in Words :
  /\ getint("checksum", w)
  /\ boot' = IF wordcount = r_wordcount THEN "key" ELSE "failed"
  /\ UNCHANGED <<entry_point, sections_left, addr, words_left, wordcount, checksum,
                 r_wordcount, mem>>

\* Number and sum are compared once the trailer is in.
ReadChecksum == \E w \in Words :
  /\ getint("checksum", w)
  /\ boot' = IF wordcount = r_wordcount /\ checksum = w THEN "key" ELSE "failed"
  /\ UNCHANGED <<entry_point, sections_left, addr, words_left, wordcount, checksum,
                 r_wordcount, mem>>

\* A key is pressed: jr entry_point.
Jump ==
  /\ boot = "key" /\ boot' = "run"
  /\ UNCHANGED <<hostvars, next, hit, entry_point, sections_left, addr, words_left,
                 wordcount, checksum, r_wordcount, mem>>

Next == \/ ReadEntry \/ ReadCount \/ ReadAddr \/ ReadSize \/ ReadData
        \/ ReadWordcount \/ ReadChecksum \/ Jump

Spec == Init /\ [][Next]_vars

-----------------------------------------------------------------------------
\* Type correctness.
TypeOK ==
  /\ file \in Files /\ flag \in BOOLEAN /\ next \in 0 .. Len(bin) /\ hit \in 0 .. Len(bin)
  /\ {entry_point, sections_left, words_left, wordcount, checksum, r_wordcount} \subseteq Words
  /\ addr \in 0 .. 2 * Base ^ WordBytes
  /\ mem \in [MemWords -> Words \cup {Unset}]
  /\ boot \in {"entry", "count", "addr", "size", "data", "wordcount", "checksum",
               "key", "failed", "run"}

\* What the host has read of a file is what runs, whether it could read all of it or
\* gave up: every section is, byte by byte, in the simulator's memory and in the dump
\* for the RTL, zeros where its image was not read; and the words of every section
\* that has an image are in the board's memory, once the boot loader jumps, from the
\* beginning of the word that the section begins in.  So the three agree where sections
\* begin at words; a section that begins in mid-word is out of place on the board,
\* and its words are written over those of a section before it that ends there.
\* A single disturbed word is not run, unless it was the number or a size of sections:
\* then the loader may take a word of the file for the trailer.
Structural == hit = 2 \/ \E i \in 1 .. Len(order) :
                hit = 4 + Len(FlattenSeq([k \in 1 .. i - 1 |-> Section(order, k)]))
ByteRead(k, i) ==
  IF HasImage(order, k) /\ i <= order[k].held THEN order[k].data[i] ELSE 0
Installed ==
  \A k \in 1 .. Len(order) : \A i \in 1 .. order[k].size :
    LET a == order[k].addr + i - 1
    IN /\ sim[a] = ByteRead(k, i)
       /\ \E d \in dump : d[1] = a \div WordBytes /\ ByteOf(d[2], a % WordBytes) = ByteRead(k, i)
WordOfByte(k, i) == order[k].addr \div WordBytes + (i - 1) \div WordBytes
Overwritten(k, i) ==
  \E later \in k + 1 .. Len(order) :
    /\ HasImage(order, later)
    /\ \E j \in 1 .. order[later].size : WordOfByte(later, j) = WordOfByte(k, i)
Loaded ==
  /\ Recognized(file) => entry_point = file.entry
  /\ \A k \in 1 .. Len(order) : \A i \in 1 .. order[k].size :
       LET w == mem[WordOfByte(k, i)]
       IN \/ ~HasImage(order, k) \/ Overwritten(k, i)
          \/ w # Unset /\ ByteOf(w, (i - 1) % WordBytes) = ByteRead(k, i)
LoadedWhole ==
  /\ flag => Installed
  /\ boot \in {"key", "run"} /\ ~Structural => Loaded /\ hit = 0
=============================================================================
