--------------------------------- MODULE QarImage --------------------------------
(***************************************************************************)
(* The image tools: devkit/tools/elf2qar turns an ELF file into            *)
(* program.hex and data.hex, devkit/tools/qhex turns program.hex into the  *)
(* raw binary a loader takes.  A developer runs them in any order, on one  *)
(* directory, and may interrupt them; the disk may fill up.  A line of a   *)
(* hex file is the bytes of a word, most significant first; in a file that *)
(* is written by hand it may also be empty, or no number at all.           *)
(***************************************************************************)
EXTENDS Integers, Sequences

CONSTANTS
  Byte,           \* 0 among them
  WordSize,       \* 4
  Words,          \* imem_words and dmem_words, by memory
  DATA_BASE,      \* 0x20000000
  Elfs,           \* the ELF files there are
  Hexes,          \* the program.hex there may be before
  NoElf,
  Junk,           \* what is no hexadecimal number
  MaxRuns         \* bound: runs of the tools

Memory == {"program", "data"}
File == Memory \cup {"bin"}
Bytes(m) == Words[m] * WordSize

\* data is what the file holds of the segment; a file is shorter than 512 MiB, and so
\* addr + len does not wrap in 32 bits.
Segment == [load: BOOLEAN, addr: Nat, data: Seq(Byte), readable: BOOLEAN]
ElfFile == [header: BOOLEAN, phnum: Nat, segs: Seq(Segment)]

ASSUME ImageAssumption ==
  /\ WordSize \in Nat \ {0} /\ 0 \in Byte /\ Byte \subseteq Nat
  /\ Words \in [Memory -> Nat] /\ DATA_BASE \in Nat
  /\ \A e \in Elfs : e \in ElfFile /\ NoElf # e
  /\ \A h \in Hexes : h \in Seq(Seq(Byte) \cup {<<Junk>>})
  /\ MaxRuns \in Nat

VARIABLES
  stage,          \* "idle" between runs, or what the running tool is doing
  elf,
  i,              \* program headers, words or lines the tool is through with
  images,         \* imem.buffer and dmem.buffer
  words,          \* buf.words of qhex
  files,          \* the hex files and the binary
  full,           \* the disk has filled up in this run
  made,           \* history: the ELF file that a file was last opened for
  whole,          \* history: the files closed with nothing lost since they were opened
  runs

imageVars == <<stage, elf, i, images, words, files, full, made, whole, runs>>

--------------------------------------------------------------------------------
(* What a file should hold *)

MemoryOf(s) == IF s.addr < DATA_BASE THEN "program" ELSE "data"
Offset(s) == IF s.addr < DATA_BASE THEN s.addr ELSE s.addr - DATA_BASE

\* mutant of Fits: the last byte is not counted
FitsButLast(s) == Offset(s) + Len(s.data) - 1 <= Bytes(MemoryOf(s))

Fits(s) == Offset(s) + Len(s.data) <= Bytes(MemoryOf(s))

Covers(s, m, a) ==
  s.load /\ MemoryOf(s) = m /\ Offset(s) + Len(s.data) <= Bytes(m)
    /\ Offset(s) <= a /\ a < Offset(s) + Len(s.data)

LastOf(S) == CHOOSE j \in S : \A k \in S : k <= j

\* The memories after n program headers: of the segments that cover a byte and lie
\* within their memory the last one gives its value.
Image(e, n) ==
  [m \in Memory |-> [a \in 0 .. Bytes(m) - 1 |->
     LET S == {j \in 1 .. n : Covers(e.segs[j], m, a)} IN
     IF S = {} THEN 0 ELSE e.segs[LastOf(S)].data[a - Offset(e.segs[LastOf(S)]) + 1]]]

MemoryWord(image, w) == [k \in 1 .. WordSize |-> image[(w - 1) * WordSize + k - 1]]

--------------------------------------------------------------------------------
(* The tools *)

ImageInit ==
  /\ stage = "idle" /\ elf = NoElf /\ i = 0
  /\ images = [m \in Memory |-> [a \in 0 .. Bytes(m) - 1 |-> 0]] /\ words = <<>>
  /\ \E h \in Hexes : files = [program |-> h, data |-> <<>>, bin |-> <<>>]
  /\ full = FALSE /\ made = [f \in File |-> NoElf] /\ whole = {} /\ runs = 0

\* mutant of image_store: the first segment wins
image_store_once(image, s) ==
  [a \in DOMAIN image |->
     IF Fits(s) /\ Offset(s) <= a /\ a < Offset(s) + Len(s.data) /\ image[a] = 0
     THEN s.data[a - Offset(s) + 1] ELSE image[a]]

\* A segment that does not lie within its memory is left out in silence.
image_store(image, s) ==
  IF ~Fits(s) THEN image
  ELSE [a \in DOMAIN image |->
          IF Offset(s) <= a /\ a < Offset(s) + Len(s.data)
          THEN s.data[a - Offset(s) + 1] ELSE image[a]]

\* What is left of a file whose buffer was lost: fewer lines, the last one cut perhaps.
Remains(f) ==
  {SubSeq(f, 1, k) : k \in 0 .. Len(f)}
    \cup UNION {{Append(SubSeq(f, 1, k), SubSeq(f[k + 1], 1, c)) : c \in 1 .. Len(f[k + 1]) - 1} :
                 k \in 0 .. Len(f) - 1}

\* fopen(path, "w")
Open(f, origin) ==
  /\ stage' = f /\ i' = 0
  /\ files' = [files EXCEPT ![f] = <<>>]
  /\ made' = [made EXCEPT ![f] = origin] /\ whole' = whole \ {f}

\* fprintf and fwrite to a buffer: when the disk is full what it holds is lost, and all
\* that comes after.
Write(f, line) ==
  \/ ~full /\ files' = [files EXCEPT ![f] = Append(@, line)] /\ full' = FALSE
  \/ ~full /\ full' = TRUE
       /\ \E r \in Remains(Append(files[f], line)) : files' = [files EXCEPT ![f] = r]
  \/ full /\ UNCHANGED <<files, full>>

Close(f) == whole' = IF full THEN whole ELSE whole \cup {f}

\* A file that cannot be opened or read, memory that is not there, a line that is no word:
\* the tool gives up, and has not written yet.
Fail ==
  /\ stage \in {"headers", "lines"} /\ stage' = "idle"
  /\ UNCHANGED <<elf, i, images, words, files, full, made, whole, runs>>

\* The developer interrupts a tool.
Kill ==
  /\ stage # "idle" /\ stage' = "idle"
  /\ IF stage \in File THEN \E r \in Remains(files[stage]) : files' = [files EXCEPT ![stage] = r]
     ELSE UNCHANGED files
  /\ UNCHANGED <<elf, i, images, words, full, made, whole, runs>>

\* The header is that of a 32-bit RISC-V file, and both images are allocated.
StartElf2qar(e) ==
  /\ stage = "idle" /\ runs < MaxRuns /\ e.header
  /\ stage' = "headers" /\ elf' = e /\ i' = 0 /\ full' = FALSE /\ runs' = runs + 1
  /\ images' = [m \in Memory |-> [a \in 0 .. Bytes(m) - 1 |-> 0]]
  /\ UNCHANGED <<words, files, made, whole>>

\* A header that cannot be read, nor its segment, is a failure.
ReadHeader ==
  /\ stage = "headers" /\ i < elf.phnum /\ i < Len(elf.segs)
  /\ LET s == elf.segs[i + 1] IN
       /\ s.load /\ s.data # <<>> => s.readable
       /\ images' = IF s.load /\ s.data # <<>>
                    THEN [images EXCEPT ![MemoryOf(s)] = image_store(@, s)] ELSE images
  /\ i' = i + 1
  /\ UNCHANGED <<stage, elf, words, files, full, made, whole, runs>>

OpenProgram ==
  /\ stage = "headers" /\ i = elf.phnum
  /\ Open("program", elf)
  /\ UNCHANGED <<elf, images, words, full, runs>>

\* mutant of word_of: the most significant byte first
word_of_big(image, w) == [k \in 1 .. WordSize |-> image[(w - 1) * WordSize + k - 1]]

\* buffer[offset] | buffer[offset + 1] << 8 | ..., printed with %08x
word_of(image, w) == [k \in 1 .. WordSize |-> image[w * WordSize - k]]

image_write_hex(m) ==
  /\ stage = m /\ i < Words[m]
  /\ Write(m, word_of(images[m], i + 1)) /\ i' = i + 1
  /\ UNCHANGED <<stage, elf, images, words, made, whole, runs>>

CloseProgram ==
  /\ stage = "program" /\ i = Words["program"] /\ Close("program")
  /\ stage' \in {"idle", "second"}     \* the second file cannot be opened, or it can
  /\ UNCHANGED <<elf, i, images, words, files, full, made, runs>>

OpenData ==
  /\ stage = "second" /\ Open("data", elf)
  /\ UNCHANGED <<elf, images, words, full, runs>>

CloseData ==
  /\ stage = "data" /\ i = Words["data"] /\ Close("data") /\ stage' = "idle"
  /\ UNCHANGED <<elf, i, images, words, files, full, made, runs>>

StartQhex ==
  /\ stage = "idle" /\ runs < MaxRuns
  /\ stage' = "lines" /\ i' = 0 /\ words' = <<>> /\ full' = FALSE /\ runs' = runs + 1
  /\ UNCHANGED <<elf, images, files, made, whole>>

\* sscanf(trim, "%x", &value): the bytes of the value, least significant first
ValueOf(line) ==
  [k \in 1 .. WordSize |-> IF k <= Len(line) THEN line[Len(line) + 1 - k] ELSE 0]

\* A line that is no word is a failure.
ReadLine ==
  /\ stage = "lines" /\ i < Len(files["program"]) /\ files["program"][i + 1] # <<Junk>>
  /\ words' = IF files["program"][i + 1] = <<>> THEN words
              ELSE Append(words, ValueOf(files["program"][i + 1]))
  /\ i' = i + 1
  /\ UNCHANGED <<stage, elf, images, files, full, made, whole, runs>>

\* The statistics are printed; then --bin, if it is given.
OpenBin ==
  /\ stage = "lines" /\ i = Len(files["program"])
  /\ Open("bin", IF "program" \in whole THEN made["program"] ELSE NoElf)
  /\ UNCHANGED <<elf, images, words, full, runs>>

write_binary ==
  /\ stage = "bin" /\ i < Len(words)
  /\ Write("bin", words[i + 1]) /\ i' = i + 1
  /\ UNCHANGED <<stage, elf, images, words, made, whole, runs>>

\* fwrite may tell that the disk is full, or find room in its buffer still.
CloseBin ==
  /\ stage = "bin" /\ (i = Len(words) \/ full) /\ Close("bin") /\ stage' = "idle"
  /\ UNCHANGED <<elf, i, images, words, files, full, made, runs>>
ImageNext ==
  \/ \E e \in Elfs : StartElf2qar(e)
  \/ ReadHeader \/ OpenProgram \/ CloseProgram \/ OpenData \/ CloseData
  \/ \E m \in Memory : image_write_hex(m)
  \/ StartQhex \/ ReadLine \/ OpenBin \/ write_binary \/ CloseBin
  \/ Fail \/ Kill

ImageSpec == ImageInit /\ [][ImageNext]_imageVars

--------------------------------------------------------------------------------
(* Properties *)

MemoryOfElf(m, e) == Image(e, e.phnum)[m]

\* A hex file that was written and closed with nothing lost holds the memory its ELF file
\* describes, whatever overlaps, gaps and segments without a place, and whatever older,
\* failed or interrupted runs have left: as many lines as the memory has words, each with
\* the value a little-endian processor reads there.
HexIsImage ==
  \A m \in Memory \cap whole :
    /\ Len(files[m]) = Words[m]
    /\ \A w \in 1 .. Words[m] :
         ValueOf(files[m][w]) = MemoryWord(MemoryOfElf(m, made[m]), w)

\* A full disk and an interrupt only cut a hex file short: every line there is is the line
\* of its word, the last one perhaps without its end.
HexOnlyCut ==
  \A m \in Memory : made[m] # NoElf =>
    /\ Len(files[m]) <= Words[m]
    /\ \A w \in 1 .. Len(files[m]) :
         /\ w < Len(files[m]) => Len(files[m][w]) = WordSize
         /\ \A k \in 1 .. Len(files[m][w]) :
              files[m][w][k] = MemoryOfElf(m, made[m])[w * WordSize - k]

\* The two tools together: a binary that was written and closed with nothing lost, from a
\* program.hex that was, is the instruction memory of the ELF file byte by byte.
BinaryIsImage ==
  "bin" \in whole /\ made["bin"] # NoElf =>
    files["bin"] = [w \in 1 .. Words["program"] |->
                      MemoryWord(MemoryOfElf("program", made["bin"]), w)]

\* program.hex and data.hex come from one ELF file.  The code does not promise it and does
\* not keep it; no run checks it (see the README).
PairOfOneElf == stage = "idle" /\ made["data"] # NoElf => made["program"] = made["data"]
================================================================================
