------------------------------ MODULE QarImage_proofs ----------------------------
(***************************************************************************)
(* What the image tools write is what the ELF file describes, for all      *)
(* files, memory sizes and word sizes.  ImageStep is the heart: one more   *)
(* header in image_store's order is one more in the order of Image.        *)
(***************************************************************************)
EXTENDS QarImage, SequenceTheorems, TLAPS

Covering(e, n, m, a) == {j \in 1 .. n : Covers(e.segs[j], m, a)}

\* Of some headers the last one is the one that none follows.
LEMMA LastIsLast ==
  ASSUME NEW n \in Nat, NEW S \in SUBSET (1 .. n), n \in S
  PROVE  LastOf(S) = n
  <1>1. \A k \in S : k <= n
    OBVIOUS
  <1>2. LastOf(S) \in S /\ \A k \in S : k <= LastOf(S)
    BY <1>1, Zenon DEF LastOf
  <1> QED
    <2> DEFINE l == LastOf(S)
    <2>1. l \in S /\ n <= l
      BY <1>2
    <2>2. l \in 1 .. n
      BY <2>1
    <2> HIDE DEF l
    <2>3. l = n
      BY <2>1, <2>2
    <2> QED
      BY <2>3 DEF l

\* Images are equal when their bytes are.
Shaped(x) == x = [m \in Memory |-> [a \in 0 .. Bytes(m) - 1 |-> x[m][a]]]

\* Two images with the same bytes are one.
LEMMA SameImages ==
  ASSUME NEW x, NEW y, Shaped(x), Shaped(y),
         \A m \in Memory : \A a \in 0 .. Bytes(m) - 1 : x[m][a] = y[m][a]
  PROVE  x = y
  <1>1. \A m \in Memory :
          [a \in 0 .. Bytes(m) - 1 |-> x[m][a]] = [a \in 0 .. Bytes(m) - 1 |-> y[m][a]]
    OBVIOUS
  <1>2. [m \in Memory |-> [a \in 0 .. Bytes(m) - 1 |-> x[m][a]]]
          = [m \in Memory |-> [a \in 0 .. Bytes(m) - 1 |-> y[m][a]]]
    BY <1>1
  <1> QED
    BY <1>2 DEF Shaped

\* Image is an image.
LEMMA ImageShaped ==
  ASSUME NEW e, NEW n
  PROVE  Shaped(Image(e, n))
  BY DEF Shaped, Image

\* A header that is loaded changes the bytes it covers and no other.
LEMMA ImageStep ==
  ASSUME NEW e \in Elfs, NEW n \in Nat, n < Len(e.segs)
  PROVE  LET s == e.segs[n + 1] IN
         Image(e, n + 1) = IF s.load /\ s.data # <<>>
                           THEN [Image(e, n) EXCEPT ![MemoryOf(s)] = image_store(@, s)]
                           ELSE Image(e, n)
  <1> DEFINE s == e.segs[n + 1]
             loaded == s.load /\ s.data # <<>>
             before(m, a) == Image(e, n)[m][a]
             after(m, a) == Image(e, n + 1)[m][a]
             stored == [Image(e, n) EXCEPT ![MemoryOf(s)] = image_store(@, s)]
  <1>1. /\ e.segs \in Seq(Segment) /\ s \in Segment
        /\ s.addr \in Nat /\ Len(s.data) \in Nat /\ s.data \in Seq(Byte)
        /\ Offset(s) \in Nat
        /\ \A m \in Memory : Bytes(m) \in Nat
        /\ MemoryOf(s) \in Memory
    <2>0. e.segs \in Seq(Segment)
      BY ImageAssumption DEF ElfFile
    <2>1. s \in Segment
      BY <2>0
    <2>3. s.addr \in Nat /\ s.data \in Seq(Byte)
      BY <2>1 DEF Segment
    <2>4. Len(s.data) \in Nat
      BY <2>3
    <2>2. \A m \in Memory : Bytes(m) \in Nat
      BY ImageAssumption DEF Bytes
    <2> QED
      BY <2>0, <2>1, <2>2, <2>3, <2>4, ImageAssumption DEF Offset, MemoryOf, Memory
  <1>2. ASSUME NEW m \in Memory, NEW a \in 0 .. Bytes(m) - 1, Covers(s, m, a)
        PROVE  after(m, a) = s.data[a - Offset(s) + 1]
    <2> DEFINE S == Covering(e, n + 1, m, a)
    <2>1. S \in SUBSET (1 .. n + 1) /\ n + 1 \in S
      BY <1>2 DEF Covering
    <2>2. LastOf(S) = n + 1
      BY <2>1, LastIsLast
    <2>3. after(m, a) = IF S = {} THEN 0 ELSE e.segs[LastOf(S)].data[a - Offset(e.segs[LastOf(S)]) + 1]
      BY <1>2 DEF Image, Covering
    <2> QED
      BY <2>1, <2>2, <2>3
  <1>3. ASSUME NEW m \in Memory, NEW a \in 0 .. Bytes(m) - 1, ~Covers(s, m, a)
        PROVE  after(m, a) = before(m, a)
    <2>1. Covering(e, n + 1, m, a) = Covering(e, n, m, a)
      BY <1>3 DEF Covering
    <2> QED
      BY <2>1 DEF Image, Covering
  <1>4. CASE ~loaded
    <2>1. \A m \in Memory, a \in Int : ~Covers(s, m, a)
      BY <1>1, <1>4 DEF Covers
    <2>2. \A m \in Memory : \A a \in 0 .. Bytes(m) - 1 : after(m, a) = before(m, a)
      BY <1>1, <1>3, <2>1
    <2>3. Image(e, n + 1) = Image(e, n)
      BY <2>2, ImageShaped, SameImages
    <2> QED
      BY <1>4, <2>3
  <1>5. CASE loaded
    <2>1. ASSUME NEW m \in Memory, NEW a \in 0 .. Bytes(m) - 1
          PROVE  after(m, a) = stored[m][a]
      <3>1. CASE Covers(s, m, a)
        <4>1. Fits(s) /\ m = MemoryOf(s) /\ Offset(s) <= a /\ a < Offset(s) + Len(s.data)
          BY <3>1 DEF Covers, Fits
        <4>2. stored[m] = image_store(Image(e, n)[m], s) /\ a \in DOMAIN Image(e, n)[m]
          BY <4>1 DEF Image
        <4> QED
          BY <1>2, <3>1, <4>1, <4>2 DEF image_store
      <3>2. CASE ~Covers(s, m, a)
        <4>1. CASE m # MemoryOf(s)
          BY <1>3, <3>2, <4>1 DEF Image
        <4>2. CASE m = MemoryOf(s) /\ ~Fits(s)
          <5>1. stored[m] = Image(e, n)[m]
            BY <4>2 DEF Image, image_store
          <5> QED
            BY <1>3, <3>2, <5>1
        <4>3. CASE m = MemoryOf(s) /\ Fits(s)
          <5>1. ~(Offset(s) <= a /\ a < Offset(s) + Len(s.data))
            BY <1>5, <3>2, <4>3 DEF Covers, Fits
          <5>2. stored[m] = image_store(Image(e, n)[m], s) /\ a \in DOMAIN Image(e, n)[m]
            BY <4>3 DEF Image
          <5> QED
            BY <1>3, <3>2, <4>3, <5>1, <5>2 DEF image_store
        <4> QED
          BY <4>1, <4>2, <4>3
      <3> QED
        BY <3>1, <3>2
    <2>2. \A m \in Memory : stored[m] = [a \in 0 .. Bytes(m) - 1 |-> stored[m][a]]
      BY <1>1 DEF Image, image_store
    <2>3. stored = [m \in Memory |-> stored[m]]
      BY DEF Image
    <2>4. Shaped(stored)
      <3> HIDE DEF stored
      <3>1. [m \in Memory |-> stored[m]] = [m \in Memory |-> [a \in 0 .. Bytes(m) - 1 |-> stored[m][a]]]
        BY <2>2
      <3> QED
        BY <2>3, <3>1 DEF Shaped
    <2>5. stored = Image(e, n + 1)
      <3> HIDE DEF stored
      <3> QED
        BY <2>1, <2>4, ImageShaped, SameImages
    <2> QED
      BY <1>5, <2>5
  <1> QED
    BY <1>4, <1>5

--------------------------------------------------------------------------------
(* The inductive invariant *)

Text == Seq(Seq(Byte \cup {Junk}))

ImageTypeOK ==
  /\ stage \in {"idle", "headers", "second", "lines"} \cup File
  /\ elf \in Elfs \cup {NoElf}
  /\ i \in Nat
  /\ Shaped(images) /\ \A m \in Memory : \A a \in 0 .. Bytes(m) - 1 : images[m][a] \in Byte
  /\ words \in Text
  /\ files \in [File -> Text]
  /\ full \in BOOLEAN
  /\ made \in [File -> Elfs \cup {NoElf}]
  /\ whole \subseteq File

\* The first n lines of m's file for e
Written(f, m, n, e) ==
  Len(f) = n /\ \A w \in 1 .. n : f[w] = word_of(MemoryOfElf(m, e), w)

\* The words of a program for e
Read(ws, n, e) ==
  Len(ws) = n /\ \A w \in 1 .. n : ws[w] = MemoryWord(MemoryOfElf("program", e), w)

CutOf(f, m, e) ==
  /\ Len(f) <= Words[m]
  /\ \A w \in 1 .. Len(f) :
       /\ w < Len(f) => Len(f[w]) = WordSize
       /\ \A k \in 1 .. Len(f[w]) : f[w][k] = MemoryOfElf(m, e)[w * WordSize - k]

Converting ==
  /\ stage \in {"headers", "second"} \cup Memory => elf \in Elfs
  /\ stage = "headers" => i <= Len(elf.segs) /\ images = Image(elf, i)
  /\ stage \in {"second"} \cup Memory => images = Image(elf, elf.phnum)

Writing ==
  \A m \in Memory : stage = m =>
    /\ i <= Words[m] /\ m \notin whole /\ made[m] = elf
    /\ ~full => Written(files[m], m, i, elf)

Closed ==
  \A m \in Memory \cap whole : made[m] \in Elfs /\ Written(files[m], m, Words[m], made[m])

OnlyCut == \A m \in Memory : made[m] # NoElf => CutOf(files[m], m, made[m])

Reading ==
  stage = "lines" =>
    /\ i <= Len(files["program"])
    /\ "program" \in whole => Read(words, i, made["program"])

Binary ==
  /\ stage = "bin" =>
       /\ i <= Len(words) /\ "bin" \notin whole
       /\ made["bin"] # NoElf => Read(words, Words["program"], made["bin"])
       /\ ~full => Len(files["bin"]) = i /\ \A w \in 1 .. i : files["bin"][w] = words[w]
  /\ "bin" \in whole /\ made["bin"] # NoElf => Read(files["bin"], Words["program"], made["bin"])

IInv == ImageTypeOK /\ Converting /\ Writing /\ Closed /\ OnlyCut /\ Reading /\ Binary

--------------------------------------------------------------------------------
(* Lines and what is left of them *)

\* A whole line has the value of its word.
LEMMA LineValue ==
  ASSUME NEW image, NEW w \in Nat
  PROVE  ValueOf(word_of(image, w)) = MemoryWord(image, w)
  <1>1. WordSize \in Nat \ {0} /\ w * WordSize \in Int
    BY ImageAssumption
  <1>2. Len(word_of(image, w)) = WordSize
    BY <1>1 DEF word_of
  <1>3. (w - 1) * WordSize = w * WordSize - WordSize
    BY <1>1
  <1>4. ASSUME NEW k \in 1 .. WordSize
        PROVE  ValueOf(word_of(image, w))[k] = MemoryWord(image, w)[k]
    <2>1. w * WordSize - (WordSize + 1 - k) = (w - 1) * WordSize + k - 1
      BY <1>1, <1>3
    <2>2. WordSize + 1 - k \in 1 .. WordSize
      BY <1>1
    <2> QED
      BY <1>1, <1>2, <2>1, <2>2 DEF ValueOf, MemoryWord, word_of
  <1> QED
    BY <1>4 DEF ValueOf, MemoryWord

\* A file that was written line by line is only cut, not wrong.
LEMMA WrittenIsCut ==
  ASSUME NEW f \in Text, NEW m \in Memory, NEW n \in Nat, n <= Words[m], NEW e,
         Written(f, m, n, e)
  PROVE  CutOf(f, m, e)
  <1>1. WordSize \in Nat \ {0}
    BY ImageAssumption
  <1>2. \A w \in 1 .. n : Len(f[w]) = WordSize /\ \A k \in 1 .. WordSize :
          f[w][k] = MemoryOfElf(m, e)[w * WordSize - k]
    BY <1>1 DEF Written, word_of
  <1> QED
    BY <1>1, <1>2 DEF Written, CutOf

\* What remains of a file is a file, and no more wrong than the file was.
LEMMA RemainsAreCut ==
  ASSUME NEW f \in Text, NEW r \in Remains(f)
  PROVE  /\ r \in Text
         /\ \A m \in Memory, e \in Elfs \cup {NoElf} : CutOf(f, m, e) => CutOf(r, m, e)
  <1>1. WordSize \in Nat \ {0} /\ \A m \in Memory : Words[m] \in Nat
    BY ImageAssumption
  <1>2. CASE \E k \in 0 .. Len(f) : r = SubSeq(f, 1, k)
    <2> PICK k \in 0 .. Len(f) : r = SubSeq(f, 1, k)
      BY <1>2
    <2>1. r \in Text
      BY DEF Text
    <2>2. Len(r) = k /\ k <= Len(f) /\ \A w \in 1 .. k : r[w] = f[w]
      BY DEF Text
    <2>3. ASSUME NEW m \in Memory, NEW e, CutOf(f, m, e)
          PROVE  CutOf(r, m, e)
      <3>1. Len(r) <= Words[m]
        BY <1>1, <2>2, <2>3 DEF CutOf, Text
      <3>2. ASSUME NEW w \in 1 .. Len(r)
            PROVE  /\ w < Len(r) => Len(r[w]) = WordSize
                   /\ \A j \in 1 .. Len(r[w]) : r[w][j] = MemoryOfElf(m, e)[w * WordSize - j]
        <4>1. w \in 1 .. Len(f) /\ r[w] = f[w] /\ (w < Len(r) => w < Len(f))
          BY <2>2 DEF Text
        <4> QED
          BY <2>3, <4>1 DEF CutOf
      <3> QED
        BY <3>1, <3>2 DEF CutOf
    <2> QED
      BY <2>1, <2>3
  <1>3. CASE \E k \in 0 .. Len(f) - 1 : \E c \in 1 .. Len(f[k + 1]) - 1 :
               r = Append(SubSeq(f, 1, k), SubSeq(f[k + 1], 1, c))
    <2> PICK k \in 0 .. Len(f) - 1 : \E c \in 1 .. Len(f[k + 1]) - 1 :
               r = Append(SubSeq(f, 1, k), SubSeq(f[k + 1], 1, c))
      BY <1>3
    <2> PICK c \in 1 .. Len(f[k + 1]) - 1 : r = Append(SubSeq(f, 1, k), SubSeq(f[k + 1], 1, c))
      OBVIOUS
    <2> DEFINE l == SubSeq(f[k + 1], 1, c)
    <2>1. Len(f) \in Nat /\ k \in Nat /\ k + 1 \in 1 .. Len(f)
      BY DEF Text
    <2>2. f[k + 1] \in Seq(Byte \cup {Junk})
      BY <2>1 DEF Text
    <2>3. l \in Seq(Byte \cup {Junk}) /\ Len(l) = c /\ \A j \in 1 .. c : l[j] = f[k + 1][j]
      BY <2>2
    <2>4. /\ SubSeq(f, 1, k) \in Text /\ Len(SubSeq(f, 1, k)) = k
          /\ \A w \in 1 .. k : SubSeq(f, 1, k)[w] = f[w]
      BY <2>1 DEF Text
    <2> HIDE DEF l
    <2>5. r = Append(SubSeq(f, 1, k), l)
      BY DEF l
    <2>6. r \in Text
      BY <2>3, <2>4, <2>5 DEF Text
    <2>7. Len(r) = k + 1 /\ r[k + 1] = l /\ \A w \in 1 .. k : r[w] = f[w]
      <3> DEFINE g == SubSeq(f, 1, k)
      <3>1. /\ g \in Seq(Seq(Byte \cup {Junk})) /\ Len(g) = k /\ \A w \in 1 .. k : g[w] = f[w]
            /\ r = Append(g, l)
        BY <2>4, <2>5 DEF Text
      <3> HIDE DEF g
      <3>2. Len(r) = k + 1 /\ r[k + 1] = l
        BY <2>1, <2>3, <3>1
      <3>3. ASSUME NEW w \in 1 .. k PROVE r[w] = f[w]
        BY <2>1, <2>3, <3>1
      <3> QED
        BY <3>2, <3>3
    <2>8. ASSUME NEW m \in Memory, NEW e, CutOf(f, m, e)
          PROVE  CutOf(r, m, e)
      <3>1. Len(r) <= Words[m]
        BY <1>1, <2>1, <2>7, <2>8 DEF CutOf
      <3>2. ASSUME NEW w \in 1 .. Len(r)
            PROVE  /\ w < Len(r) => Len(r[w]) = WordSize
                   /\ \A j \in 1 .. Len(r[w]) : r[w][j] = MemoryOfElf(m, e)[w * WordSize - j]
        <4>1. CASE w \in 1 .. k
          <5>1. w \in 1 .. Len(f) /\ w < Len(f) /\ r[w] = f[w]
            BY <2>1, <2>7, <4>1
          <5> QED
            BY <2>8, <5>1 DEF CutOf
        <4>2. CASE w = k + 1
          <5>1. Len(r[w]) = c /\ c <= Len(f[w]) /\ Len(f[w]) \in Nat
            BY <2>2, <2>3, <2>7, <4>2
          <5>2. \A j \in 1 .. c : r[w][j] = f[w][j]
            BY <2>3, <2>7, <4>2
          <5> QED
            BY <2>1, <2>7, <2>8, <4>2, <5>1, <5>2 DEF CutOf
        <4> QED
          BY <2>1, <2>7, <3>2, <4>1, <4>2
      <3> QED
        BY <3>1, <3>2 DEF CutOf
    <2> QED
      BY <2>6, <2>8
  <1> QED
    BY <1>2, <1>3 DEF Remains

--------------------------------------------------------------------------------
(* Types *)

\* Memory is two of the three files.
LEMMA Files == Memory \subseteq File /\ "program" \in Memory /\ "data" \in Memory /\ "bin" \in File
               /\ "bin" \notin Memory
  BY DEF Memory, File

\* A file grows by a line at its end.
LEMMA TextGrows ==
  ASSUME NEW f \in Text, NEW l \in Seq(Byte \cup {Junk})
  PROVE  /\ Append(f, l) \in Text /\ Len(f) \in Nat
         /\ Len(Append(f, l)) = Len(f) + 1 /\ Append(f, l)[Len(f) + 1] = l
         /\ \A w \in 1 .. Len(f) : Append(f, l)[w] = f[w]
  BY DEF Text

\* A word lies within its memory.
LEMMA WithinMemory ==
  ASSUME NEW m \in Memory, NEW w \in 1 .. Words[m], NEW k \in 1 .. WordSize
  PROVE  w * WordSize - k \in 0 .. Bytes(m) - 1
  <1>1. WordSize \in Nat \ {0} /\ Words[m] \in Nat
    BY ImageAssumption
  <1>2. \A x, y, z \in Nat : x * z <= (x + y) * z /\ x * z \in Nat
    OBVIOUS
  <1>3. w * WordSize <= (w + (Words[m] - w)) * WordSize /\ w + (Words[m] - w) = Words[m]
    BY <1>1, <1>2
  <1>4. WordSize <= w * WordSize
    <2>1. 1 * WordSize <= (1 + (w - 1)) * WordSize
      BY <1>1, <1>2
    <2> QED
      BY <1>1, <2>1
  <1> QED
    BY <1>1, <1>3, <1>4 DEF Bytes

\* The line of a word is a line.
LEMMA WordIsLine ==
  ASSUME NEW m \in Memory, NEW w \in 1 .. Words[m], NEW image,
         \A a \in 0 .. Bytes(m) - 1 : image[a] \in Byte
  PROVE  word_of(image, w) \in Seq(Byte \cup {Junk}) /\ Len(word_of(image, w)) = WordSize
  <1>1. WordSize \in Nat \ {0}
    BY ImageAssumption
  <1>2. \A k \in 1 .. WordSize : image[w * WordSize - k] \in Byte \cup {Junk}
    BY WithinMemory
  <1> QED
    BY <1>1, <1>2 DEF word_of

\* The value of a line is a word of the buffer.
LEMMA ValueIsLine ==
  ASSUME NEW l \in Seq(Byte \cup {Junk})
  PROVE  ValueOf(l) \in Seq(Byte \cup {Junk})
  <1>1. WordSize \in Nat /\ 0 \in Byte /\ Len(l) \in Nat
    BY ImageAssumption
  <1>2. \A k \in 1 .. WordSize : k <= Len(l) => l[Len(l) + 1 - k] \in Byte \cup {Junk}
    BY <1>1
  <1> QED
    BY <1>1, <1>2 DEF ValueOf

\* The images before the first header: all bytes 0.
LEMMA NoHeaders ==
  ASSUME NEW e
  PROVE  LET zero == [m \in Memory |-> [a \in 0 .. Bytes(m) - 1 |-> 0]] IN
         /\ Image(e, 0) = zero /\ Shaped(zero)
         /\ \A m \in Memory : \A a \in 0 .. Bytes(m) - 1 : zero[m][a] \in Byte
  <1>1. \A m, a : {j \in 1 .. 0 : Covers(e.segs[j], m, a)} = {}
    OBVIOUS
  <1> QED
    BY <1>1, ImageAssumption DEF Image, Shaped

\* image_store keeps an image an image.
LEMMA StoreKeepsType ==
  ASSUME NEW s \in Segment, NEW x, Shaped(x),
         \A m \in Memory : \A a \in 0 .. Bytes(m) - 1 : x[m][a] \in Byte
  PROVE  LET y == [x EXCEPT ![MemoryOf(s)] = image_store(@, s)] IN
         Shaped(y) /\ \A m \in Memory : \A a \in 0 .. Bytes(m) - 1 : y[m][a] \in Byte
  <1> DEFINE y == [x EXCEPT ![MemoryOf(s)] = image_store(@, s)]
             b == MemoryOf(s)
  <1>1. /\ b \in Memory /\ s.addr \in Nat /\ s.data \in Seq(Byte) /\ Len(s.data) \in Nat
        /\ Offset(s) \in Int
    BY ImageAssumption DEF Segment, MemoryOf, Memory, Offset
  <1>2. DOMAIN x = Memory /\ \A m \in Memory : x[m] = [a \in 0 .. Bytes(m) - 1 |-> x[m][a]]
    BY DEF Shaped
  <1>3. DOMAIN y = Memory /\ y[b] = image_store(x[b], s) /\ \A m \in Memory \ {b} : y[m] = x[m]
    BY <1>1, <1>2
  <1>4. DOMAIN x[b] = 0 .. Bytes(b) - 1
    BY <1>1, <1>2
  <1>5. /\ image_store(x[b], s) = [a \in 0 .. Bytes(b) - 1 |-> image_store(x[b], s)[a]]
        /\ \A a \in 0 .. Bytes(b) - 1 : image_store(x[b], s)[a] \in Byte
    <2>0. Bytes(b) \in Nat
      BY <1>1, ImageAssumption DEF Bytes
    <2>1. CASE Fits(s)
      <3>1. \A a \in 0 .. Bytes(b) - 1 : Offset(s) <= a /\ a < Offset(s) + Len(s.data)
               => s.data[a - Offset(s) + 1] \in Byte
        BY <1>1, <2>0
      <3> QED
        BY <1>1, <1>4, <2>1, <3>1 DEF image_store
    <2>2. CASE ~Fits(s)
      BY <1>1, <1>2, <2>2 DEF image_store
    <2> QED
      BY <2>1, <2>2
  <1>6. \A m \in Memory : y[m] = [a \in 0 .. Bytes(m) - 1 |-> y[m][a]]
    BY <1>2, <1>3, <1>5
  <1>7. \A m \in Memory : \A a \in 0 .. Bytes(m) - 1 : y[m][a] \in Byte
    BY <1>3, <1>5
  <1>8. y = [m \in Memory |-> y[m]]
    BY <1>2
  <1> HIDE DEF y
  <1>9. [m \in Memory |-> y[m]] = [m \in Memory |-> [a \in 0 .. Bytes(m) - 1 |-> y[m][a]]]
    BY <1>6
  <1>10. Shaped(y)
    BY <1>8, <1>9 DEF Shaped
  <1> QED
    BY <1>7, <1>10 DEF y

--------------------------------------------------------------------------------
(* The invariant *)

\* One line more for a memory: what Write leaves of its file.
LEMMA WriteLine ==
  ASSUME NEW m \in Memory, NEW e \in Elfs, ImageTypeOK, i < Words[m], images = Image(e, e.phnum),
         ~full => Written(files[m], m, i, e),
         CutOf(files[m], m, e),
         Write(m, word_of(images[m], i + 1))
  PROVE  /\ files' \in [File -> Text] /\ full' \in BOOLEAN
         /\ \A f \in File \ {m} : files'[f] = files[f]
         /\ ~full' => Written(files'[m], m, i + 1, e)
         /\ CutOf(files'[m], m, e)
  <1> DEFINE l == word_of(images[m], i + 1)
             f == files[m]
  <1>1. /\ files \in [File -> Text] /\ full \in BOOLEAN /\ i \in Nat /\ Words[m] \in Nat
        /\ m \in File /\ f \in Text
    BY Files, ImageAssumption DEF ImageTypeOK
  <1>2. i + 1 \in 1 .. Words[m]
    BY <1>1
  <1>3. l \in Seq(Byte \cup {Junk}) /\ l = word_of(MemoryOfElf(m, e), i + 1)
    BY <1>2, WordIsLine DEF ImageTypeOK, MemoryOfElf
  <1> HIDE DEF l
  <1>4. Append(f, l) \in Text
    BY <1>1, <1>3, TextGrows
  <1>5. ~full => Written(Append(f, l), m, i + 1, e)
    <2> SUFFICES ASSUME ~full PROVE Written(Append(f, l), m, i + 1, e)
      OBVIOUS
    <2>1. Len(f) = i /\ \A w \in 1 .. i : f[w] = word_of(MemoryOfElf(m, e), w)
      BY DEF Written
    <2>2. /\ Len(Append(f, l)) = i + 1 /\ Append(f, l)[i + 1] = l
          /\ \A w \in 1 .. i : Append(f, l)[w] = f[w]
      BY <1>1, <1>3, <2>1, TextGrows
    <2>3. ASSUME NEW w \in 1 .. i + 1
          PROVE  Append(f, l)[w] = word_of(MemoryOfElf(m, e), w)
      <3>1. CASE w \in 1 .. i
        BY <2>1, <2>2, <3>1
      <3>2. CASE w = i + 1
        BY <1>3, <2>2, <3>2
      <3>3. w \in 1 .. i \/ w = i + 1
        BY <1>1
      <3> QED
        BY <3>1, <3>2, <3>3
    <2> QED
      BY <2>2, <2>3 DEF Written
  <1>6. ~full => CutOf(Append(f, l), m, e)
    <2>1. i + 1 \in Nat /\ i + 1 <= Words[m]
      BY <1>1
    <2> QED
      BY <1>4, <1>5, <2>1, WrittenIsCut
  <1>7. CASE ~full /\ files' = [files EXCEPT ![m] = Append(f, l)] /\ full' = FALSE
    BY <1>1, <1>4, <1>5, <1>6, <1>7
  <1>8. CASE ~full /\ full' = TRUE /\ \E r \in Remains(Append(f, l)) : files' = [files EXCEPT ![m] = r]
    <2> PICK r \in Remains(Append(f, l)) : files' = [files EXCEPT ![m] = r]
      BY <1>8
    <2>1. r \in Text /\ CutOf(r, m, e)
      BY <1>4, <1>6, <1>8, RemainsAreCut
    <2> QED
      BY <1>1, <1>8, <2>1
  <1>9. CASE full /\ UNCHANGED <<files, full>>
    BY <1>1, <1>9
  <1> QED
    BY <1>7, <1>8, <1>9 DEF Write, l

\* The invariant speaks of the variables, and a step that leaves the files alone leaves
\* alone what it says of them.
LEMMA FilesStand ==
  ASSUME Closed, OnlyCut, UNCHANGED <<files, made, whole>>
  PROVE  Closed' /\ OnlyCut'
  BY DEF Closed, OnlyCut

\* Any program.hex there was before is a text, and none is claimed whole yet.
LEMMA InitHolds ==
  ASSUME ImageInit
  PROVE  IInv
  <1>1. ImageTypeOK
    <2>1. PICK h \in Hexes : files = [program |-> h, data |-> <<>>, bin |-> <<>>]
      BY DEF ImageInit
    <2>2. h \in Text
      <3>1. h \in Seq(Seq(Byte) \cup {<<Junk>>})
        BY ImageAssumption
      <3>2. ASSUME NEW k \in 1 .. Len(h)
            PROVE  h[k] \in Seq(Byte \cup {Junk})
        <4>1. h[k] \in Seq(Byte) \/ h[k] = <<Junk>>
          BY <3>1
        <4>2. CASE h[k] \in Seq(Byte)
          BY <4>2, SeqMonotonic
        <4>3. CASE h[k] = <<Junk>>
          BY <4>3
        <4> QED
          BY <4>1, <4>2, <4>3
      <3>3. Len(h) \in Nat /\ h \in [1 .. Len(h) -> Seq(Byte \cup {Junk})]
        BY <3>1, <3>2
      <3> QED
        BY <3>3, SeqDef DEF Text
    <2>3. <<>> \in Text
      BY DEF Text
    <2>4. files \in [File -> Text]
      BY <2>1, <2>2, <2>3 DEF File, Memory
    <2>5. Shaped(images) /\ \A m \in Memory : \A a \in 0 .. Bytes(m) - 1 : images[m][a] \in Byte
      BY NoHeaders DEF ImageInit
    <2> QED
      BY <2>3, <2>4, <2>5 DEF ImageInit, ImageTypeOK
  <1>2. OnlyCut
    BY Files DEF ImageInit, OnlyCut
  <1>3. Converting /\ Writing /\ Closed /\ Reading /\ Binary
    BY Files DEF ImageInit, Converting, Writing, Closed, Reading, Binary, File, Memory
  <1> QED
    BY <1>1, <1>2, <1>3 DEF IInv

\* The tool begins with both memories zero.
LEMMA StartElf2qarKeeps ==
  ASSUME IInv, NEW e \in Elfs, StartElf2qar(e)
  PROVE  IInv'
  <1> USE DEF IInv
  <1>1. ImageTypeOK'
    BY NoHeaders DEF StartElf2qar, ImageTypeOK
  <1>2. Converting'
    <2>1. stage' = "headers" /\ elf' = e /\ i' = 0
      BY DEF StartElf2qar
    <2>2. images' = Image(elf', i')
      BY <2>1, NoHeaders DEF StartElf2qar
    <2>3. e.segs \in Seq(Segment)
      BY ImageAssumption DEF ElfFile
    <2>4. i' <= Len(elf'.segs)
      BY <2>1, <2>3
    <2> QED
      BY <2>1, <2>2, <2>4 DEF Converting, Memory
  <1>3. Closed' /\ OnlyCut'
    BY FilesStand DEF StartElf2qar
  <1> QED
    BY <1>1, <1>2, <1>3 DEF StartElf2qar, Writing, Reading, Binary, Memory

\* The images stay those of the headers read so far.
LEMMA ReadHeaderKeeps ==
  ASSUME IInv, ReadHeader
  PROVE  IInv'
  <1> USE DEF IInv
  <1>1. /\ elf \in Elfs /\ i \in Nat /\ i < Len(elf.segs) /\ images = Image(elf, i)
        /\ elf.segs \in Seq(Segment) /\ elf.segs[i + 1] \in Segment
    <2>1. elf \in Elfs /\ i \in Nat /\ i < Len(elf.segs) /\ images = Image(elf, i)
      BY DEF ReadHeader, ImageTypeOK, Converting
    <2>2. elf.segs \in Seq(Segment)
      BY <2>1, ImageAssumption DEF ElfFile
    <2> QED
      BY <2>1, <2>2
  <1>2. images' = Image(elf, i + 1)
    BY <1>1, ImageStep DEF ReadHeader
  <1>3. Shaped(images') /\ \A m \in Memory : \A a \in 0 .. Bytes(m) - 1 : images'[m][a] \in Byte
    <2>1. Shaped(images) /\ \A m \in Memory : \A a \in 0 .. Bytes(m) - 1 : images[m][a] \in Byte
      BY DEF ImageTypeOK
    <2> QED
      BY <1>1, <2>1, StoreKeepsType DEF ReadHeader
  <1>4. ImageTypeOK'
    BY <1>1, <1>3 DEF ReadHeader, ImageTypeOK
  <1>5. Converting'
    <2>1. i' <= Len(elf'.segs) /\ images' = Image(elf', i')
      BY <1>1, <1>2 DEF ReadHeader
    <2> QED
      BY <1>1, <2>1 DEF ReadHeader, Converting, Memory
  <1>6. Closed' /\ OnlyCut'
    BY FilesStand DEF ReadHeader
  <1> QED
    BY <1>4, <1>5, <1>6 DEF ReadHeader, Writing, Reading, Binary, Memory

\* fopen makes an empty file, and an empty file is only cut.
LEMMA OpenKeeps ==
  ASSUME IInv, NEW m \in Memory, elf \in Elfs, images = Image(elf, elf.phnum), stage \notin File,
         Open(m, elf), UNCHANGED <<elf, images, words, full, runs>>
  PROVE  IInv'
  <1> USE DEF IInv
  <1>1. <<>> \in Text /\ Len(<<>>) = 0 /\ \A x \in Memory : Words[x] \in Nat
    BY ImageAssumption DEF Text
  <1>2. /\ stage' = m /\ i' = 0 /\ files' = [files EXCEPT ![m] = <<>>]
        /\ made' = [made EXCEPT ![m] = elf] /\ whole' = whole \ {m}
        /\ m \in File /\ files \in [File -> Text] /\ made \in [File -> Elfs \cup {NoElf}]
    BY Files DEF Open, ImageTypeOK
  <1>3. ImageTypeOK'
    BY <1>1, <1>2 DEF ImageTypeOK
  <1>4. Converting'
    BY <1>2 DEF Converting, Memory
  <1>5. \A x \in File \ {m} : files'[x] = files[x] /\ made'[x] = made[x]
    BY <1>2
  <1>6. files'[m] = <<>> /\ made'[m] = elf /\ m \notin whole'
    BY <1>2
  <1>7. Writing'
    BY <1>1, <1>2, <1>6 DEF Writing, Written
  <1>8. Closed'
    BY <1>2, <1>5, Files DEF Closed
  <1>9. OnlyCut'
    <2>1. \A e : CutOf(<<>>, m, e)
      BY <1>1 DEF CutOf
    <2>2. \A x \in Memory \ {m} : made'[x] # NoElf => CutOf(files'[x], x, made'[x])
      BY <1>5, Files DEF OnlyCut
    <2> QED
      BY <1>6, <2>1, <2>2 DEF OnlyCut
  <1>10. Reading' /\ Binary'
    BY <1>2, <1>5, Files DEF Reading, Binary, Memory
  <1> QED
    BY <1>3, <1>4, <1>7, <1>8, <1>9, <1>10

\* The old program.hex is gone before the first line of the new one.
LEMMA OpenProgramKeeps ==
  ASSUME IInv, OpenProgram
  PROVE  IInv'
  <1>1. elf \in Elfs /\ images = Image(elf, elf.phnum)
    BY DEF IInv, OpenProgram, Converting
  <1>2. stage \notin File
    BY DEF OpenProgram, File, Memory
  <1> QED
    BY <1>1, <1>2, Files, OpenKeeps DEF OpenProgram

\* The old data.hex is gone before the first line of the new one.
LEMMA OpenDataKeeps ==
  ASSUME IInv, OpenData
  PROVE  IInv'
  <1>1. elf \in Elfs /\ images = Image(elf, elf.phnum)
    BY DEF IInv, OpenData, Converting
  <1>2. stage \notin File
    BY DEF OpenData, File, Memory
  <1> QED
    BY <1>1, <1>2, Files, OpenKeeps DEF OpenData

\* The lines so far are the first lines of the memory.
LEMMA WriteHexKeeps ==
  ASSUME IInv, NEW m \in Memory, image_write_hex(m)
  PROVE  IInv'
  <1> USE DEF IInv
  <1>1. /\ elf \in Elfs /\ images = Image(elf, elf.phnum) /\ i \in Nat /\ i < Words[m]
        /\ Words[m] \in Nat /\ stage = m /\ m \notin whole /\ made[m] = elf /\ elf # NoElf
        /\ ~full => Written(files[m], m, i, elf)
    BY ImageAssumption DEF image_write_hex, Converting, Writing, ImageTypeOK
  <1>2. CutOf(files[m], m, elf)
    BY <1>1 DEF OnlyCut
  <1>3. /\ files' \in [File -> Text] /\ full' \in BOOLEAN
        /\ \A f \in File \ {m} : files'[f] = files[f]
        /\ ~full' => Written(files'[m], m, i + 1, elf)
        /\ CutOf(files'[m], m, elf)
    BY <1>1, <1>2, WriteLine DEF image_write_hex
  <1>4. UNCHANGED <<stage, elf, images, words, made, whole, runs>> /\ i' = i + 1
    BY DEF image_write_hex
  <1>5. ImageTypeOK'
    BY <1>1, <1>3, <1>4 DEF ImageTypeOK
  <1>6. Converting'
    BY <1>1, <1>4 DEF Converting, Memory
  <1>7. Writing'
    BY <1>1, <1>3, <1>4 DEF Writing
  <1>8. Closed'
    BY <1>1, <1>3, <1>4, Files DEF Closed
  <1>9. OnlyCut'
    BY <1>1, <1>3, <1>4, Files DEF OnlyCut
  <1>10. Reading' /\ Binary'
    BY <1>1, <1>3, <1>4, Files DEF Reading, Binary, Memory
  <1> QED
    BY <1>5, <1>6, <1>7, <1>8, <1>9, <1>10

\* A file that is closed with nothing lost has all its lines.
LEMMA CloseKeeps ==
  ASSUME IInv, NEW m \in Memory, stage = m, i = Words[m], Close(m),
         m = "program" => stage' \in {"idle", "second"}, m = "data" => stage' = "idle",
         UNCHANGED <<elf, i, images, words, files, full, made, runs>>
  PROVE  IInv'
  <1> USE DEF IInv
  <1>1. /\ elf \in Elfs /\ images = Image(elf, elf.phnum) /\ made[m] = elf
        /\ ~full => Written(files[m], m, i, elf)
    BY DEF Converting, Writing
  <1>2. stage' \in {"idle", "second"} /\ stage' \notin File /\ stage' # "lines" /\ stage' # "headers"
    BY DEF Memory, File
  <1>3. whole' \subseteq whole \cup {m} /\ (m \in whole' => ~full \/ m \in whole)
    BY DEF Close
  <1>4. ImageTypeOK'
    BY <1>2, <1>3, Files DEF ImageTypeOK
  <1>5. Converting'
    BY <1>1, <1>2, Files DEF Converting
  <1>6. Closed'
    BY <1>1, <1>3 DEF Closed, Writing
  <1>7. Writing' /\ Reading' /\ OnlyCut'
    BY <1>2, Files DEF Writing, Reading, OnlyCut
  <1>8. Binary'
    BY <1>2, <1>3, Files DEF Binary
  <1> QED
    BY <1>4, <1>5, <1>6, <1>7, <1>8

\* Whether or not data.hex can be opened next.
LEMMA CloseProgramKeeps ==
  ASSUME IInv, CloseProgram
  PROVE  IInv'
  BY Files, CloseKeeps DEF CloseProgram

\* The last step of elf2qar.
LEMMA CloseDataKeeps ==
  ASSUME IInv, CloseData
  PROVE  IInv'
  BY Files, CloseKeeps DEF CloseData

\* qhex begins with an empty buffer.
LEMMA StartQhexKeeps ==
  ASSUME IInv, StartQhex
  PROVE  IInv'
  <1> USE DEF IInv
  <1>1. <<>> \in Text /\ Len(<<>>) = 0
    BY DEF Text
  <1>2. ImageTypeOK'
    BY <1>1 DEF StartQhex, ImageTypeOK
  <1>3. Closed' /\ OnlyCut'
    BY FilesStand DEF StartQhex
  <1>4. Converting' /\ Writing'
    BY DEF StartQhex, Converting, Writing, Memory
  <1>5. Reading'
    <2>1. files["program"] \in Text
      BY Files DEF ImageTypeOK
    <2>2. Len(files["program"]) \in Nat
      BY <2>1 DEF Text
    <2> QED
      BY <1>1, <2>2 DEF StartQhex, Reading, Read
  <1>6. Binary'
    BY DEF StartQhex, Binary
  <1> QED
    BY <1>2, <1>3, <1>4, <1>5, <1>6

\* A line of a file that is whole is the line of its word, and its value that word.
LEMMA ReadLineKeeps ==
  ASSUME IInv, ReadLine
  PROVE  IInv'
  <1> USE DEF IInv
  <1> DEFINE f == files["program"]
             l == f[i + 1]
  <1>1. f \in Text /\ words \in Text /\ i \in Nat /\ Words["program"] \in Nat /\ WordSize \in Nat \ {0}
    BY Files, ImageAssumption DEF ImageTypeOK
  <1>2. stage = "lines" /\ i < Len(f) /\ Len(f) \in Nat
    BY <1>1 DEF ReadLine, Text
  <1>3. l \in Seq(Byte \cup {Junk})
    BY <1>1, <1>2 DEF Text
  <1>4. ValueOf(l) \in Seq(Byte \cup {Junk})
    BY <1>3, ValueIsLine
  <1>5. /\ words' = IF l = <<>> THEN words ELSE Append(words, ValueOf(l))
        /\ i' = i + 1 /\ UNCHANGED <<stage, elf, images, files, full, made, whole, runs>>
    BY DEF ReadLine
  <1> HIDE DEF l
  <1>6. words' \in Text
    BY <1>1, <1>4, <1>5, TextGrows
  <1>7. ImageTypeOK'
    BY <1>1, <1>5, <1>6 DEF ImageTypeOK
  <1>8. Reading'
    <2>1. i + 1 <= Len(f)
      BY <1>1, <1>2
    <2>2. ASSUME "program" \in whole
          PROVE  Read(words', i + 1, made["program"])
      <3> DEFINE e == made["program"]
      <3>1. /\ Len(words) = i
            /\ \A w \in 1 .. i : words[w] = MemoryWord(MemoryOfElf("program", e), w)
        BY <1>2, <2>2 DEF Reading, Read
      <3>2. l = word_of(MemoryOfElf("program", e), i + 1)
        <4>1. Len(f) = Words["program"] /\ \A w \in 1 .. Words["program"] : f[w] = word_of(MemoryOfElf("program", e), w)
          BY <2>2, Files DEF Closed, Written
        <4> QED
          BY <1>1, <1>2, <4>1 DEF l
      <3>3. ValueOf(l) = MemoryWord(MemoryOfElf("program", e), i + 1)
        BY <1>1, <3>2, LineValue
      <3>4. l # <<>>
        <4>1. Len(l) = WordSize
          BY <1>1, <3>2 DEF word_of
        <4> QED
          BY <1>1, <4>1
      <3>5. /\ Len(words') = i + 1 /\ words'[i + 1] = ValueOf(l)
            /\ \A w \in 1 .. i : words'[w] = words[w]
        BY <1>1, <1>4, <1>5, <3>1, <3>4, TextGrows
      <3>6. \A w \in 1 .. i + 1 : w \in 1 .. i \/ w = i + 1
        BY <1>1
      <3> QED
        BY <3>1, <3>3, <3>5, <3>6 DEF Read
    <2> QED
      BY <1>5, <2>1, <2>2 DEF Reading
  <1>9. Closed' /\ OnlyCut'
    BY <1>5, FilesStand
  <1>10. Converting' /\ Writing' /\ Binary'
    BY <1>2, <1>5 DEF Converting, Writing, Binary, Memory
  <1> QED
    BY <1>7, <1>8, <1>9, <1>10

\* The buffer holds what was in program.hex.
LEMMA OpenBinKeeps ==
  ASSUME IInv, OpenBin
  PROVE  IInv'
  <1> USE DEF IInv
  <1> DEFINE origin == IF "program" \in whole THEN made["program"] ELSE NoElf
  <1>1. <<>> \in Text /\ Len(<<>>) = 0 /\ words \in Text /\ Len(words) \in Nat
    BY DEF ImageTypeOK, Text
  <1>2. /\ stage = "lines" /\ i = Len(files["program"])
        /\ stage' = "bin" /\ i' = 0 /\ files' = [files EXCEPT !["bin"] = <<>>]
        /\ made' = [made EXCEPT !["bin"] = origin] /\ whole' = whole \ {"bin"}
        /\ UNCHANGED <<elf, images, words, full, runs>>
        /\ files \in [File -> Text] /\ made \in [File -> Elfs \cup {NoElf}]
    BY DEF OpenBin, Open, ImageTypeOK
  <1>3. origin \in Elfs \cup {NoElf}
    BY <1>2, Files
  <1> HIDE DEF origin
  <1>4. files' \in [File -> Text] /\ made' \in [File -> Elfs \cup {NoElf}]
    BY <1>1, <1>2, <1>3
  <1>5. ImageTypeOK'
    BY <1>2, <1>4, Files DEF ImageTypeOK
  <1>6. Converting' /\ Writing' /\ Reading'
    BY <1>2, Files DEF Converting, Writing, Reading, Memory
  <1>7. \A m \in Memory : files'[m] = files[m] /\ made'[m] = made[m] /\ (m \in whole' <=> m \in whole)
    BY <1>2, Files
  <1>8. Closed' /\ OnlyCut'
    BY <1>7 DEF Closed, OnlyCut
  <1>9. made'["bin"] = origin /\ files'["bin"] = <<>> /\ "bin" \notin whole'
    BY <1>2, Files
  <1>10. origin # NoElf => Read(words, Words["program"], origin)
    <2> SUFFICES ASSUME origin # NoElf PROVE Read(words, Words["program"], origin)
      OBVIOUS
    <2>1. "program" \in whole /\ origin = made["program"]
      BY DEF origin
    <2>2. Len(files["program"]) = Words["program"]
      BY <2>1, Files DEF Closed, Written
    <2> QED
      BY <1>2, <2>1, <2>2 DEF Reading
  <1>11. Binary'
    BY <1>1, <1>2, <1>9, <1>10 DEF Binary
  <1> QED
    BY <1>5, <1>6, <1>8, <1>11

\* The binary is the first words of the buffer.
LEMMA WriteBinaryKeeps ==
  ASSUME IInv, write_binary
  PROVE  IInv'
  <1> USE DEF IInv
  <1> DEFINE f == files["bin"]
             l == words[i + 1]
  <1>1. /\ f \in Text /\ words \in Text /\ i \in Nat /\ files \in [File -> Text] /\ full \in BOOLEAN
        /\ i < Len(words) /\ stage = "bin" /\ "bin" \notin whole
        /\ i' = i + 1 /\ UNCHANGED <<stage, elf, images, words, made, whole, runs>>
    BY Files DEF write_binary, Binary, ImageTypeOK
  <1>2. l \in Seq(Byte \cup {Junk}) /\ Len(words) \in Nat
    BY <1>1 DEF Text
  <1> HIDE DEF l
  <1>3. Append(f, l) \in Text
    BY <1>1, <1>2, TextGrows
  <1>4. /\ files' \in [File -> Text] /\ full' \in BOOLEAN
        /\ \A m \in Memory : files'[m] = files[m]
        /\ ~full' => ~full /\ files'["bin"] = Append(f, l)
    <2>1. CASE ~full /\ files' = [files EXCEPT !["bin"] = Append(f, l)] /\ full' = FALSE
      BY <1>1, <1>3, <2>1, Files
    <2>2. CASE ~full /\ full' = TRUE /\ \E r \in Remains(Append(f, l)) : files' = [files EXCEPT !["bin"] = r]
      <3> PICK r \in Remains(Append(f, l)) : files' = [files EXCEPT !["bin"] = r]
        BY <2>2
      <3>1. r \in Text
        BY <1>3, RemainsAreCut
      <3> QED
        BY <1>1, <2>2, <3>1, Files
    <2>3. CASE full /\ UNCHANGED <<files, full>>
      BY <1>1, <2>3
    <2> QED
      BY <2>1, <2>2, <2>3 DEF write_binary, Write, l
  <1>5. ImageTypeOK'
    BY <1>1, <1>4 DEF ImageTypeOK
  <1>6. Converting' /\ Writing' /\ Reading'
    BY <1>1, Files DEF Converting, Writing, Reading, Memory
  <1>7. Closed' /\ OnlyCut'
    BY <1>1, <1>4 DEF Closed, OnlyCut
  <1>8. Binary'
    <2>1. i + 1 <= Len(words)
      BY <1>1, <1>2
    <2>2. ASSUME ~full'
          PROVE  /\ Len(files'["bin"]) = i + 1
                 /\ \A w \in 1 .. i + 1 : files'["bin"][w] = words[w]
      <3>1. Len(f) = i /\ \A w \in 1 .. i : f[w] = words[w]
        BY <1>1, <1>4, <2>2 DEF Binary
      <3>2. /\ Len(Append(f, l)) = i + 1 /\ Append(f, l)[i + 1] = l
            /\ \A w \in 1 .. i : Append(f, l)[w] = f[w]
        BY <1>1, <1>2, <3>1, TextGrows
      <3>3. \A w \in 1 .. i + 1 : w \in 1 .. i \/ w = i + 1
        BY <1>1
      <3> QED
        BY <1>4, <2>2, <3>1, <3>2, <3>3 DEF l
    <2> QED
      BY <1>1, <2>1, <2>2 DEF Binary
  <1> QED
    BY <1>5, <1>6, <1>7, <1>8

\* A binary that is closed with nothing lost has all words.
LEMMA CloseBinKeeps ==
  ASSUME IInv, CloseBin
  PROVE  IInv'
  <1> USE DEF IInv
  <1>1. /\ stage = "bin" /\ stage' = "idle" /\ (i = Len(words) \/ full)
        /\ UNCHANGED <<elf, i, images, words, files, full, made, runs>>
        /\ whole' = IF full THEN whole ELSE whole \cup {"bin"}
    BY DEF CloseBin, Close
  <1>2. ImageTypeOK'
    BY <1>1, Files DEF ImageTypeOK
  <1>3. Converting' /\ Writing' /\ Reading'
    BY <1>1, Files DEF Converting, Writing, Reading, Memory
  <1>4. \A m \in Memory : m \in whole' <=> m \in whole
    BY <1>1, Files
  <1>5. Closed' /\ OnlyCut'
    BY <1>1, <1>4 DEF Closed, OnlyCut
  <1>6. Binary'
    <2>1. CASE full
      BY <1>1, <2>1 DEF Binary
    <2>2. CASE ~full
      <3>1. /\ i = Len(words) /\ Len(files["bin"]) = i
            /\ \A w \in 1 .. i : files["bin"][w] = words[w]
            /\ made["bin"] # NoElf => Read(words, Words["program"], made["bin"])
        BY <1>1, <2>2 DEF Binary
      <3>2. made["bin"] # NoElf => Read(files["bin"], Words["program"], made["bin"])
        BY <3>1 DEF Read
      <3> QED
        BY <1>1, <3>2 DEF Binary
    <2> QED
      BY <2>1, <2>2
  <1> QED
    BY <1>2, <1>3, <1>5, <1>6

\* A tool that gives up has touched no file.
LEMMA FailKeeps ==
  ASSUME IInv, Fail
  PROVE  IInv'
  <1> USE DEF IInv
  <1>1. ImageTypeOK'
    BY DEF Fail, ImageTypeOK
  <1>2. Closed' /\ OnlyCut'
    BY FilesStand DEF Fail
  <1> QED
    BY <1>1, <1>2 DEF Fail, Converting, Writing, Reading, Binary, Memory

\* An interrupt cuts the file that is being written, and that file is not whole.
LEMMA KillKeeps ==
  ASSUME IInv, Kill
  PROVE  IInv'
  <1> USE DEF IInv
  <1>1. stage' = "idle" /\ UNCHANGED <<elf, i, images, words, full, made, whole, runs>>
    BY DEF Kill
  <1>2. CASE stage \notin File
    <2>1. UNCHANGED files
      BY <1>2 DEF Kill
    <2>2. ImageTypeOK'
      BY <1>1, <2>1 DEF ImageTypeOK
    <2>3. Closed' /\ OnlyCut'
      BY <1>1, <2>1, FilesStand
    <2> QED
      BY <1>1, <2>1, <2>2, <2>3 DEF Converting, Writing, Reading, Binary, Memory
  <1>3. CASE stage \in File
    <2> PICK r \in Remains(files[stage]) : files' = [files EXCEPT ![stage] = r]
      BY <1>3 DEF Kill
    <2>1. files \in [File -> Text] /\ files[stage] \in Text
      BY <1>3 DEF ImageTypeOK
    <2>2. /\ r \in Text
          /\ \A m \in Memory, e \in Elfs \cup {NoElf} : CutOf(files[stage], m, e) => CutOf(r, m, e)
      BY <2>1, RemainsAreCut
    <2>3. /\ files' \in [File -> Text] /\ files'[stage] = r
          /\ \A x \in File \ {stage} : files'[x] = files[x]
      BY <1>3, <2>1, <2>2
    <2>4. stage \notin whole
      BY <1>3 DEF Writing, Binary, File
    <2>5. ImageTypeOK'
      BY <1>1, <2>3 DEF ImageTypeOK
    <2>6. Converting' /\ Writing' /\ Reading'
      BY <1>1, Files DEF Converting, Writing, Reading, Memory
    <2>7. Closed'
      BY <1>1, <2>3, <2>4, Files DEF Closed
    <2>8. OnlyCut'
      <3>1. made \in [File -> Elfs \cup {NoElf}]
        BY DEF ImageTypeOK
      <3> QED
        BY <1>1, <1>3, <2>2, <2>3, <3>1, Files DEF OnlyCut
    <2>9. Binary'
      BY <1>1, <2>3, <2>4, Files DEF Binary
    <2> QED
      BY <2>5, <2>6, <2>7, <2>8, <2>9
  <1> QED
    BY <1>2, <1>3

\* The invariant holds whatever the developer runs and interrupts, in any order.
THEOREM ImageInvariant == ImageSpec => []IInv
  <1>1. ImageInit => IInv
    BY InitHolds
  <1>2. IInv /\ [ImageNext]_imageVars => IInv'
    <2> SUFFICES ASSUME IInv, [ImageNext]_imageVars PROVE IInv'
      OBVIOUS
    <2>1. ASSUME NEW e \in Elfs, StartElf2qar(e) PROVE IInv'
      BY <2>1, StartElf2qarKeeps
    <2>2. CASE ReadHeader
      BY <2>2, ReadHeaderKeeps
    <2>3. CASE OpenProgram
      BY <2>3, OpenProgramKeeps
    <2>4. CASE CloseProgram
      BY <2>4, CloseProgramKeeps
    <2>5. CASE OpenData
      BY <2>5, OpenDataKeeps
    <2>6. CASE CloseData
      BY <2>6, CloseDataKeeps
    <2>7. ASSUME NEW m \in Memory, image_write_hex(m) PROVE IInv'
      BY <2>7, WriteHexKeeps
    <2>8. CASE StartQhex
      BY <2>8, StartQhexKeeps
    <2>9. CASE ReadLine
      BY <2>9, ReadLineKeeps
    <2>10. CASE OpenBin
      BY <2>10, OpenBinKeeps
    <2>11. CASE write_binary
      BY <2>11, WriteBinaryKeeps
    <2>12. CASE CloseBin
      BY <2>12, CloseBinKeeps
    <2>13. CASE Fail
      BY <2>13, FailKeeps
    <2>14. CASE Kill
      BY <2>14, KillKeeps
    <2>15. CASE UNCHANGED imageVars
      BY <2>15 DEF imageVars, IInv, ImageTypeOK, Converting, Writing, Closed, OnlyCut, Reading, Binary
    <2> QED
      BY <2>1, <2>2, <2>3, <2>4, <2>5, <2>6, <2>7, <2>8, <2>9, <2>10, <2>11, <2>12, <2>13, <2>14,
         <2>15 DEF ImageNext
  <1> QED
    BY <1>1, <1>2, PTL DEF ImageSpec

\* elf2qar: a hex file that was closed with nothing lost is the image of its ELF file.
THEOREM HexHoldsImage == ImageSpec => []HexIsImage
  <1>1. IInv => HexIsImage
    <2> SUFFICES ASSUME IInv, NEW m \in Memory \cap whole
                 PROVE  /\ Len(files[m]) = Words[m]
                        /\ \A w \in 1 .. Words[m] :
                             ValueOf(files[m][w]) = MemoryWord(MemoryOfElf(m, made[m]), w)
      BY DEF HexIsImage
    <2>1. /\ Len(files[m]) = Words[m]
          /\ \A w \in 1 .. Words[m] : files[m][w] = word_of(MemoryOfElf(m, made[m]), w)
      BY DEF IInv, Closed, Written
    <2>2. \A w \in 1 .. Words[m] : w \in Nat
      BY ImageAssumption
    <2> QED
      BY <2>1, <2>2, LineValue
  <1> QED
    BY <1>1, ImageInvariant, PTL

\* elf2qar: an interrupt and a full disk cut a hex file short and change nothing in it.
THEOREM HexCutOnly == ImageSpec => []HexOnlyCut
  <1>1. IInv => HexOnlyCut
    BY DEF IInv, OnlyCut, CutOf, HexOnlyCut
  <1> QED
    BY <1>1, ImageInvariant, PTL

\* elf2qar and qhex: the binary is the instruction memory of the ELF file.
THEOREM BinaryHoldsImage == ImageSpec => []BinaryIsImage
  <1>1. IInv => BinaryIsImage
    <2> SUFFICES ASSUME IInv, "bin" \in whole, made["bin"] # NoElf
                 PROVE  files["bin"] = [w \in 1 .. Words["program"] |->
                                          MemoryWord(MemoryOfElf("program", made["bin"]), w)]
      BY DEF BinaryIsImage
    <2>1. files["bin"] \in Text
      BY Files DEF IInv, ImageTypeOK
    <2>2. /\ Len(files["bin"]) = Words["program"]
          /\ \A w \in 1 .. Words["program"] :
               files["bin"][w] = MemoryWord(MemoryOfElf("program", made["bin"]), w)
      BY DEF IInv, Binary, Read
    <2> QED
      BY <2>1, <2>2 DEF Text
  <1> QED
    BY <1>1, ImageInvariant, PTL
================================================================================
