----------------------------- MODULE LoaderProofs -----------------------------
(***************************************************************************)
(* Loading programs, for every memory, heap and set of files, whatever the *)
(* files hold. Of the complete ones it is proved that they come out linked *)
(* for where they are: the words of an image are the file's, but for those *)
(* an entry before the current one has relocated, and the list itself is   *)
(* read as it is in the file since no entry touches it.                    *)
(***************************************************************************)
EXTENDS Loader, Recursions, FiniteSetTheorems, TLAPS

\* The relocations of a complete file.
IsRelocations(image, r) ==
    /\ r.end \in CopiedRvas(image)
    /\ IsBlockList(image, r.starts, r.end)
    /\ ListsFields(image, r.starts, r.end)

Relocations(image) == CHOOSE r : IsRelocations(image, r)

PlacesOf(image) == Places(image, Relocations(image).starts)

\* The words touched by the entries before index i of block b.
Done(image, b, i) ==
    UNION {Touched(EntryAt(image, p)) :
             p \in {q \in PlacesOf(image) : q[1] < b \/ (q[1] = b /\ q[2] < i)}}

\* The addresses of blocks that were handed out, and those of an image.
Held == UNION {Address(b) .. (Address(b) + BlockSize - 1) : b \in Used}

Span(program) == program.at .. (program.at + Image[program.file].SizeOfImage - 1)

Current == [file |-> file, at |-> at]

\* What was handed out behind the heap belongs to an extent with its last block.
Overrun == Blocks \in Used \/ Used \subseteq 1..Blocks

\* Programs are where the heap put them, the one that is being loaded apart from
\* all others, or at address 0, where the heap has nothing.
Placed ==
    /\ pc # "idle" => file \in Files
    /\ pc = "idle" /\ file # None => \E l \in loaded : l.file = file
    /\ Used \subseteq Nat \ {0} /\ Overrun
    /\ \A l \in loaded : l.at \in Nat
    /\ \A l \in loaded : l.at # NULL => Span(l) \subseteq Held \cap Addresses
    /\ pc # "idle" /\ at # NULL =>
         /\ Span(Current) \subseteq Held \cap Addresses
         /\ \A l \in loaded : l.at # NULL => Span(l) \cap Span(Current) = {}

\* Up to an entry of its list, an image at base is linked, and the file's otherwise.
LinkedUpTo(mem, image, base, b, i) ==
    \A rva \in CopiedRvas(image) :
       mem[base + rva] = IF rva \in Done(image, b, i) THEN Linked(image, base, rva)
                         ELSE FileWord(image, rva)

\* The list of the program that is being loaded was gone through up to `index' of
\* the block, and so far its words are linked.
Relocating ==
    LET r == Relocations(Image[file])
        b == block - at
    IN  /\ b \in r.starts \cup {r.end}
        /\ b = r.end => index = 0
        /\ LinkedUpTo(memory, Image[file], at, b, index)

IInv == /\ TypeOK
        /\ Placed
        /\ LoadedAsLinked
        /\ AllWellFormed /\ pc = "relocate" => Relocating

-----------------------------------------------------------------------------
(* Remainders *)

\* Dividing a whole number gives a quotient and a remainder.
LEMMA Dividing ==
    ASSUME NEW a \in Int, NEW d \in Nat \ {0}
    PROVE  a \div d \in Int /\ a % d \in 0..(d - 1) /\ a = (a \div d) * d + (a % d)
BY SMTT(30)

\* They are the only ones.
LEMMA Divided ==
    ASSUME NEW d \in Nat \ {0}, NEW q \in Int, NEW r \in 0..(d - 1)
    PROVE  (q * d + r) \div d = q /\ (q * d + r) % d = r
BY SMTT(30)

\* What is less than the divisor remains.
LEMMA Remaining ==
    ASSUME NEW d \in Nat \ {0}, NEW r \in 0..(d - 1)
    PROVE  r % d = r /\ r \div d = 0
BY SMTT(30)

\* Adding multiples of the divisor changes no remainder.
LEMMA AddMultiple ==
    ASSUME NEW d \in Nat \ {0}, NEW a \in Int, NEW k \in Int
    PROVE  (k * d + a) % d = a % d
<1> DEFINE q == a \div d
           r == a % d
<1>1. q \in Int /\ r \in 0..(d - 1) /\ a = q * d + r
  BY Dividing
<1> HIDE DEF q, r
<1>2. k * d + a = (k + q) * d + r
  BY <1>1, SMTT(30)
<1>3. ((k + q) * d + r) % d = r
  <2>1. k + q \in Int
    BY <1>1
  <2> QED
    BY <1>1, <2>1, Divided, Zenon
<1> QED
  BY <1>2, <1>3 DEF r

\* A remainder may be taken before adding.
LEMMA RemainderOfSum ==
    ASSUME NEW d \in Nat \ {0}, NEW a \in Int, NEW b \in Int
    PROVE  /\ (a + (b % d)) % d = (a + b) % d
           /\ ((a % d) + (b % d)) % d = (a + b) % d
<1>1. ASSUME NEW x \in Int, NEW y \in Int PROVE (x + (y % d)) % d = (x + y) % d
  <2> DEFINE q == y \div d
             r == y % d
  <2>1. q \in Int /\ r \in 0..(d - 1) /\ y = q * d + r
    BY Dividing
  <2> HIDE DEF q, r
  <2>2. x + y = q * d + (x + r) /\ x + r \in Int
    BY <2>1, SMTT(30)
  <2>3. (q * d + (x + r)) % d = (x + r) % d
    BY <2>1, <2>2, AddMultiple, Zenon
  <2> QED
    BY <2>2, <2>3, Zenon DEF r
<1>2. (a + (b % d)) % d = (a + b) % d
  BY <1>1
<1>3. a % d \in Int /\ b % d \in Int
  BY Dividing
<1>4. ((b % d) + (a % d)) % d = ((b % d) + a) % d
  BY <1>1, <1>3, Zenon
<1>5. (b % d) + (a % d) = (a % d) + (b % d) /\ (b % d) + a = a + (b % d)
  BY <1>3
<1> QED
  BY <1>2, <1>4, <1>5, Zenon

\* The low half of a number of 32 bits, and of one cut to 32 bits.
LEMMA LowHalf ==
    ASSUME NEW h \in Nat \ {0}, NEW a \in Int
    PROVE  (a % (h * h)) % h = a % h
<1>0. h * h \in Nat \ {0}
  BY SMTT(30)
<1> DEFINE w == h * h
           q == a \div w
           r == a % w
<1>1. q \in Int /\ r \in 0..(w - 1) /\ a = q * w + r
  BY <1>0, Dividing
<1>2. w = h * h /\ w \in Nat
  BY <1>0
<1> HIDE DEF w, q, r
<1>3. a = (q * h) * h + r /\ q * h \in Int /\ r \in Int
  BY <1>1, <1>2, SMTT(30)
<1>4. ((q * h) * h + r) % h = r % h
  BY <1>3, AddMultiple, Zenon
<1> QED
  BY <1>3, <1>4, Zenon DEF r, w

\* A number of 32 bits has two halves of 16.
LEMMA HighHalf ==
    ASSUME NEW h \in Nat \ {0}, NEW a \in 0..(h * h - 1)
    PROVE  a \div h \in 0..(h - 1) /\ a % h \in 0..(h - 1) /\ (a % h) + h * (a \div h) = a
<1>0. h * h \in Nat /\ a \in Nat /\ a < h * h
  BY SMTT(30)
<1> DEFINE q == a \div h
           r == a % h
<1>1. q \in Int /\ r \in 0..(h - 1) /\ a = q * h + r
  BY <1>0, Dividing
<1> HIDE DEF q, r
<1>2. q < h
  <2> SUFFICES ASSUME q >= h PROVE FALSE
    BY <1>1
  <2>1. q * h >= h * h
    BY <1>1, SMTT(30)
  <2>2. q * h \in Int
    BY <1>1
  <2> QED
    BY <1>0, <1>1, <2>1, <2>2
<1>3. q >= 0
  <2> SUFFICES ASSUME q <= -1 PROVE FALSE
    BY <1>1
  <2>1. q * h <= -h
    BY <1>1, SMTT(30)
  <2>2. q * h \in Int
    BY <1>1
  <2> QED
    BY <1>0, <1>1, <2>1, <2>2
<1>4. r + h * q = a
  BY <1>1, SMTT(30)
<1> QED
  BY <1>1, <1>2, <1>3, <1>4 DEF q, r

\* And two halves make one.
LEMMA TwoHalves ==
    ASSUME NEW h \in Nat \ {0}, NEW lo \in 0..(h - 1), NEW hi \in 0..(h - 1)
    PROVE  /\ lo + h * hi \in 0..(h * h - 1)
           /\ (lo + h * hi) % h = lo /\ (lo + h * hi) \div h = hi
<1>1. lo + h * hi = hi * h + lo /\ h * hi \in Nat /\ h * h \in Nat
  BY SMTT(30)
<1>2. (hi * h + lo) % h = lo /\ (hi * h + lo) \div h = hi
  BY Divided
<1>3. h * hi <= h * (h - 1) /\ h * (h - 1) = h * h - h
  BY SMTT(30)
<1> QED
  BY <1>1, <1>2, <1>3

\* A field's low half moves with the image.
LEMMA LowHalfMoves ==
    ASSUME NEW h \in Nat \ {0}, NEW base \in Int, NEW linked \in Int, NEW target \in Int
    PROVE  (((linked + target) % h) + (((base - linked) % (h * h)) % h)) % h = (base + target) % h
<1> DEFINE moved == base - linked
<1>1. moved \in Int /\ linked + target \in Int /\ (linked + target) + moved = base + target
  OBVIOUS
<1> HIDE DEF moved
<1>2. (moved % (h * h)) % h = moved % h
  BY <1>1, LowHalf, Zenon
<1>3. (((linked + target) % h) + (moved % h)) % h = ((linked + target) + moved) % h
  BY <1>1, RemainderOfSum, Zenon
<1> QED
  BY <1>1, <1>2, <1>3, Zenon DEF moved

\* And so does a field of 32 bits.
LEMMA DwordMoves ==
    ASSUME NEW w \in Nat \ {0}, NEW base \in Int, NEW linked \in Int, NEW target \in Int
    PROVE  (((linked + target) % w) + ((base - linked) % w)) % w = (base + target) % w
<1>1. base - linked \in Int /\ linked + target \in Int
  OBVIOUS
<1>2. (linked + target) + (base - linked) = base + target
  OBVIOUS
<1>3. (((linked + target) % w) + ((base - linked) % w)) % w
         = ((linked + target) + (base - linked)) % w
  BY <1>1, RemainderOfSum, Zenon
<1> QED
  BY <1>2, <1>3, Zenon

-----------------------------------------------------------------------------
(* The heap's blocks *)

\* What the constants are.
LEMMA Constants ==
    /\ HalfMod \in Nat \ {0} /\ OffsetMod \in Nat \ {0} /\ BufferSize \in Nat \ {0}
    /\ Processed \in Nat \ {0} /\ Low \in Nat \ {0}
    /\ Blocks \in Nat \ {0} /\ BlockSize \in Nat \ {0}
    /\ WordMod \in Nat \ {0} /\ WordMod = HalfMod * HalfMod
    /\ RamSize \in Nat \ {0} /\ RamSize <= WordMod
    /\ Blocks * BlockSize \in Nat /\ Low + Blocks * BlockSize <= RamSize
<1>1. HalfMod \in Nat \ {0} /\ Blocks \in Nat \ {0} /\ BlockSize \in Nat \ {0}
  BY LoaderAssumption
<1>2. HalfMod * HalfMod \in Nat \ {0} /\ Blocks * BlockSize \in Nat
  BY <1>1, SMTT(30)
<1> DEFINE heap == Blocks * BlockSize
           words == HalfMod * HalfMod
<1>3. Low \in Nat \ {0} /\ RamSize \in (Low + heap) .. words
  BY LoaderAssumption
<1> HIDE DEF heap, words
<1>4. heap \in Nat /\ words \in Nat \ {0}
  BY <1>2 DEF heap, words
<1>5. RamSize \in Nat \ {0} /\ RamSize <= words /\ Low + heap <= RamSize
  BY <1>3, <1>4
<1>6. WordMod = words /\ Blocks * BlockSize = heap
  BY DEF WordMod, words, heap
<1>7. {OffsetMod, BufferSize, Processed, Low} \subseteq Nat \ {0}
  BY LoaderAssumption
<1> QED
  BY <1>1, <1>2, <1>4, <1>5, <1>6, <1>7, Zenon DEF words

\* A block's words are memory, above where the heap begins.
LEMMA BlockIsMemory ==
    ASSUME NEW b \in 1..Blocks
    PROVE  /\ Address(b) \in Nat /\ Address(b) >= Low
           /\ Address(b) .. (Address(b) + BlockSize - 1) \subseteq Addresses
           /\ Address(b) + BlockSize <= Low + Blocks * BlockSize
<1>1. Low \in Nat /\ Blocks \in Nat /\ BlockSize \in Nat \ {0} /\ Blocks * BlockSize \in Nat
  BY Constants
<1> DEFINE before == (b - 1) * BlockSize
<1>2. before \in Nat /\ before + BlockSize <= Blocks * BlockSize
  <2>1. before \in Nat
    BY <1>1, SMTT(30)
  <2>2. b * BlockSize = before + BlockSize
    BY <1>1, SMTT(30)
  <2>3. b * BlockSize <= Blocks * BlockSize
    BY <1>1, SMTT(30)
  <2> QED
    BY <2>1, <2>2, <2>3
<1>3. Address(b) = Low + before
  BY DEF Address
<1> DEFINE heap == Blocks * BlockSize
<1>4. heap \in Nat /\ Low + heap <= RamSize /\ RamSize \in Nat /\ before + BlockSize <= heap
  BY <1>2, Constants
<1> HIDE DEF before, heap
<1> QED
  BY <1>1, <1>2, <1>3, <1>4 DEF Addresses, heap

\* Nor is anything of a block behind the heap in front of it.
LEMMA BlockIsAbove ==
    ASSUME NEW b \in Nat \ {0}
    PROVE  Address(b) \in Nat /\ Address(b) >= Low
<1>1. Low \in Nat /\ BlockSize \in Nat \ {0}
  BY Constants
<1>2. (b - 1) * BlockSize \in Nat
  BY <1>1, SMTT(30)
<1> QED
  BY <1>1, <1>2 DEF Address

\* No two blocks have a word in common.
LEMMA BlocksAreApart ==
    ASSUME NEW b \in Int, NEW c \in Int, b # c
    PROVE  (Address(b) .. (Address(b) + BlockSize - 1))
              \cap (Address(c) .. (Address(c) + BlockSize - 1)) = {}
<1>1. Low \in Int /\ BlockSize \in Nat \ {0}
  BY Constants
<1>2. ASSUME NEW i \in Int, NEW j \in Int, i < j
      PROVE  Address(i) + BlockSize <= Address(j) /\ Address(i) \in Int /\ Address(j) \in Int
  <2>1. (i - 1) * BlockSize \in Int /\ (j - 1) * BlockSize \in Int
    BY <1>1
  <2>2. (i - 1) * BlockSize + BlockSize = i * BlockSize
    BY <1>1, SMTT(30)
  <2>3. i * BlockSize <= (j - 1) * BlockSize
    BY <1>1, <1>2, SMTT(30)
  <2> QED
    BY <1>1, <2>1, <2>2, <2>3 DEF Address
<1>3. Address(b) + BlockSize <= Address(c) \/ Address(c) + BlockSize <= Address(b)
  BY <1>2
<1>4. Address(b) \in Int /\ Address(c) \in Int
  BY <1>2
<1> QED
  BY <1>1, <1>3, <1>4

\* Enough blocks are asked for.
LEMMA BlocksForHold ==
    ASSUME NEW size \in Nat \ {0}
    PROVE  /\ BlocksFor(size) \in Nat \ {0}
           /\ \A k \in 0..(size - 1) : k \div BlockSize \in 0..(BlocksFor(size) - 1)
<1>1. BlockSize \in Nat \ {0}
  BY Constants
<1> DEFINE q == (size - 1) \div BlockSize
<1>2. q \in Nat /\ (size - 1) % BlockSize \in 0..(BlockSize - 1)
      /\ size - 1 = q * BlockSize + ((size - 1) % BlockSize)
  BY <1>1, SMTT(30)
<1>3. BlocksFor(size) = q + 1
  <2> DEFINE r == (size - 1) % BlockSize
  <2>1. r \in 0..(BlockSize - 1) /\ size - 1 = q * BlockSize + r /\ q \in Nat
    BY <1>2
  <2> HIDE DEF q, r
  <2>2. size + BlockSize - 1 = (q + 1) * BlockSize + r /\ q + 1 \in Int
    BY <1>1, <2>1, SMTT(30)
  <2>3. ((q + 1) * BlockSize + r) \div BlockSize = q + 1
    BY <1>1, <2>1, <2>2, Divided, Zenon
  <2> QED
    BY <2>2, <2>3 DEF BlocksFor
<1>4. \A k \in 0..(size - 1) : k \div BlockSize \in 0..q
  BY <1>1, SMTT(30)
<1> HIDE DEF q
<1> QED
  BY <1>2, <1>3, <1>4

-----------------------------------------------------------------------------
(* Memory *)

Words == 0..(HalfMod - 1)
Memories == [Addresses -> Words]

\* What there is of memory has addresses of 32 bits.
LEMMA AddressesFit == Addresses \subseteq 0..(WordMod - 1) /\ 0..(Low - 1) \subseteq Addresses
<1> DEFINE heap == Blocks * BlockSize
<1>1. /\ Low \in Nat /\ WordMod \in Nat /\ RamSize \in Nat /\ heap \in Nat
      /\ RamSize <= WordMod /\ Low + heap <= RamSize
  BY Constants
<1> HIDE DEF heap
<1> QED
  BY <1>1 DEF Addresses

\* How much memory there is.
LEMMA MemoryIsFinite == Cardinality(Addresses) \in Nat /\ Cardinality(Addresses) >= Low
<1> DEFINE heap == Blocks * BlockSize
<1>1. /\ Low \in Nat \ {0} /\ RamSize \in Nat /\ heap \in Nat
      /\ Low + heap <= RamSize
  BY Constants
<1> HIDE DEF heap
<1>2. 0 \in Int /\ RamSize - 1 \in Int /\ 0 <= RamSize - 1
  BY <1>1
<1>3. Cardinality(0..(RamSize - 1)) = (RamSize - 1) - 0 + 1
  BY <1>2, FS_Interval
<1> QED
  BY <1>1, <1>3 DEF Addresses

\* What is read is a word.
LEMMA ReadIsWord ==
    ASSUME NEW mem \in Memories, NEW a
    PROVE  Read(mem, a) \in Words
BY Constants DEF Read, Memories, Words

\* A dword read is a number of 32 bits.
LEMMA ReadIsDword ==
    ASSUME NEW mem \in Memories, NEW a
    PROVE  ReadDword(mem, a) \in 0..(WordMod - 1)
<1> DEFINE lo == Read(mem, a)
           hi == Read(mem, (a + 1) % WordMod)
<1>1. lo \in Words /\ hi \in Words
  BY ReadIsWord, Zenon
<1> HIDE DEF lo, hi
<1>2. lo + HalfMod * hi \in 0..(HalfMod * HalfMod - 1)
  BY <1>1, Constants, TwoHalves, Zenon DEF Words
<1> QED
  BY <1>2, Zenon DEF ReadDword, lo, hi, WordMod

\* Writing a word changes that one.
LEMMA WriteIsMemory ==
    ASSUME NEW mem \in Memories, NEW a, NEW v \in Words
    PROVE  /\ Write(mem, a, v) \in Memories
           /\ \A x \in Addresses : x # a => Write(mem, a, v)[x] = mem[x]
           /\ a \in Addresses => Write(mem, a, v)[a] = v
BY DEF Write, Memories

\* Writing a dword changes two.
LEMMA WriteDwordIsMemory ==
    ASSUME NEW mem \in Memories, NEW a \in Int, NEW v \in 0..(WordMod - 1)
    PROVE  /\ WriteDword(mem, a, v) \in Memories
           /\ \A x \in Addresses : x # a /\ x # (a + 1) % WordMod
                                    => WriteDword(mem, a, v)[x] = mem[x]
           /\ a \in Addresses /\ a + 1 \in Addresses =>
                 /\ WriteDword(mem, a, v)[a] = v % HalfMod
                 /\ WriteDword(mem, a, v)[a + 1] = v \div HalfMod
<1>1. v % HalfMod \in Words /\ v \div HalfMod \in Words
  BY Constants, HighHalf, Zenon DEF Words, WordMod
<1> DEFINE once == Write(mem, a, v % HalfMod)
           b == (a + 1) % WordMod
<1>2. /\ once \in Memories
      /\ \A x \in Addresses : x # a => once[x] = mem[x]
      /\ a \in Addresses => once[a] = v % HalfMod
  BY <1>1, WriteIsMemory
<1>3. WriteDword(mem, a, v) = Write(once, b, v \div HalfMod)
  BY Zenon DEF WriteDword
<1>4. a \in Addresses /\ a + 1 \in Addresses => b = a + 1 /\ b # a
  <2>1. a + 1 \in Addresses => a + 1 \in 0..(WordMod - 1)
    BY AddressesFit, Zenon
  <2>2. a + 1 \in 0..(WordMod - 1) => (a + 1) % WordMod = a + 1
    BY Constants, Remaining, Zenon
  <2> QED
    BY <2>1, <2>2
<1> HIDE DEF once, b
<1>5. /\ Write(once, b, v \div HalfMod) \in Memories
      /\ \A x \in Addresses : x # b => Write(once, b, v \div HalfMod)[x] = once[x]
      /\ b \in Addresses => Write(once, b, v \div HalfMod)[b] = v \div HalfMod
  BY <1>1, <1>2, WriteIsMemory
<1> QED
  BY <1>2, <1>3, <1>4, <1>5, Zenon DEF b

\* A relocation entry leaves words behind.
LEMMA RelocateIsMemory ==
    ASSUME NEW mem \in Memories, NEW where \in Int, NEW type \in Int, NEW offset \in Int
    PROVE  Relocate(mem, where, type, offset) \in Memories
<1>1. AddHigh(Read(mem, where), offset) \in Words /\ AddLow(Read(mem, where), offset) \in Words
  <2>1. Read(mem, where) \in Int
    BY ReadIsWord DEF Words
  <2>2. offset % HalfMod \in Int /\ offset \div HalfMod \in Int
    BY Constants, Dividing
  <2>3. \A x, y \in Int : x + y \in Int /\ (x + y) % HalfMod \in Words
    BY Constants, Dividing DEF Words
  <2> QED
    BY <2>1, <2>2, <2>3, Zenon DEF AddHigh, AddLow
<1>2. (ReadDword(mem, where) + offset) % WordMod \in 0..(WordMod - 1)
  <2>1. ReadDword(mem, where) + offset \in Int
    BY ReadIsDword
  <2> QED
    BY <2>1, Constants, Dividing, Zenon
<1>3. Write(mem, where, AddHigh(Read(mem, where), offset)) \in Memories
  BY <1>1, WriteIsMemory, Zenon
<1>4. Write(mem, where, AddLow(Read(mem, where), offset)) \in Memories
  BY <1>1, WriteIsMemory, Zenon
<1>5. WriteDword(mem, where, (ReadDword(mem, where) + offset) % WordMod) \in Memories
  BY <1>2, WriteDwordIsMemory, Zenon
<1> QED
  BY <1>3, <1>4, <1>5 DEF Relocate, HIGH, LOW, HIGHLOW, DIR32

-----------------------------------------------------------------------------
(* Files and their sections *)

Section == [VirtualAddress : Nat, PointerToRawData : Nat, SizeOfRawData : Nat]

\* What a file holds.
LEMMA ImageTyped ==
    ASSUME NEW name \in Files
    PROVE  LET image == Image[name] IN
           /\ image.words \in Seq(Words)
           /\ image.ImageBase \in Nat /\ image.reloc \in Nat
           /\ image.SizeOfImage \in 1..Low /\ image.SizeOfImage \in Nat \ {0}
           /\ image.sections \in Seq(Section)
           /\ Range(image.sections) \subseteq Section
           /\ \A s \in Range(image.sections) : s.VirtualAddress >= Processed
           /\ \A f \in image.fields : f.rva \in Nat /\ f.target \in Nat
<1> DEFINE image == Image[name]
<1>1. image.words \in Seq(Words) /\ image.sections \in Seq(Section)
  BY ImagesAssumption, Zenon DEF Words, Section
<1>2. image.ImageBase \in Nat /\ image.reloc \in Nat
  BY ImagesAssumption
<1>3. /\ image.SizeOfImage \in 1..Low
      /\ \A s \in Range(image.sections) : s.VirtualAddress >= Processed
  BY LoaderAssumption, Zenon
<1>4. image.SizeOfImage \in Nat \ {0}
  BY <1>3, Constants
<1>5. \A f \in image.fields : f.rva \in Nat /\ f.target \in Nat
  BY ImagesAssumption
<1> HIDE DEF image
<1>6. Range(image.sections) \subseteq Section
  BY <1>1 DEF Range
<1> QED
  BY <1>1, <1>2, <1>3, <1>4, <1>5, <1>6, Zenon DEF image

\* Of a file whose sections fit, a section's words are the file's.
LEMMA WordOfSection ==
    ASSUME NEW name \in Files, SectionsFit(Image[name]),
           NEW s \in Range(Image[name].sections), NEW rva \in Rvas(s)
    PROVE  LET image == Image[name]
               k == s.PointerToRawData + rva - s.VirtualAddress
           IN  /\ FileWord(image, rva) = image.words[k + 1]
               /\ image.words[k + 1] \in Words
               /\ k \in Nat /\ k < Len(image.words) /\ k < BufferSize
               /\ rva \in Processed .. (image.SizeOfImage - 1)
<1> DEFINE image == Image[name]
           t == CHOOSE t \in Range(image.sections) : rva \in Rvas(t)
<1>1. t \in Range(image.sections) /\ rva \in Rvas(t)
  BY Zenon
<1>2. Rvas(s) \cap Rvas(t) # {}
  BY <1>1
<1>3. s = t
  BY <1>1, <1>2, Zenon DEF SectionsFit
<1>4. FileWord(image, rva) = image.words[s.PointerToRawData + rva - s.VirtualAddress + 1]
  <2> HIDE DEF image
  <2> QED
    BY <1>3, Zenon DEF FileWord
<1> HIDE DEF t
<1>5. /\ s.VirtualAddress \in Nat /\ s.PointerToRawData \in Nat /\ s.SizeOfRawData \in Nat
      /\ s.VirtualAddress >= Processed
  BY ImageTyped, Zenon DEF Section
<1>6. /\ image.words \in Seq(Words) /\ Len(image.words) \in Nat
      /\ image.SizeOfImage \in Nat
  BY ImageTyped
<1>7. /\ Len(image.words) <= BufferSize
      /\ s.PointerToRawData + s.SizeOfRawData <= Len(image.words)
      /\ s.VirtualAddress + s.SizeOfRawData <= image.SizeOfImage
  BY Zenon DEF SectionsFit
<1>8. rva \in s.VirtualAddress .. (s.VirtualAddress + s.SizeOfRawData - 1)
  BY Zenon DEF Rvas
<1> DEFINE k == s.PointerToRawData + rva - s.VirtualAddress
<1> HIDE DEF image
<1>9. /\ k \in Nat /\ k < Len(image.words) /\ k < BufferSize
      /\ rva \in Processed .. (image.SizeOfImage - 1)
  <2>1. Processed \in Nat /\ BufferSize \in Nat
    BY Constants
  <2>2. \A v, p, n, len, size, x \in Nat :
           /\ x \in v .. (v + n - 1) /\ p + n <= len /\ v + n <= size
           => /\ p + x - v \in Nat /\ p + x - v < len /\ x < size /\ x >= v
    OBVIOUS
  <2>3. rva \in Nat
    BY <1>5, <1>8
  <2>4. /\ k \in Nat /\ k < Len(image.words) /\ rva < image.SizeOfImage
        /\ rva >= s.VirtualAddress
    BY <1>5, <1>6, <1>7, <1>8, <2>2, <2>3, Zenon
  <2> HIDE DEF k
  <2> QED
    BY <1>5, <1>6, <1>7, <2>1, <2>3, <2>4
<1>10. image.words[k + 1] \in Words
  BY <1>6, <1>9
<1> QED
  BY <1>4, <1>9, <1>10, Zenon DEF image

\* So are those of its image, which begin behind the headers' page.
LEMMA CopiedIsInside ==
    ASSUME NEW name \in Files, SectionsFit(Image[name]), NEW rva \in CopiedRvas(Image[name])
    PROVE  /\ rva \in Processed .. (Image[name].SizeOfImage - 1)
           /\ rva \in Nat /\ rva < Image[name].SizeOfImage
           /\ FileWord(Image[name], rva) \in Words
<1>1. PICK s \in Range(Image[name].sections) : rva \in Rvas(s)
  BY Zenon DEF CopiedRvas
<1>2. /\ rva \in Processed .. (Image[name].SizeOfImage - 1)
      /\ FileWord(Image[name], rva) \in Words
  BY <1>1, WordOfSection
<1>3. Image[name].SizeOfImage \in Nat /\ Processed \in Nat
  BY ImageTyped, Constants
<1> QED
  BY <1>2, <1>3

\* A set of places of a sequence that is not empty has a last one.
LEMMA LastElement ==
    ASSUME NEW n \in Nat, NEW S \in SUBSET (1..n), S # {}
    PROVE  Max(S) \in S
<1> DEFINE T == {k \in 0..n : n - k \in S}
<1>1. T \in SUBSET Nat /\ T # {}
  <2>1. PICK x \in S : TRUE
    OBVIOUS
  <2>2. n - x \in 0..n /\ n - (n - x) = x
    OBVIOUS
  <2>3. n - x \in T
    BY <2>2
  <2>4. T \in SUBSET Nat
    OBVIOUS
  <2> HIDE DEF T
  <2> QED
    BY <2>3, <2>4
<1>2. PICK m \in T : \A k \in T : m <= k
  <2> HIDE DEF T
  <2> QED
    BY <1>1, LeastElement
<1>3. n - m \in S /\ \A y \in S : n - m >= y
  <2>1. \A y \in S : n - y \in T /\ n - y \in Int /\ y \in Int
    OBVIOUS
  <2> QED
    BY <1>2, <2>1
<1> QED
  BY <1>3, Zenon DEF Max

\* What is in the buffer, or on the stack behind it, are words.
LEMMA BufferedIsWord ==
    ASSUME NEW name \in Files, NEW junk \in Stale, NEW k \in Nat
    PROVE  Buffered(Image[name], junk, k) \in Words
<1>1. junk \in Words \X Words
  BY LoaderAssumption, Zenon DEF Words
<1>2. k % 2 \in 0..1
  BY SMTT(10)
<1>3. junk[1 + (k % 2)] \in Words
  BY <1>1, <1>2
<1>4. k < Len(Image[name].words) => Image[name].words[k + 1] \in Words
  <2> DEFINE words == Image[name].words
  <2>1. words \in Seq(Words)
    BY ImageTyped
  <2> HIDE DEF words
  <2> QED
    BY <2>1 DEF words
<1> QED
  BY <1>3, <1>4, Zenon DEF Buffered

\* What LdrProcessPe stores is words, in front of everything else.
LEMMA ProcessPeIsMemory ==
    ASSUME NEW name \in Files, NEW junk \in Stale, memory \in Memories
    PROVE  /\ LdrProcessPe(Image[name], junk) \in Memories
           /\ \A a \in Addresses : a >= Processed
                 => LdrProcessPe(Image[name], junk)[a] = memory[a]
<1>1. Processed \in Nat /\ Addresses \subseteq Nat
  BY Constants DEF Addresses
<1>2. \A a \in Addresses : Buffered(Image[name], junk, a) \in Words /\ memory[a] \in Words
  BY <1>1, BufferedIsWord, Zenon DEF Memories
<1>3. LdrProcessPe(Image[name], junk) \in Memories
  BY <1>2, Zenon DEF LdrProcessPe, Memories
<1>4. \A a \in Addresses : a >= Processed => ~ a < Processed
  BY <1>1
<1> QED
  BY <1>3, <1>4, Zenon DEF LdrProcessPe

\* The words a section is copied to, as LdrCpySections has them.
LEMMA CoversIsRva ==
    ASSUME NEW s \in Section, NEW a \in Int, NEW to \in Int
    PROVE  a - (to + s.VirtualAddress) \in 0..(s.SizeOfRawData - 1) <=> a - to \in Rvas(s)
BY DEF Section, Rvas

\* Copying sections stores words, of the last section that has the place.
LEMMA CopiedFromSection ==
    ASSUME NEW name \in Files, NEW junk \in Stale, NEW to \in Int, NEW mem \in Memories,
           NEW a \in Addresses
    PROVE  \/ /\ a - to \notin CopiedRvas(Image[name])
              /\ LdrCpySections(Image[name], junk, to, mem)[a] = mem[a]
           \/ \E s \in Range(Image[name].sections) :
                 /\ a - to \in Rvas(s)
                 /\ LdrCpySections(Image[name], junk, to, mem)[a] =
                       Buffered(Image[name], junk, s.PointerToRawData + (a - to) - s.VirtualAddress)
<1> DEFINE image == Image[name]
           covers(s) == a - (to + s.VirtualAddress) \in 0..(s.SizeOfRawData - 1)
           S == {n \in DOMAIN image.sections : covers(image.sections[n])}
           offset(s) == s.PointerToRawData + a - (to + s.VirtualAddress)
           copied == LdrCpySections(image, junk, to, mem)
<1>1. a \in Int
  BY DEF Addresses
<1>2. image.sections \in Seq(Section) /\ Range(image.sections) \subseteq Section
  BY ImageTyped
<1>3. \A s \in Range(image.sections) : covers(s) <=> a - to \in Rvas(s)
  BY <1>1, <1>2, CoversIsRva
<1>4. copied[a] = IF \E s \in Range(image.sections) : covers(s)
                  THEN Buffered(image, junk, offset(image.sections[Max(S)]))
                  ELSE mem[a]
  <2> HIDE DEF image
  <2> QED
    BY Zenon DEF LdrCpySections
<1> HIDE DEF image, copied, covers
<1>5. CASE \E s \in Range(image.sections) : covers(s)
  <2>1. DOMAIN image.sections = 1..Len(image.sections) /\ Len(image.sections) \in Nat
    BY <1>2
  <2>2. S # {}
    BY <1>5, Zenon DEF Range
  <2>3. Max(S) \in S
    BY <2>1, <2>2, LastElement
  <2> DEFINE s == image.sections[Max(S)]
  <2>4. s \in Range(image.sections) /\ covers(s)
    BY <2>3, Zenon DEF Range
  <2>5. s \in Section /\ a - to \in Rvas(s)
    BY <1>2, <1>3, <2>4, Zenon
  <2>6. copied[a] = Buffered(image, junk, offset(s))
    BY <1>4, <1>5
  <2> HIDE DEF s
  <2>7. offset(s) = s.PointerToRawData + (a - to) - s.VirtualAddress
    BY <1>1, <2>5 DEF Section
  <2> QED
    BY <2>4, <2>5, <2>6, <2>7, Zenon DEF image, copied
<1>6. CASE ~ \E s \in Range(image.sections) : covers(s)
  <2>1. copied[a] = mem[a]
    BY <1>4, <1>6, Zenon
  <2>2. a - to \notin CopiedRvas(image)
    BY <1>3, <1>6, Zenon DEF CopiedRvas
  <2> QED
    BY <2>1, <2>2, Zenon DEF image, copied
<1> QED
  BY <1>5, <1>6, Zenon

\* So what is in memory then is words.
LEMMA CopyIsMemory ==
    ASSUME NEW name \in Files, NEW junk \in Stale, NEW to \in Int, NEW mem \in Memories
    PROVE  LdrCpySections(Image[name], junk, to, mem) \in Memories
<1> DEFINE copied == LdrCpySections(Image[name], junk, to, mem)
<1>1. ASSUME NEW a \in Addresses PROVE copied[a] \in Words
  <2>1. CASE copied[a] = mem[a]
    BY <2>1, Zenon DEF Memories
  <2>2. ASSUME NEW s \in Range(Image[name].sections), a - to \in Rvas(s),
               copied[a] = Buffered(Image[name], junk,
                                    s.PointerToRawData + (a - to) - s.VirtualAddress)
        PROVE  copied[a] \in Words
    <3>1. s \in Section
      BY ImageTyped
    <3>2. s.PointerToRawData + (a - to) - s.VirtualAddress \in Nat
      BY <2>2, <3>1 DEF Section, Rvas, Addresses
    <3>3. Buffered(Image[name], junk, s.PointerToRawData + (a - to) - s.VirtualAddress) \in Words
      BY <3>2, BufferedIsWord, Zenon
    <3> QED
      BY <2>2, <3>3, Zenon
  <2> HIDE DEF copied
  <2> QED
    BY <2>1, <2>2, CopiedFromSection, ZenonT(60) DEF copied
<1>2. copied = [a \in Addresses |-> copied[a]]
  BY Zenon DEF LdrCpySections
<1> QED
  BY <1>1, <1>2, Zenon DEF Memories

\* Of a file whose sections fit, every word of a section is the file's afterwards,
\* and nothing else was written.
LEMMA CopiedIsFile ==
    ASSUME NEW name \in Files, SectionsFit(Image[name]),
           NEW junk \in Stale, NEW to \in Int, NEW mem \in Memories, NEW a \in Addresses
    PROVE  LET copied == LdrCpySections(Image[name], junk, to, mem)
           IN  copied[a] = IF a - to \in CopiedRvas(Image[name]) THEN FileWord(Image[name], a - to)
                           ELSE mem[a]
<1> DEFINE image == Image[name]
           copied == LdrCpySections(image, junk, to, mem)
<1>1. CASE a - to \notin CopiedRvas(image) /\ copied[a] = mem[a]
  BY <1>1, Zenon
<1>2. ASSUME NEW s \in Range(image.sections), a - to \in Rvas(s),
             copied[a] = Buffered(image, junk, s.PointerToRawData + (a - to) - s.VirtualAddress)
      PROVE  a - to \in CopiedRvas(image) /\ copied[a] = FileWord(image, a - to)
  <2> DEFINE k == s.PointerToRawData + (a - to) - s.VirtualAddress
  <2>1. /\ FileWord(image, a - to) = image.words[k + 1]
        /\ k < Len(image.words) /\ k < BufferSize
    BY <1>2, WordOfSection, Zenon
  <2>2. Buffered(image, junk, k) = image.words[k + 1]
    <3> HIDE DEF image, k
    <3> QED
      BY <2>1, Zenon DEF Buffered
  <2>3. a - to \in CopiedRvas(image)
    BY <1>2, Zenon DEF CopiedRvas
  <2> HIDE DEF image, copied
  <2> QED
    BY <1>2, <2>1, <2>2, <2>3, Zenon
<1>3. \/ a - to \notin CopiedRvas(image) /\ copied[a] = mem[a]
      \/ \E s \in Range(image.sections) :
            /\ a - to \in Rvas(s)
            /\ copied[a] = Buffered(image, junk, s.PointerToRawData + (a - to) - s.VirtualAddress)
  BY CopiedFromSection, Zenon
<1> HIDE DEF image, copied
<1>4. copied[a] = IF a - to \in CopiedRvas(image) THEN FileWord(image, a - to) ELSE mem[a]
  BY <1>1, <1>2, <1>3, Zenon
<1> QED
  BY <1>4, Zenon DEF image, copied

-----------------------------------------------------------------------------
(* The list of relocations of a complete file *)

Listed(image) == image.reloc .. (Relocations(image).end + 1)

\* A complete file has one.
LEMMA RelocationsExist ==
    ASSUME NEW name \in Complete
    PROVE  /\ name \in Files
           /\ SectionsFit(Image[name]) /\ FieldsAreLinked(Image[name])
           /\ IsRelocations(Image[name], Relocations(Image[name]))
<1> DEFINE image == Image[name]
<1>1. name \in Files /\ IsComplete(image)
  BY Zenon DEF Complete
<1> HIDE DEF image
<1>2. PICK end \in CopiedRvas(image) :
         \E starts \in SUBSET (image.reloc .. (end - HeaderSize)) :
            IsBlockList(image, starts, end) /\ ListsFields(image, starts, end)
  BY <1>1, Zenon DEF IsComplete
<1>2a. PICK starts \in SUBSET (image.reloc .. (end - HeaderSize)) :
          IsBlockList(image, starts, end) /\ ListsFields(image, starts, end)
  BY <1>2, Zenon
<1> DEFINE r == [end |-> end, starts |-> starts]
<1>3. r.end = end /\ r.starts = starts
  OBVIOUS
<1>4. IsRelocations(image, r)
  <2> HIDE DEF r
  <2> QED
    BY <1>2, <1>2a, <1>3, Zenon DEF IsRelocations
<1>5. IsRelocations(image, Relocations(image))
  <2> HIDE DEF r
  <2> QED
    BY <1>4, Zenon DEF Relocations
<1> QED
  BY <1>1, <1>5, Zenon DEF IsComplete, image

\* A dword of the file within its sections.
LEMMA FileDwordIsNat ==
    ASSUME NEW name \in Complete, NEW rva \in Int,
           rva \in CopiedRvas(Image[name]), rva + 1 \in CopiedRvas(Image[name])
    PROVE  /\ FileDword(Image[name], rva) \in 0..(WordMod - 1)
           /\ FileDword(Image[name], rva) \in Nat
<1>1. FileWord(Image[name], rva) \in Words /\ FileWord(Image[name], rva + 1) \in Words
  BY RelocationsExist, CopiedIsInside, Zenon
<1>2. FileWord(Image[name], rva) + HalfMod * FileWord(Image[name], rva + 1)
         \in 0..(HalfMod * HalfMod - 1)
  BY <1>1, Constants, TwoHalves, Zenon DEF Words
<1>3. FileDword(Image[name], rva) \in 0..(WordMod - 1)
  BY <1>2, Zenon DEF FileDword, WordMod
<1> QED
  BY <1>3, Constants

\* Its blocks follow each other from the first to the zero behind the last.
LEMMA ListShape ==
    ASSUME NEW name \in Complete
    PROVE  LET image == Image[name]
               r == Relocations(image)
           IN  /\ image.reloc \in Nat /\ r.end \in Nat /\ image.reloc <= r.end
               /\ r.end + 1 < image.SizeOfImage
               /\ Listed(image) \subseteq CopiedRvas(image)
               /\ r.starts \subseteq image.reloc .. (r.end - HeaderSize)
               /\ image.reloc \in r.starts \cup {r.end}
               /\ FileDword(image, r.end) = 0
<1> DEFINE image == Image[name]
           r == Relocations(image)
<1>1. name \in Files /\ SectionsFit(image) /\ IsRelocations(image, r)
  BY RelocationsExist, Zenon
<1>2. image.reloc \in Nat /\ image.SizeOfImage \in Nat
  BY <1>1, ImageTyped
<1> HIDE DEF r
<1>3. /\ r.end \in CopiedRvas(image)
      /\ image.reloc .. (r.end + 1) \subseteq CopiedRvas(image)
      /\ r.starts \subseteq image.reloc .. (r.end - HeaderSize)
      /\ image.reloc \in r.starts \cup {r.end}
      /\ FileDword(image, r.end) = 0
  BY <1>1, Zenon DEF IsRelocations, IsBlockList
<1>4. r.end \in Nat
  BY <1>1, <1>3, CopiedIsInside, Zenon
<1>5. image.reloc <= r.end
  BY <1>2, <1>3, <1>4 DEF HeaderSize
<1>6. r.end + 1 < image.SizeOfImage
  <2>1. r.end + 1 \in CopiedRvas(image)
    BY <1>2, <1>3, <1>4, <1>5
  <2> QED
    BY <1>1, <2>1, CopiedIsInside, Zenon
<1> QED
  BY <1>2, <1>3, <1>4, <1>5, <1>6, Zenon DEF Listed, r

\* One block of the list.
LEMMA BlockShape ==
    ASSUME NEW name \in Complete, NEW b \in Relocations(Image[name]).starts
    PROVE  LET image == Image[name]
               r == Relocations(image)
               size == FileDword(image, b + 2)
           IN  /\ b \in Nat /\ b # r.end
               /\ FileDword(image, b) # 0
               /\ size \in Nat /\ size >= HeaderSize /\ size < image.SizeOfImage
               /\ Behind(image, b) = b + size /\ b + size <= r.end
               /\ Behind(image, b) \in r.starts \cup {r.end}
               /\ \A c \in r.starts : c > b => c >= Behind(image, b)
<1> DEFINE image == Image[name]
           r == Relocations(image)
           size == FileDword(image, b + 2)
<1>1. name \in Files /\ SectionsFit(image) /\ IsRelocations(image, r)
  BY RelocationsExist, Zenon
<1>2. /\ image.reloc \in Nat /\ r.end \in Nat /\ image.reloc <= r.end
      /\ r.end + 1 < image.SizeOfImage
      /\ Listed(image) \subseteq CopiedRvas(image)
      /\ r.starts \subseteq image.reloc .. (r.end - HeaderSize)
  BY ListShape, Zenon
<1>3. image.SizeOfImage \in Nat
  BY <1>1, ImageTyped
<1>4. image.reloc .. (r.end + 1) \subseteq CopiedRvas(image)
  BY <1>2, Zenon DEF Listed
<1> HIDE DEF r, image
<1>5. b \in image.reloc .. (r.end - HeaderSize)
  BY <1>2, Zenon DEF image, r
<1>6. b \in Nat /\ b # r.end /\ b + 2 \in Int /\ b + 2 \in image.reloc .. (r.end + 1)
      /\ b + 2 + 1 \in image.reloc .. (r.end + 1)
  BY <1>2, <1>5 DEF HeaderSize
<1>7. size \in Nat
  <2>1. b + 2 \in CopiedRvas(image) /\ b + 2 + 1 \in CopiedRvas(image)
    BY <1>4, <1>6, Zenon
  <2> QED
    BY <1>6, <2>1, FileDwordIsNat, Zenon DEF image
<1>8. /\ FileDword(image, b) # 0
      /\ Behind(image, b) \in r.starts \cup {r.end}
      /\ Behind(image, b) >= b + HeaderSize
      /\ \A c \in r.starts : c > b => c >= Behind(image, b)
  BY <1>1, Zenon DEF IsRelocations, IsBlockList, image, r
<1>9. Behind(image, b) = b + size
  BY Zenon DEF Behind
<1> HIDE DEF size
<1>10. size >= HeaderSize
  BY <1>6, <1>7, <1>8, <1>9 DEF HeaderSize
<1>11. b + size <= r.end
  BY <1>2, <1>6, <1>7, <1>8, <1>9 DEF HeaderSize
<1>12. size < image.SizeOfImage
  BY <1>2, <1>3, <1>6, <1>7, <1>11
<1> QED
  BY <1>6, <1>7, <1>8, <1>9, <1>10, <1>11, <1>12, Zenon DEF image, r, size

\* An entry touches words of the image, none of them the list's, that no other does.
LEMMA EntriesAreApart ==
    ASSUME NEW name \in Complete, NEW p \in PlacesOf(Image[name])
    PROVE  LET image == Image[name] IN
           /\ Touched(EntryAt(image, p)) \subseteq CopiedRvas(image)
           /\ Touched(EntryAt(image, p)) \cap Listed(image) = {}
           /\ \A q \in PlacesOf(image) :
                 Touched(EntryAt(image, p)) \cap Touched(EntryAt(image, q)) # {} => p = q
<1> DEFINE image == Image[name]
           r == Relocations(image)
<1>1. ListsFields(image, r.starts, r.end)
  BY RelocationsExist, Zenon DEF IsRelocations
<1> HIDE DEF image
<1>2. Touched(EntryAt(image, p)) \subseteq CopiedRvas(image) \ (image.reloc .. (r.end + 1))
  BY <1>1, Zenon DEF ListsFields, PlacesOf, image
<1>3. \A q \in PlacesOf(image) :
         Touched(EntryAt(image, p)) \cap Touched(EntryAt(image, q)) # {} => p = q
  BY <1>1, Zenon DEF ListsFields, PlacesOf, image
<1>4. Listed(image) = image.reloc .. (r.end + 1)
  BY Zenon DEF Listed
<1> HIDE DEF r
<1>5. /\ Touched(EntryAt(image, p)) \subseteq CopiedRvas(image)
      /\ Touched(EntryAt(image, p)) \cap Listed(image) = {}
  <2> DEFINE T == Touched(EntryAt(image, p))
             L == image.reloc .. (r.end + 1)
             C == CopiedRvas(image)
  <2>1. T \subseteq C \ L
    BY <1>2
  <2> HIDE DEF T, L, C
  <2>2. T \subseteq C /\ T \cap L = {}
    BY <2>1, Zenon
  <2> QED
    BY <1>4, <2>2, Zenon DEF T, L, C
<1> QED
  BY <1>3, <1>5, Zenon DEF image

\* A place of an entry, in the list.
LEMMA PlaceIsListed ==
    ASSUME NEW name \in Complete, NEW b \in Relocations(Image[name]).starts, NEW i \in Nat,
           i < FileDword(Image[name], b + 2) - HeaderSize
    PROVE  /\ <<b, i>> \in PlacesOf(Image[name])
           /\ {b, b + 1, b + 2, b + 3, b + HeaderSize + i} \subseteq Listed(Image[name])
<1> DEFINE image == Image[name]
           r == Relocations(image)
           size == FileDword(image, b + 2)
<1>1. /\ b \in Nat /\ size \in Nat /\ size >= HeaderSize /\ size < image.SizeOfImage
      /\ Behind(image, b) = b + size /\ b + size <= r.end
  BY BlockShape, Zenon
<1>2. name \in Files
  BY RelocationsExist, Zenon
<1>3. image.SizeOfImage \in Nat /\ image.reloc \in Nat
  BY <1>2, ImageTyped
<1>4. r.end \in Nat /\ r.starts \subseteq image.reloc .. (r.end - HeaderSize)
  BY ListShape, Zenon
<1>5. i < size - HeaderSize
  OBVIOUS
<1> HIDE DEF size
<1>6. i \in 0..image.SizeOfImage /\ b + HeaderSize + i < Behind(image, b)
  BY <1>1, <1>3, <1>5 DEF HeaderSize
<1>7. <<b, i>> \in PlacesOf(image)
  <2> HIDE DEF image
  <2>1. b \in Relocations(image).starts
    BY DEF image
  <2> QED
    BY <1>6, <2>1 DEF PlacesOf, Places
<1>8. b >= image.reloc
  <2>1. b \in image.reloc .. (r.end - HeaderSize)
    BY <1>4
  <2> QED
    BY <1>3, <1>4, <2>1 DEF HeaderSize
<1>9. {b, b + 1, b + 2, b + 3, b + HeaderSize + i} \subseteq image.reloc .. (r.end + 1)
  <2> HIDE DEF image, r
  <2> QED
    BY <1>1, <1>3, <1>4, <1>5, <1>8 DEF HeaderSize
<1> QED
  BY <1>7, <1>9, Zenon DEF Listed

\* What was done before an entry is none of the list's, and its own words are not
\* among them; afterwards they are.
LEMMA DoneByEntry ==
    ASSUME NEW name \in Complete, NEW b \in Nat, NEW i \in Nat,
           <<b, i>> \in PlacesOf(Image[name])
    PROVE  LET image == Image[name]
               touched == Touched(EntryAt(image, <<b, i>>))
           IN  /\ Done(image, b, i + 1) = Done(image, b, i) \cup touched
               /\ Done(image, b, i) \cap touched = {}
<1> DEFINE image == Image[name]
           places == PlacesOf(image)
           Before(k) == {q \in places : q[1] < b \/ (q[1] = b /\ q[2] < k)}
           touched(q) == Touched(EntryAt(image, q))
<1>1. \A q \in places : q[1] \in Nat /\ q[2] \in Nat /\ q = <<q[1], q[2]>>
  <2>1. places = Places(image, Relocations(image).starts)
    BY Zenon DEF PlacesOf
  <2>2. image.reloc \in Nat /\ Relocations(image).end \in Nat
        /\ Relocations(image).starts \subseteq image.reloc .. (Relocations(image).end - HeaderSize)
    BY ListShape, Zenon
  <2> HIDE DEF image
  <2> QED
    BY <2>1, <2>2 DEF Places, HeaderSize
<1>2. <<b, i>> \in places
  OBVIOUS
<1>3. \A q, o \in places : touched(q) \cap touched(o) # {} => q = o
  BY EntriesAreApart, Zenon
<1> HIDE DEF places, image, touched
<1>4. Before(i + 1) = Before(i) \cup {<<b, i>>}
  <2>1. ASSUME NEW q \in places
        PROVE  q \in Before(i + 1) <=> q \in Before(i) \/ q = <<b, i>>
    BY <1>1
  <2> QED
    BY <1>2, <2>1
<1>5. <<b, i>> \notin Before(i)
  BY <1>2
<1> HIDE DEF Before
<1>6. Done(image, b, i + 1) = UNION {touched(q) : q \in Before(i + 1)}
  BY Zenon DEF Done, Before, places, touched
<1>7. Done(image, b, i) = UNION {touched(q) : q \in Before(i)}
  BY Zenon DEF Done, Before, places, touched
<1>8. Done(image, b, i + 1) = Done(image, b, i) \cup touched(<<b, i>>)
  BY <1>4, <1>6, <1>7
<1>9. Done(image, b, i) \cap touched(<<b, i>>) = {}
  <2>1. Before(i) \subseteq places
    BY Zenon DEF Before
  <2> SUFFICES ASSUME NEW x \in Done(image, b, i), x \in touched(<<b, i>>) PROVE FALSE
    BY Zenon
  <2>2. PICK q \in Before(i) : x \in touched(q)
    BY <1>7, Zenon
  <2>3. q = <<b, i>>
    BY <1>2, <1>3, <2>1, <2>2, Zenon
  <2> QED
    BY <1>5, <2>2, <2>3, Zenon
<1> QED
  BY <1>8, <1>9, Zenon DEF image, touched

\* The list itself is never written to.
LEMMA DoneIsApart ==
    ASSUME NEW name \in Complete, NEW b, NEW i, NEW rva \in Listed(Image[name])
    PROVE  rva \notin Done(Image[name], b, i)
<1> DEFINE image == Image[name]
<1> SUFFICES ASSUME rva \in Done(image, b, i) PROVE FALSE
  OBVIOUS
<1>1. PICK p \in PlacesOf(image) : rva \in Touched(EntryAt(image, p))
  <2> HIDE DEF image
  <2> QED
    BY Zenon DEF Done
<1>2. Touched(EntryAt(image, p)) \cap Listed(image) = {}
  BY EntriesAreApart, Zenon
<1> QED
  BY <1>1, <1>2

\* Going on to the next block, all entries before it are those done.
LEMMA DoneByBlock ==
    ASSUME NEW name \in Complete, NEW b \in Relocations(Image[name]).starts, NEW i \in Nat,
           i >= FileDword(Image[name], b + 2) - HeaderSize
    PROVE  Done(Image[name], Behind(Image[name], b), 0) = Done(Image[name], b, i)
<1> DEFINE image == Image[name]
           r == Relocations(image)
           places == PlacesOf(image)
           next == Behind(image, b)
           size == FileDword(image, b + 2)
<1>1. /\ b \in Nat /\ size \in Nat /\ size >= HeaderSize /\ next = b + size
      /\ \A c \in r.starts : c > b => c >= next
  BY BlockShape, Zenon
<1>2. /\ image.reloc \in Nat /\ r.end \in Nat
      /\ r.starts \subseteq image.reloc .. (r.end - HeaderSize)
  BY ListShape, Zenon
<1>3. places = {p \in r.starts \X (0..image.SizeOfImage) :
                  p[1] + HeaderSize + p[2] < Behind(image, p[1])}
  BY Zenon DEF PlacesOf, Places
<1>4. i >= size - HeaderSize
  OBVIOUS
<1> HIDE DEF places, image, size, next, r
<1>5. \A q \in places : /\ q[1] \in r.starts /\ q[1] \in Nat /\ q[2] \in Nat
                        /\ q[1] + HeaderSize + q[2] < Behind(image, q[1])
  <2>1. \A c \in r.starts : c \in Nat
    BY <1>2 DEF HeaderSize
  <2> QED
    BY <1>3, <2>1
<1>6. ASSUME NEW q \in places
      PROVE  q[1] < next \/ (q[1] = next /\ q[2] < 0) <=> q[1] < b \/ (q[1] = b /\ q[2] < i)
  <2> DEFINE c == q[1]
             k == q[2]
  <2>1. c \in r.starts /\ c \in Nat /\ k \in Nat /\ c + HeaderSize + k < Behind(image, c)
    BY <1>5
  <2> HIDE DEF c, k
  <2>2. c > b => c >= next
    BY <1>1, <2>1
  <2>3. c = b => k < i
    <3>1. c = b => c + HeaderSize + k < next
      BY <2>1, Zenon DEF next, image
    <3> QED
      BY <1>1, <1>4, <2>1, <3>1 DEF HeaderSize
  <2>4. next > b
    BY <1>1 DEF HeaderSize
  <2>5. c < next \/ (c = next /\ k < 0) <=> c < b \/ (c = b /\ k < i)
    <3>1. next \in Nat
      BY <1>1
    <3> QED
      BY <1>1, <2>1, <2>2, <2>3, <2>4, <3>1
  <2> QED
    BY <2>5 DEF c, k
<1>7. {q \in places : q[1] < next \/ (q[1] = next /\ q[2] < 0)}
         = {q \in places : q[1] < b \/ (q[1] = b /\ q[2] < i)}
  BY <1>6, Zenon
<1> QED
  BY <1>7, Zenon DEF Done, places, next, image

\* At the first block nothing is done.
LEMMA DoneAtFirst ==
    ASSUME NEW name \in Complete
    PROVE  Done(Image[name], Image[name].reloc, 0) = {}
<1> DEFINE image == Image[name]
           r == Relocations(image)
<1>1. /\ image.reloc \in Nat /\ r.end \in Nat
      /\ r.starts \subseteq image.reloc .. (r.end - HeaderSize)
  BY ListShape, Zenon
<1>2. PlacesOf(image) = {p \in r.starts \X (0..image.SizeOfImage) :
                            p[1] + HeaderSize + p[2] < Behind(image, p[1])}
  BY Zenon DEF PlacesOf, Places
<1> HIDE DEF image, r
<1>3. \A q \in PlacesOf(image) : q[1] \in Nat /\ q[1] >= image.reloc /\ q[2] \in Nat
  <2>1. \A c \in r.starts : c \in Nat /\ c >= image.reloc
    BY <1>1 DEF HeaderSize
  <2> QED
    BY <1>2, <2>1
<1>4. {q \in PlacesOf(image) : q[1] < image.reloc \/ (q[1] = image.reloc /\ q[2] < 0)} = {}
  <2>1. image.reloc \in Nat
    BY <1>1
  <2> DEFINE reloc == image.reloc
  <2> HIDE DEF reloc
  <2>2. ASSUME NEW q \in PlacesOf(image) PROVE ~ (q[1] < reloc \/ (q[1] = reloc /\ q[2] < 0))
    <3>1. q[1] \in Nat /\ q[1] >= reloc /\ q[2] \in Nat /\ reloc \in Nat
      BY <1>3, <2>1, Zenon DEF reloc
    <3> QED
      BY <3>1
  <2> QED
    BY <2>2, Zenon DEF reloc
<1>5. Done(image, image.reloc, 0)
         = UNION {Touched(EntryAt(image, p)) :
             p \in {q \in PlacesOf(image) : q[1] < image.reloc \/ (q[1] = image.reloc /\ q[2] < 0)}}
  BY Zenon DEF Done
<1>6. Done(image, image.reloc, 0) = {}
  BY <1>4, <1>5
<1> QED
  BY <1>6, Zenon DEF image

-----------------------------------------------------------------------------
(* Fields and entries *)

\* A field is one of an entry, which touches what its kind says.
LEMMA FieldHasEntry ==
    ASSUME NEW name \in Complete, NEW f \in Image[name].fields
    PROVE  \E p \in PlacesOf(Image[name]) :
              /\ EntryAt(Image[name], p).rva = f.rva
              /\ EntryAt(Image[name], p).kind = f.kind
              /\ Touched(EntryAt(Image[name], p)) # {}
<1> DEFINE image == Image[name]
           r == Relocations(image)
           field == [rva |-> f.rva, kind |-> f.kind]
<1>1. ListsFields(image, r.starts, r.end)
  BY RelocationsExist, Zenon DEF IsRelocations
<1>2. f \in image.fields
  OBVIOUS
<1> HIDE DEF image
<1>3. {[rva |-> g.rva, kind |-> g.kind] : g \in image.fields}
         = {e \in {EntryAt(image, p) : p \in PlacesOf(image)} : Touched(e) # {}}
  BY <1>1, Zenon DEF ListsFields, PlacesOf
<1>4. field \in {e \in {EntryAt(image, p) : p \in PlacesOf(image)} : Touched(e) # {}}
  BY <1>2, <1>3, Zenon
<1>5. PICK p \in PlacesOf(image) : EntryAt(image, p) = field /\ Touched(field) # {}
  <2> HIDE DEF field
  <2> QED
    BY <1>4, Zenon
<1>6. field.rva = f.rva /\ field.kind = f.kind
  OBVIOUS
<1> HIDE DEF field
<1> QED
  BY <1>5, <1>6, Zenon DEF image

\* An entry that touches anything is that of a field.
LEMMA EntryHasField ==
    ASSUME NEW name \in Complete, NEW p \in PlacesOf(Image[name]),
           Touched(EntryAt(Image[name], p)) # {}
    PROVE  \E f \in Image[name].fields : /\ f.rva = EntryAt(Image[name], p).rva
                                         /\ f.kind = EntryAt(Image[name], p).kind
<1> DEFINE image == Image[name]
           r == Relocations(image)
           e == EntryAt(image, p)
<1>1. ListsFields(image, r.starts, r.end)
  BY RelocationsExist, Zenon DEF IsRelocations
<1>2. p \in PlacesOf(image) /\ Touched(e) # {}
  OBVIOUS
<1> HIDE DEF image
<1>3. {[rva |-> g.rva, kind |-> g.kind] : g \in image.fields}
         = {x \in {EntryAt(image, q) : q \in PlacesOf(image)} : Touched(x) # {}}
  BY <1>1, Zenon DEF ListsFields, PlacesOf
<1>4. e \in {[rva |-> g.rva, kind |-> g.kind] : g \in image.fields}
  BY <1>2, <1>3, Zenon
<1> HIDE DEF e
<1>5. PICK f \in image.fields : e = [rva |-> f.rva, kind |-> f.kind]
  BY <1>4
<1> QED
  BY <1>5 DEF image, e

\* What an entry touches.
LEMMA TouchedByKind ==
    ASSUME NEW e
    PROVE  /\ e.kind = HIGHLOW => Touched(e) = {e.rva, e.rva + 1}
           /\ e.kind \in {HIGH, LOW} => Touched(e) = {e.rva}
           /\ Touched(e) # {} => e.kind \in {HIGH, LOW, HIGHLOW}
BY DEF Touched, HIGH, LOW, HIGHLOW

\* Entries that touch the same word are of one kind and one place.
LEMMA OneEntry ==
    ASSUME NEW name \in Complete, NEW p \in PlacesOf(Image[name]),
           NEW q \in PlacesOf(Image[name]), NEW rva,
           rva \in Touched(EntryAt(Image[name], p)), rva \in Touched(EntryAt(Image[name], q))
    PROVE  p = q
BY EntriesAreApart, Zenon

\* A word no entry touches is linked as it is in the file.
LEMMA UntouchedIsLinked ==
    ASSUME NEW name \in Complete, NEW base, NEW rva,
           \A p \in PlacesOf(Image[name]) : rva \notin Touched(EntryAt(Image[name], p))
    PROVE  Linked(Image[name], base, rva) = FileWord(Image[name], rva)
<1> DEFINE image == Image[name]
<1>1. ASSUME NEW f \in image.fields
      PROVE  /\ rva = f.rva => FALSE
             /\ rva = f.rva + 1 /\ f.kind = HIGHLOW => FALSE
  <2>1. PICK p \in PlacesOf(image) :
           /\ EntryAt(image, p).rva = f.rva /\ EntryAt(image, p).kind = f.kind
           /\ Touched(EntryAt(image, p)) # {}
    BY FieldHasEntry
  <2>2. rva \notin Touched(EntryAt(image, p))
    BY <2>1
  <2> DEFINE e == EntryAt(image, p)
  <2>3. e.rva = f.rva /\ e.kind = f.kind /\ e.kind \in {HIGH, LOW, HIGHLOW}
    BY <2>1, TouchedByKind, Zenon
  <2>4. e.kind = HIGHLOW => Touched(e) = {e.rva, e.rva + 1}
    BY TouchedByKind, Zenon
  <2>5. e.kind \in {HIGH, LOW} => Touched(e) = {e.rva}
    BY TouchedByKind, Zenon
  <2> HIDE DEF e, image
  <2>6. rva \notin Touched(e)
    BY <2>2 DEF e
  <2> QED
    BY <2>3, <2>4, <2>5, <2>6, Zenon
<1> HIDE DEF image
<1>2. Linked(image, base, rva) = FileWord(image, rva)
  BY <1>1, Zenon DEF Linked
<1> QED
  BY <1>2, Zenon DEF image

\* What fields there are at the words an entry touches.
LEMMA FieldsOfEntry ==
    ASSUME NEW name \in Complete, NEW p \in PlacesOf(Image[name]),
           Touched(EntryAt(Image[name], p)) # {}
    PROVE  LET e == EntryAt(Image[name], p) IN
           /\ e.rva \in Nat
           /\ \A f \in Image[name].fields :
                 /\ f.rva \in Nat /\ f.target \in Nat
                 /\ f.rva = e.rva => f.kind = e.kind
                 /\ f.kind = HIGHLOW => f.rva + 1 # e.rva
                 /\ e.kind = HIGHLOW => f.rva # e.rva + 1
<1> DEFINE image == Image[name]
           e == EntryAt(image, p)
<1>1. e.kind \in {HIGH, LOW, HIGHLOW} /\ e.rva \in Touched(e)
      /\ (e.kind = HIGHLOW => e.rva + 1 \in Touched(e))
  <2>1. Touched(e) # {}
    OBVIOUS
  <2> HIDE DEF e
  <2> QED
    BY <2>1, TouchedByKind, Zenon
<1>2. name \in Files /\ SectionsFit(image)
  BY RelocationsExist, Zenon
<1>3. e.rva \in Nat
  <2>1. Touched(e) \subseteq CopiedRvas(image)
    BY EntriesAreApart, Zenon
  <2>2. e.rva \in CopiedRvas(image)
    BY <1>1, <2>1
  <2> QED
    BY <1>2, <2>2, CopiedIsInside, Zenon
<1>4. ASSUME NEW f \in image.fields
      PROVE  /\ f.rva \in Nat /\ f.target \in Nat
             /\ f.rva = e.rva => f.kind = e.kind
             /\ f.kind = HIGHLOW => f.rva + 1 # e.rva
             /\ e.kind = HIGHLOW => f.rva # e.rva + 1
  <2>1. f.rva \in Nat /\ f.target \in Nat
    BY <1>2, ImageTyped
  <2>2. PICK q \in PlacesOf(image) :
           /\ EntryAt(image, q).rva = f.rva /\ EntryAt(image, q).kind = f.kind
           /\ Touched(EntryAt(image, q)) # {}
    BY FieldHasEntry
  <2> DEFINE o == EntryAt(image, q)
  <2>3. o.rva = f.rva /\ o.kind = f.kind /\ o.kind \in {HIGH, LOW, HIGHLOW}
        /\ o.rva \in Touched(o) /\ (o.kind = HIGHLOW => o.rva + 1 \in Touched(o))
    <3>1. o.rva = f.rva /\ o.kind = f.kind /\ Touched(o) # {}
      BY <2>2
    <3> HIDE DEF o
    <3> QED
      BY <3>1, TouchedByKind, Zenon
  <2>4. \A x : x \in Touched(e) /\ x \in Touched(o) => p = q
    BY OneEntry, Zenon
  <2>5. p = q => e = o
    OBVIOUS
  <2> HIDE DEF e, o
  <2>6. f.rva = e.rva => f.kind = e.kind
    BY <1>1, <2>3, <2>4, <2>5, Zenon
  <2>7. f.kind = HIGHLOW /\ f.rva + 1 = e.rva => f.rva = e.rva
    BY <1>1, <2>3, <2>4, <2>5, Zenon
  <2>8. e.kind = HIGHLOW /\ f.rva = e.rva + 1 => f.rva = e.rva
    BY <1>1, <2>3, <2>4, <2>5, Zenon
  <2> QED
    BY <1>3, <2>1, <2>6, <2>7, <2>8
<1> HIDE DEF image, e
<1>5. \A f \in image.fields :
         /\ f.rva \in Nat /\ f.target \in Nat
         /\ f.rva = e.rva => f.kind = e.kind
         /\ f.kind = HIGHLOW => f.rva + 1 # e.rva
         /\ e.kind = HIGHLOW => f.rva # e.rva + 1
  BY <1>4, Zenon
<1> QED
  BY <1>3, <1>5, Zenon DEF image, e

\* A low half an entry relocates is linked then.
LEMMA LowIsLinked ==
    ASSUME NEW name \in Complete, NEW p \in PlacesOf(Image[name]), NEW base \in Nat,
           EntryAt(Image[name], p).kind = LOW
    PROVE  LET image == Image[name]
               rva == EntryAt(image, p).rva
           IN  Linked(image, base, rva) = AddLow(FileWord(image, rva), RelocOffset(base, image))
<1> DEFINE image == Image[name]
           e == EntryAt(image, p)
           rva == e.rva
<1>1. e.kind = LOW /\ Touched(e) # {}
  <2>1. e.kind = LOW
    OBVIOUS
  <2> HIDE DEF e
  <2>2. Touched(e) = {e.rva}
    BY <2>1, TouchedByKind, Zenon
  <2> QED
    BY <2>1, <2>2
<1>2. \A f \in image.fields : f.rva = rva => f.kind = e.kind
  BY <1>1, FieldsOfEntry
<1>3. \E f \in image.fields : f.rva = rva /\ f.kind = e.kind
  BY <1>1, EntryHasField
<1>4. name \in Files /\ FieldsAreLinked(image)
  BY RelocationsExist, Zenon
<1>5. image.ImageBase \in Nat
  BY <1>4, ImageTyped
<1>6. \A f \in image.fields : f.target \in Nat
  BY <1>4, ImageTyped
<1> HIDE DEF image, e
<1> DEFINE f == CHOOSE f \in image.fields : rva = f.rva
<1>7. f \in image.fields /\ rva = f.rva
  BY <1>3, Zenon
<1>8. \E g \in image.fields : rva = g.rva /\ g.kind \in {LOW, HIGHLOW}
  BY <1>1, <1>3, Zenon
<1>9. Linked(image, base, rva) = (base + f.target) % HalfMod
  BY <1>8, Zenon DEF Linked
<1> HIDE DEF f
<1>10. f.kind = LOW /\ f.target \in Nat
  BY <1>1, <1>2, <1>6, <1>7, Zenon
<1>11. FileWord(image, rva) = (image.ImageBase + f.target) % HalfMod
  BY <1>4, <1>7, <1>10, Zenon DEF FieldsAreLinked
<1>12. (((image.ImageBase + f.target) % HalfMod)
           + (((base - image.ImageBase) % (HalfMod * HalfMod)) % HalfMod)) % HalfMod
         = (base + f.target) % HalfMod
  <2>1. image.ImageBase \in Int /\ f.target \in Int /\ base \in Int
    BY <1>5, <1>10
  <2> QED
    BY <2>1, Constants, LowHalfMoves, ZenonT(60)
<1>13. Linked(image, base, rva) = AddLow(FileWord(image, rva), RelocOffset(base, image))
  BY <1>9, <1>11, <1>12, Zenon DEF AddLow, RelocOffset, WordMod
<1> QED
  BY <1>13, Zenon DEF image, e

\* So is a high half, as far as the format can.
LEMMA HighIsLinked ==
    ASSUME NEW name \in Complete, NEW p \in PlacesOf(Image[name]), NEW base \in Nat,
           EntryAt(Image[name], p).kind = HIGH
    PROVE  LET image == Image[name]
               rva == EntryAt(image, p).rva
           IN  Linked(image, base, rva) = AddHigh(FileWord(image, rva), RelocOffset(base, image))
<1> DEFINE image == Image[name]
           e == EntryAt(image, p)
           rva == e.rva
<1>1. e.kind = HIGH /\ Touched(e) # {}
  <2>1. e.kind = HIGH
    OBVIOUS
  <2> HIDE DEF e
  <2>2. Touched(e) = {e.rva}
    BY <2>1, TouchedByKind, Zenon
  <2> QED
    BY <2>1, <2>2
<1>2. \A f \in image.fields : /\ f.rva = rva => f.kind = e.kind
                              /\ f.kind = HIGHLOW => f.rva + 1 # rva
  BY <1>1, FieldsOfEntry
<1>3. \E f \in image.fields : f.rva = rva /\ f.kind = e.kind
  BY <1>1, EntryHasField
<1>4. HIGH # LOW /\ HIGH # HIGHLOW
  BY DEF HIGH, LOW, HIGHLOW
<1> HIDE DEF image, e
<1>5. ~ \E g \in image.fields : rva = g.rva /\ g.kind \in {LOW, HIGHLOW}
  BY <1>1, <1>2, <1>4, Zenon
<1>6. ~ \E g \in image.fields : rva = g.rva + 1 /\ g.kind = HIGHLOW
  BY <1>2, Zenon
<1>7. \E g \in image.fields : rva = g.rva /\ g.kind = HIGH
  BY <1>1, <1>3, Zenon
<1>8. Linked(image, base, rva)
         = (FileWord(image, rva) + ((base - image.ImageBase) % WordMod) \div HalfMod) % HalfMod
  BY <1>5, <1>6, <1>7, Zenon DEF Linked
<1>9. Linked(image, base, rva) = AddHigh(FileWord(image, rva), RelocOffset(base, image))
  BY <1>8, Zenon DEF AddHigh, RelocOffset
<1> QED
  BY <1>9, Zenon DEF image, e

\* And both halves of a field of 32 bits.
LEMMA DwordIsLinked ==
    ASSUME NEW name \in Complete, NEW p \in PlacesOf(Image[name]), NEW base \in Nat,
           EntryAt(Image[name], p).kind = HIGHLOW
    PROVE  LET image == Image[name]
               rva == EntryAt(image, p).rva
               v == (FileDword(image, rva) + RelocOffset(base, image)) % WordMod
           IN  /\ Linked(image, base, rva) = v % HalfMod
               /\ Linked(image, base, rva + 1) = v \div HalfMod
<1> DEFINE image == Image[name]
           e == EntryAt(image, p)
           rva == e.rva
           v == (FileDword(image, rva) + RelocOffset(base, image)) % WordMod
<1>1. e.kind = HIGHLOW /\ Touched(e) # {}
  <2>1. e.kind = HIGHLOW
    OBVIOUS
  <2> HIDE DEF e
  <2>2. Touched(e) = {e.rva, e.rva + 1}
    BY <2>1, TouchedByKind, Zenon
  <2> QED
    BY <2>1, <2>2
<1>2. /\ rva \in Nat
      /\ \A f \in image.fields : /\ f.rva \in Nat
                                 /\ f.rva = rva => f.kind = e.kind
                                 /\ e.kind = HIGHLOW => f.rva # rva + 1
  BY <1>1, FieldsOfEntry
<1>3. \E f \in image.fields : f.rva = rva /\ f.kind = e.kind
  BY <1>1, EntryHasField
<1>4. name \in Files /\ FieldsAreLinked(image)
  BY RelocationsExist, Zenon
<1>5. image.ImageBase \in Nat
  BY <1>4, ImageTyped
<1>6. \A f \in image.fields : f.target \in Nat
  BY <1>4, ImageTyped
<1> HIDE DEF image, e
\* Of any field there, since its target is what the file has.
<1>7. ASSUME NEW f \in image.fields, f.rva = rva
      PROVE  f.kind = HIGHLOW /\ f.target \in Nat /\ v = (base + f.target) % WordMod
  <2>1. f.kind = HIGHLOW /\ f.target \in Nat
    BY <1>1, <1>2, <1>6, <1>7, Zenon
  <2>2. FileDword(image, rva) = (image.ImageBase + f.target) % WordMod
    BY <1>4, <1>7, <2>1, Zenon DEF FieldsAreLinked
  <2>3. image.ImageBase \in Int /\ f.target \in Int /\ base \in Int
    BY <1>5, <2>1
  <2>4. (((image.ImageBase + f.target) % WordMod) + ((base - image.ImageBase) % WordMod)) % WordMod
           = (base + f.target) % WordMod
    BY <2>3, Constants, DwordMoves, ZenonT(60)
  <2> QED
    BY <2>1, <2>2, <2>4, Zenon DEF RelocOffset
<1> HIDE DEF v
<1>8. Linked(image, base, rva) = v % HalfMod
  <2> DEFINE f == CHOOSE f \in image.fields : rva = f.rva
  <2>1. f \in image.fields /\ rva = f.rva
    BY <1>3, Zenon
  <2>2. \E g \in image.fields : rva = g.rva /\ g.kind \in {LOW, HIGHLOW}
    BY <1>1, <1>3, Zenon
  <2>3. Linked(image, base, rva) = (base + f.target) % HalfMod
    BY <2>2, Zenon DEF Linked
  <2> HIDE DEF f
  <2>4. f.target \in Nat /\ v = (base + f.target) % WordMod
    BY <1>7, <2>1, Zenon
  <2>5. base + f.target \in Int
    BY <2>4
  <2>6. ((base + f.target) % (HalfMod * HalfMod)) % HalfMod = (base + f.target) % HalfMod
    BY <2>5, Constants, LowHalf, Zenon
  <2> QED
    BY <2>3, <2>4, <2>6, Zenon DEF WordMod
<1>9. Linked(image, base, rva + 1) = v \div HalfMod
  <2> DEFINE f == CHOOSE f \in image.fields : rva + 1 = f.rva + 1 /\ f.kind = HIGHLOW
  <2>1. f \in image.fields /\ rva + 1 = f.rva + 1
    BY <1>1, <1>3, Zenon
  <2>2. ~ \E g \in image.fields : rva + 1 = g.rva /\ g.kind \in {LOW, HIGHLOW}
    BY <1>1, <1>2, Zenon
  <2>3. \E g \in image.fields : rva + 1 = g.rva + 1 /\ g.kind = HIGHLOW
    BY <1>1, <1>3, Zenon
  <2>4. Linked(image, base, rva + 1) = ((base + f.target) % WordMod) \div HalfMod
    BY <2>2, <2>3, Zenon DEF Linked
  <2> HIDE DEF f
  <2>5. f.rva = rva
    BY <1>2, <2>1
  <2> QED
    BY <1>7, <2>1, <2>4, <2>5, Zenon
<1> QED
  BY <1>8, <1>9, Zenon DEF image, e, v

-----------------------------------------------------------------------------
(* Steps of relocating *)

\* Where there is memory for an image.
IsPlaced(image, base) == \A rva \in 0..(image.SizeOfImage - 1) : base + rva \in Addresses

\* An entry links the words it touches, which hold the file's, and no others.
LEMMA EntryWrites ==
    ASSUME NEW name \in Complete, NEW mem \in Memories, NEW base \in Nat,
           IsPlaced(Image[name], base),
           NEW p \in PlacesOf(Image[name]), Touched(EntryAt(Image[name], p)) # {},
           \A rva \in Touched(EntryAt(Image[name], p)) :
              mem[base + rva] = FileWord(Image[name], rva)
    PROVE  LET image == Image[name]
               e == EntryAt(image, p)
               where == base + e.rva
               next == Relocate(mem, where, e.kind, RelocOffset(base, image))
           IN  /\ where \in 0..(WordMod - 1)
               /\ next \in Memories
               /\ \A rva \in Touched(e) :
                     /\ base + rva \in Addresses
                     /\ next[base + rva] = Linked(image, base, rva)
               /\ \A a \in Addresses : a - base \notin Touched(e) => next[a] = mem[a]
<1> DEFINE image == Image[name]
           e == EntryAt(image, p)
           where == base + e.rva
           offset == RelocOffset(base, image)
           next == Relocate(mem, where, e.kind, offset)
<1>1. name \in Files /\ SectionsFit(image)
  BY RelocationsExist, Zenon
<1>2. ASSUME NEW rva \in Touched(e)
      PROVE  base + rva \in Addresses /\ rva \in Nat /\ FileWord(image, rva) \in Words
  <2>1. rva \in CopiedRvas(image)
    BY EntriesAreApart
  <2>2. rva \in Nat /\ rva < image.SizeOfImage /\ FileWord(image, rva) \in Words
    BY <1>1, <2>1, CopiedIsInside, Zenon
  <2>3. image.SizeOfImage \in Nat
    BY <1>1, ImageTyped
  <2>4. rva \in 0..(image.SizeOfImage - 1)
    BY <2>2, <2>3
  <2> QED
    BY <2>2, <2>4, Zenon DEF IsPlaced
<1>3. \A rva \in Touched(e) : mem[base + rva] = FileWord(image, rva)
  OBVIOUS
<1>4. e.kind \in {HIGH, LOW, HIGHLOW}
  BY TouchedByKind, Zenon
<1>5. e.rva \in Touched(e) /\ e.rva \in Nat
  <2>1. e.rva \in Touched(e)
    BY <1>4, TouchedByKind, Zenon
  <2> QED
    BY <1>2, <2>1, Zenon
<1>6. image.ImageBase \in Nat /\ offset \in Int
  <2>1. image.ImageBase \in Nat
    BY <1>1, ImageTyped
  <2>2. base - image.ImageBase \in Int
    BY <2>1
  <2>3. (base - image.ImageBase) % WordMod \in 0..(WordMod - 1)
    BY <2>2, Constants, Dividing, Zenon
  <2>4. offset \in 0..(WordMod - 1)
    BY <2>3, Zenon DEF RelocOffset
  <2> HIDE DEF offset
  <2> QED
    BY <2>1, <2>4
<1>7. e.kind = LOW => Linked(image, base, e.rva) = AddLow(FileWord(image, e.rva), offset)
  BY LowIsLinked, Zenon
<1>8. e.kind = HIGH => Linked(image, base, e.rva) = AddHigh(FileWord(image, e.rva), offset)
  BY HighIsLinked, Zenon
<1> DEFINE v == (FileDword(image, e.rva) + offset) % WordMod
<1>9. e.kind = HIGHLOW => /\ Linked(image, base, e.rva) = v % HalfMod
                          /\ Linked(image, base, e.rva + 1) = v \div HalfMod
  BY DwordIsLinked, Zenon
<1>10. where \in Addresses /\ where \in Int /\ where \in 0..(WordMod - 1)
  BY <1>2, <1>5, AddressesFit
<1>11. \A a \in Addresses : a \in Int
  BY DEF Addresses
<1> HIDE DEF image, e, offset, v
<1>12. Read(mem, where) = FileWord(image, e.rva)
  BY <1>3, <1>5, <1>10, Zenon DEF Read
<1>13. \A a \in Addresses : a - base # e.rva => a # where
  BY <1>5, <1>11
<1>14. AddLow(FileWord(image, e.rva), offset) \in Words
       /\ AddHigh(FileWord(image, e.rva), offset) \in Words
  <2>1. FileWord(image, e.rva) \in Int
    BY <1>2, <1>5 DEF Words
  <2>2. offset % HalfMod \in Int /\ offset \div HalfMod \in Int
    BY <1>6, Constants, Dividing
  <2>3. \A x, y \in Int : x + y \in Int /\ (x + y) % HalfMod \in Words
    BY Constants, Dividing DEF Words
  <2> QED
    BY <2>1, <2>2, <2>3, Zenon DEF AddHigh, AddLow
<1> HIDE DEF where
<1>15. CASE e.kind = LOW
  <2>1. Touched(e) = {e.rva}
    BY <1>15, TouchedByKind, Zenon
  <2>2. next = Write(mem, where, AddLow(FileWord(image, e.rva), offset))
    BY <1>12, <1>15 DEF Relocate, LOW, HIGH, HIGHLOW, DIR32
  <2> HIDE DEF next
  <2>3. /\ next \in Memories /\ next[where] = AddLow(FileWord(image, e.rva), offset)
        /\ \A a \in Addresses : a # where => next[a] = mem[a]
    BY <1>10, <1>14, <2>2, WriteIsMemory
  <2>4. \A rva \in Touched(e) : next[base + rva] = Linked(image, base, rva)
    BY <1>7, <1>15, <2>1, <2>3, Zenon DEF where
  <2>5. \A a \in Addresses : a - base \notin Touched(e) => next[a] = mem[a]
    BY <1>13, <2>1, <2>3, Zenon
  <2> QED
    BY <1>2, <1>10, <2>3, <2>4, <2>5, Zenon DEF image, e, offset, next, where
<1>16. CASE e.kind = HIGH
  <2>1. Touched(e) = {e.rva}
    BY <1>16, TouchedByKind, Zenon
  <2>2. next = Write(mem, where, AddHigh(FileWord(image, e.rva), offset))
    BY <1>12, <1>16 DEF Relocate, LOW, HIGH, HIGHLOW, DIR32
  <2> HIDE DEF next
  <2>3. /\ next \in Memories /\ next[where] = AddHigh(FileWord(image, e.rva), offset)
        /\ \A a \in Addresses : a # where => next[a] = mem[a]
    BY <1>10, <1>14, <2>2, WriteIsMemory
  <2>4. \A rva \in Touched(e) : next[base + rva] = Linked(image, base, rva)
    BY <1>8, <1>16, <2>1, <2>3, Zenon DEF where
  <2>5. \A a \in Addresses : a - base \notin Touched(e) => next[a] = mem[a]
    BY <1>13, <2>1, <2>3, Zenon
  <2> QED
    BY <1>2, <1>10, <2>3, <2>4, <2>5, Zenon DEF image, e, offset, next, where
<1>17. CASE e.kind = HIGHLOW
  <2>1. Touched(e) = {e.rva, e.rva + 1}
    BY <1>17, TouchedByKind, Zenon
  <2>2. /\ base + (e.rva + 1) \in Addresses /\ mem[base + (e.rva + 1)] = FileWord(image, e.rva + 1)
        /\ where + 1 = base + (e.rva + 1)
    <3>1. where + 1 = base + (e.rva + 1)
      BY <1>5 DEF where
    <3> QED
      BY <1>2, <1>3, <2>1, <3>1, Zenon
  <2>3. (where + 1) % WordMod = where + 1
    <3>1. where + 1 \in 0..(WordMod - 1)
      BY <2>2, AddressesFit, Zenon
    <3> QED
      BY <3>1, Constants, Remaining, Zenon
  <2>4. ReadDword(mem, where) = FileDword(image, e.rva)
    <3>1. Read(mem, where + 1) = FileWord(image, e.rva + 1)
      BY <2>2, Zenon DEF Read
    <3> QED
      BY <1>12, <2>3, <3>1, Zenon DEF ReadDword, FileDword
  <2>5. next = WriteDword(mem, where, v)
    BY <1>17, <2>4 DEF Relocate, LOW, HIGH, HIGHLOW, DIR32, v
  <2>6. v \in 0..(WordMod - 1)
    <3>1. FileDword(image, e.rva) + offset \in Int
      <4>1. ReadDword(mem, where) \in Int
        BY ReadIsDword
      <4> QED
        BY <1>6, <2>4, <4>1
    <3> QED
      BY <3>1, Constants, Dividing, Zenon DEF v
  <2> HIDE DEF next
  <2>7. /\ next \in Memories /\ next[where] = v % HalfMod /\ next[where + 1] = v \div HalfMod
        /\ \A a \in Addresses : a # where /\ a # where + 1 => next[a] = mem[a]
    BY <1>10, <2>2, <2>3, <2>5, <2>6, WriteDwordIsMemory, Zenon
  <2>8. \A rva \in Touched(e) : next[base + rva] = Linked(image, base, rva)
    BY <1>9, <1>17, <2>1, <2>2, <2>7, Zenon DEF where
  <2>9. \A a \in Addresses : a - base # e.rva + 1 => a # where + 1
    BY <1>5, <1>11, <2>2
  <2>10. \A a \in Addresses : a - base \notin Touched(e) => next[a] = mem[a]
    BY <1>13, <2>1, <2>7, <2>9, Zenon
  <2> QED
    BY <1>2, <1>10, <2>7, <2>8, <2>10, Zenon DEF image, e, offset, next, where
<1> QED
  BY <1>4, <1>15, <1>16, <1>17, Zenon

\* A step over one entry of a block: the image is linked up to the next one, and
\* only words of its sections have changed.
LEMMA EntryKeepsLinked ==
    ASSUME NEW name \in Complete, NEW mem \in Memories, NEW base \in Nat,
           IsPlaced(Image[name], base),
           NEW b \in Relocations(Image[name]).starts, NEW i \in Nat,
           i < FileDword(Image[name], b + 2) - HeaderSize,
           LinkedUpTo(mem, Image[name], base, b, i)
    PROVE  LET image == Image[name]
               entry == FileWord(image, b + HeaderSize + i)
               next == Relocate(mem, RelocAt(base, FileDword(image, b), entry % OffsetMod),
                                entry \div OffsetMod, RelocOffset(base, image))
           IN  /\ next \in Memories
               /\ LinkedUpTo(next, image, base, b, i + 1)
               /\ \A a \in Addresses : next[a] # mem[a] => a - base \in CopiedRvas(image)
<1> DEFINE image == Image[name]
           p == <<b, i>>
           e == EntryAt(image, p)
           entry == FileWord(image, b + HeaderSize + i)
           page == FileDword(image, b)
           offset == RelocOffset(base, image)
           type == entry \div OffsetMod
           next == Relocate(mem, RelocAt(base, page, entry % OffsetMod), type, offset)
<1>1. p \in PlacesOf(image)
      /\ {b, b + 1, b + 2, b + 3, b + HeaderSize + i} \subseteq Listed(image)
  BY PlaceIsListed, Zenon
<1>2. b \in Nat
  BY BlockShape, Zenon
<1>3. /\ Done(image, b, i + 1) = Done(image, b, i) \cup Touched(e)
      /\ Done(image, b, i) \cap Touched(e) = {}
  BY <1>1, <1>2, DoneByEntry, Zenon
<1>4. e.rva = page + (entry % OffsetMod) /\ e.kind = type
  BY DEF EntryAt
<1>10. type # DIR32
  <2>1. ListsFields(image, Relocations(image).starts, Relocations(image).end)
    BY RelocationsExist, Zenon DEF IsRelocations
  <2>2. e.kind # DIR32
    BY <1>1, <2>1, Zenon DEF ListsFields, PlacesOf
  <2> QED
    BY <1>4, <2>2, Zenon
<1>5. LinkedUpTo(mem, image, base, b, i) /\ IsPlaced(image, base)
  OBVIOUS
<1>6. page \in Nat /\ entry % OffsetMod \in Int
  <2>1. {b, b + 1, b + HeaderSize + i} \subseteq CopiedRvas(image)
    BY <1>1, ListShape, Zenon
  <2>2. page \in Nat
    BY <1>2, <2>1, FileDwordIsNat
  <2>3. entry \in Int
    BY <2>1, RelocationsExist, CopiedIsInside DEF Words
  <2> HIDE DEF entry, page
  <2> QED
    BY <2>2, <2>3, Constants, Dividing
<1>7. \A rva \in CopiedRvas(image) : rva \in Nat /\ rva < image.SizeOfImage
  BY RelocationsExist, CopiedIsInside, Zenon
<1>8. CASE Touched(e) = {}
  <2>1. type \notin {HIGH, LOW, HIGHLOW, DIR32}
    <3> HIDE DEF type, e, p
    <3> QED
      BY <1>4, <1>8, <1>10 DEF Touched, HIGH, LOW, HIGHLOW, DIR32
  <2>2. next = mem
    <3> HIDE DEF type, offset
    <3> QED
      BY <2>1 DEF Relocate
  <2>3. Done(image, b, i + 1) = Done(image, b, i)
    BY <1>3, <1>8, Zenon
  <2> HIDE DEF next, image
  <2>4. LinkedUpTo(next, image, base, b, i + 1)
    BY <1>5, <2>2, <2>3, Zenon DEF LinkedUpTo
  <2> QED
    BY <2>2, <2>4, Zenon DEF next, image
<1>9. CASE Touched(e) # {}
  <2>1. Touched(e) \subseteq CopiedRvas(image)
    BY <1>1, EntriesAreApart
  <2>2. \A rva \in Touched(e) : mem[base + rva] = FileWord(image, rva)
    <3> HIDE DEF image, e
    <3> QED
      BY <1>3, <1>5, <2>1 DEF LinkedUpTo
  <2> DEFINE where == base + e.rva
  <2>3. /\ where \in 0..(WordMod - 1)
        /\ Relocate(mem, where, e.kind, offset) \in Memories
        /\ \A rva \in Touched(e) :
              /\ base + rva \in Addresses
              /\ Relocate(mem, where, e.kind, offset)[base + rva] = Linked(image, base, rva)
        /\ \A a \in Addresses :
              a - base \notin Touched(e) => Relocate(mem, where, e.kind, offset)[a] = mem[a]
    <3> HIDE DEF p
    <3> QED
      BY <1>1, <1>9, <2>2, EntryWrites, Zenon
  <2>4. RelocAt(base, page, entry % OffsetMod) = where
    <3> DEFINE off == entry % OffsetMod
    <3>1. base + page + off = where
      <4>1. off \in Int /\ page \in Nat /\ e.rva = page + off
        BY <1>4, <1>6
      <4> HIDE DEF off, page, e
      <4> QED
        BY <4>1
    <3>2. where % WordMod = where
      <4> HIDE DEF where
      <4> QED
        BY <2>3, Constants, Remaining, Zenon
    <3> QED
      BY <3>1, <3>2, Zenon DEF RelocAt
  <2>5. next = Relocate(mem, where, e.kind, offset)
    <3>1. next = Relocate(mem, where, type, offset)
      BY <2>4, Zenon
    <3> HIDE DEF next, where, type, e, offset
    <3> QED
      BY <1>4, <3>1, Zenon
  <2> HIDE DEF next, where, e, image
  <2>6. LinkedUpTo(next, image, base, b, i + 1)
    <3> SUFFICES ASSUME NEW rva \in CopiedRvas(image)
                 PROVE  next[base + rva] = IF rva \in Done(image, b, i + 1)
                                           THEN Linked(image, base, rva) ELSE FileWord(image, rva)
      BY Zenon DEF LinkedUpTo
    <3>1. CASE rva \in Touched(e)
      BY <1>3, <2>3, <2>5, <3>1, Zenon
    <3>2. CASE rva \notin Touched(e)
      <4>1. rva \in Nat /\ rva < image.SizeOfImage
        BY <1>7
      <4>2. image.SizeOfImage \in Nat
        BY RelocationsExist, ImageTyped DEF image
      <4>3. rva \in 0..(image.SizeOfImage - 1)
        BY <4>1, <4>2
      <4>4. base + rva \in Addresses
        BY <1>5, <4>3, Zenon DEF IsPlaced
      <4>5. (base + rva) - base = rva
        BY <4>1
      <4>6. next[base + rva] = mem[base + rva]
        BY <2>3, <2>5, <3>2, <4>4, <4>5, Zenon
      <4>7. rva \in Done(image, b, i + 1) <=> rva \in Done(image, b, i)
        BY <1>3, <3>2
      <4> QED
        BY <1>5, <4>6, <4>7, Zenon DEF LinkedUpTo
    <3> QED
      BY <3>1, <3>2, Zenon
  <2>7. \A a \in Addresses : next[a] # mem[a] => a - base \in CopiedRvas(image)
    BY <2>1, <2>3, <2>5, Zenon
  <2> QED
    BY <2>3, <2>5, <2>6, <2>7, Zenon DEF next, image
<1> QED
  BY <1>8, <1>9, Zenon

\* The list is read as it is in the file.
LEMMA ListIsRead ==
    ASSUME NEW name \in Complete, NEW mem, NEW base \in Nat, NEW b, NEW i,
           IsPlaced(Image[name], base), LinkedUpTo(mem, Image[name], base, b, i),
           NEW rva \in Listed(Image[name])
    PROVE  /\ base + rva \in 0..(WordMod - 1) /\ (base + rva) % WordMod = base + rva
           /\ Read(mem, base + rva) = FileWord(Image[name], rva)
<1> DEFINE image == Image[name]
<1>1. rva \in CopiedRvas(image)
  BY ListShape
<1>2. rva \in Nat /\ rva < image.SizeOfImage /\ image.SizeOfImage \in Nat
  BY <1>1, RelocationsExist, CopiedIsInside, ImageTyped
<1>3. rva \notin Done(image, b, i)
  BY DoneIsApart, Zenon
<1>4. LinkedUpTo(mem, image, base, b, i) /\ IsPlaced(image, base)
  OBVIOUS
<1> HIDE DEF image
<1>5. base + rva \in Addresses
  <2>1. rva \in 0..(image.SizeOfImage - 1)
    BY <1>2
  <2> QED
    BY <1>4, <2>1, Zenon DEF IsPlaced
<1>6. mem[base + rva] = FileWord(image, rva)
  BY <1>1, <1>3, <1>4, Zenon DEF LinkedUpTo
<1>7. base + rva \in 0..(WordMod - 1)
  BY <1>5, AddressesFit, Zenon
<1>8. (base + rva) % WordMod = base + rva
  BY <1>7, Constants, Remaining, Zenon
<1> QED
  BY <1>5, <1>6, <1>7, <1>8, Zenon DEF Read, image

\* So are its dwords.
LEMMA ListDwordIsRead ==
    ASSUME NEW name \in Complete, NEW mem, NEW base \in Nat, NEW b, NEW i,
           IsPlaced(Image[name], base), LinkedUpTo(mem, Image[name], base, b, i),
           NEW rva \in Listed(Image[name]), rva + 1 \in Listed(Image[name])
    PROVE  /\ (base + rva) % WordMod = base + rva
           /\ ReadDword(mem, base + rva) = FileDword(Image[name], rva)
<1>1. /\ (base + rva) % WordMod = base + rva
      /\ Read(mem, base + rva) = FileWord(Image[name], rva)
  BY ListIsRead, Zenon
<1>2. /\ (base + (rva + 1)) % WordMod = base + (rva + 1)
      /\ Read(mem, base + (rva + 1)) = FileWord(Image[name], rva + 1)
  BY ListIsRead, Zenon
<1>3. base + (rva + 1) = (base + rva) + 1
  <2>1. rva \in Int
    BY ListShape DEF Listed
  <2> QED
    BY <2>1
<1> QED
  BY <1>1, <1>2, <1>3, Zenon DEF ReadDword, FileDword

-----------------------------------------------------------------------------
(* The state of loading *)

\* Blocks that were handed out are memory above where the heap begins.
LEMMA HeldIsHeap ==
    ASSUME Used \subseteq Nat \ {0}
    PROVE  \A a \in Held : a \in Nat /\ a >= Low
<1> SUFFICES ASSUME NEW a \in Held PROVE a \in Nat /\ a >= Low
  BY Zenon
<1>1. PICK b \in Used : a \in Address(b) .. (Address(b) + BlockSize - 1)
  BY Zenon DEF Held
<1>2. b \in Nat \ {0}
  BY <1>1
<1>3. Address(b) \in Nat /\ Address(b) >= Low
  BY <1>2, BlockIsAbove, Zenon
<1>4. BlockSize \in Nat /\ Low \in Nat
  BY Constants
<1> QED
  BY <1>1, <1>3, <1>4

\* The image that is being relocated has its memory.
LEMMA CurrentIsPlaced ==
    ASSUME TypeOK, Placed, pc # "idle"
    PROVE  file \in Files /\ at \in Nat /\ IsPlaced(Image[file], at)
<1>1. file \in Files
  BY Zenon DEF Placed
<1>2. Image[file].SizeOfImage \in 1..Low /\ Low \in Nat
  BY <1>1, ImageTyped, Constants
<1>3. CASE at = NULL
  <2>1. \A rva \in 0..(Image[file].SizeOfImage - 1) : rva \in 0..(Low - 1) /\ 0 + rva = rva
    BY <1>2
  <2>2. IsPlaced(Image[file], at)
    BY <1>3, <2>1, AddressesFit, Zenon DEF IsPlaced, NULL
  <2> QED
    BY <1>1, <1>3, <2>2 DEF NULL
<1>4. CASE at # NULL
  <2>1. PICK b \in 1..Blocks : at = Address(b)
    BY <1>4, Zenon DEF TypeOK
  <2>2. at \in Nat
    BY <2>1, BlockIsMemory, Zenon
  <2>3. at .. (at + Image[file].SizeOfImage - 1) \subseteq Addresses
    <3>1. Span(Current) \subseteq Addresses
      BY <1>4, Zenon DEF Placed
    <3>2. Span(Current) = at .. (at + Image[file].SizeOfImage - 1)
      BY DEF Span, Current
    <3> QED
      BY <3>1, <3>2, Zenon
  <2>4. \A rva \in 0..(Image[file].SizeOfImage - 1) :
           at + rva \in at .. (at + Image[file].SizeOfImage - 1)
    BY <1>2, <2>2
  <2> QED
    BY <1>1, <2>2, <2>3, <2>4, Zenon DEF IsPlaced
<1> QED
  BY <1>3, <1>4, Zenon

\* What LdrRelocMemory reads of the list it is at.
LEMMA AtBlock ==
    ASSUME IInv, AllWellFormed, pc = "relocate"
    PROVE  LET image == Image[file]
               r == Relocations(image)
               b == block - at
           IN  /\ file \in Complete /\ at \in Nat /\ IsPlaced(image, at)
               /\ b \in Nat /\ block = at + b /\ b \in r.starts \cup {r.end}
               /\ VirtualAddress(memory, block) = FileDword(image, b)
               /\ b \in r.starts =>
                     /\ SizeOfBlock(memory, block) = FileDword(image, b + 2)
                     /\ Sensible(SizeOfBlock(memory, block))
<1> DEFINE image == Image[file]
           r == Relocations(image)
           b == block - at
<1>1. TypeOK /\ Placed /\ Relocating
  BY DEF IInv
<1>2. file \in Files /\ at \in Nat /\ IsPlaced(image, at)
  <2>1. pc # "idle"
    OBVIOUS
  <2> QED
    BY <1>1, <2>1, CurrentIsPlaced, Zenon
<1>3. file \in Complete
  BY <1>2, NoneAssumption, Zenon DEF AllWellFormed
<1>4. /\ b \in r.starts \cup {r.end}
      /\ LinkedUpTo(memory, image, at, b, index)
  BY <1>1, Zenon DEF Relocating
<1>5. /\ image.reloc \in Nat /\ r.end \in Nat /\ image.reloc <= r.end
      /\ r.starts \subseteq image.reloc .. (r.end - HeaderSize)
  BY <1>3, ListShape
<1>6. b \in image.reloc .. r.end /\ b \in Nat /\ (b \in r.starts => b <= r.end - HeaderSize)
  <2> HIDE DEF b, r, image
  <2> QED
    BY <1>4, <1>5 DEF HeaderSize
<1>7. block = at + b
  <2>1. block \in Int
    BY <1>1, Constants DEF TypeOK
  <2> QED
    BY <1>2, <2>1
<1> HIDE DEF b
<1>8. b \in Listed(image) /\ b + 1 \in Listed(image)
  <2> HIDE DEF r
  <2>1. b \in image.reloc .. (r.end + 1) /\ b + 1 \in image.reloc .. (r.end + 1)
    BY <1>5, <1>6
  <2> QED
    BY <2>1, Zenon DEF Listed, r
<1>9. ReadDword(memory, at + b) = FileDword(image, b)
  BY <1>2, <1>3, <1>4, <1>8, ListDwordIsRead, Zenon
<1>10. ASSUME b \in r.starts
       PROVE  /\ SizeOfBlock(memory, block) = FileDword(image, b + 2)
              /\ Sensible(SizeOfBlock(memory, block))
  <2>1. /\ FileDword(image, b + 2) \in Nat /\ FileDword(image, b + 2) >= HeaderSize
        /\ FileDword(image, b + 2) < image.SizeOfImage
    BY <1>3, <1>10, BlockShape
  <2>2. b + 2 \in Listed(image) /\ b + 2 + 1 \in Listed(image)
    <3>1. b + 2 \in image.reloc .. (r.end + 1) /\ b + 2 + 1 \in image.reloc .. (r.end + 1)
      <4> HIDE DEF r
      <4> QED
        BY <1>5, <1>6, <1>10 DEF HeaderSize
    <3> QED
      BY <3>1, Zenon DEF Listed, r
  <2>3. /\ (at + (b + 2)) % WordMod = at + (b + 2)
        /\ ReadDword(memory, at + (b + 2)) = FileDword(image, b + 2)
    BY <1>2, <1>3, <1>4, <2>2, ListDwordIsRead, ZenonT(60)
  <2>4. block + 2 = at + (b + 2)
    BY <1>2, <1>6, <1>7
  <2>5. SizeOfBlock(memory, block) = FileDword(image, b + 2)
    BY <2>3, <2>4, Zenon DEF SizeOfBlock
  <2>6. Cardinality(Addresses) \in Nat /\ image.SizeOfImage <= Cardinality(Addresses)
    BY <1>2, ImageTyped, MemoryIsFinite, Constants
  <2>7. FileDword(image, b + 2) \in HeaderSize .. Cardinality(Addresses)
    <3>1. image.SizeOfImage \in Nat
      BY <1>2, ImageTyped
    <3> DEFINE size == FileDword(image, b + 2)
               card == Cardinality(Addresses)
    <3>2. /\ size \in Nat /\ size >= HeaderSize /\ size < image.SizeOfImage
          /\ card \in Nat /\ image.SizeOfImage <= card
      BY <2>1, <2>6
    <3> HIDE DEF size, card, image
    <3>3. size \in HeaderSize .. card
      BY <3>1, <3>2 DEF HeaderSize
    <3> QED
      BY <3>3 DEF size, card
  <2> QED
    BY <2>5, <2>7, Zenon DEF Sensible
<1> QED
  BY <1>2, <1>3, <1>4, <1>6, <1>7, <1>9, <1>10, Zenon DEF VirtualAddress, b

\* What the heap gives is free blocks for all of the image, the heap's or, from its
\* last one on, behind it, or nothing.
LEMMA AllocationIsFree ==
    ASSUME NEW size \in Nat \ {0}, Used \subseteq Nat \ {0}, Overrun, LdrAllocMemory(size)
    PROVE  \/ at' = NULL /\ extents' = extents
           \/ \E b \in 1..Blocks :
                 LET n == BlocksFor(size) IN
                 /\ n \in Nat \ {0}
                 /\ (b .. (b + n - 1)) \cap Used = {}
                 /\ at' = Address(b)
                 /\ extents' = extents \cup {[first |-> b, blocks |-> n]}
                 /\ Used' = Used \cup (b .. (b + n - 1))
                 /\ \A a \in at' .. (at' + size - 1) : \E c \in b .. (b + n - 1) :
                       a \in Address(c) .. (Address(c) + BlockSize - 1)
<1> DEFINE n == BlocksFor(size)
<1>1. n \in Nat \ {0} /\ \A k \in 0..(size - 1) : k \div BlockSize \in 0..(n - 1)
  BY BlocksForHold
<1> HIDE DEF n
<1>2. ASSUME NEW b \in Starts(n), at' = Address(b),
             extents' = extents \cup {[first |-> b, blocks |-> n]}
      PROVE  /\ b \in 1..Blocks
             /\ (b .. (b + n - 1)) \cap Used = {}
             /\ Used' = Used \cup (b .. (b + n - 1))
             /\ \A a \in at' .. (at' + size - 1) : \E c \in b .. (b + n - 1) :
                   a \in Address(c) .. (Address(c) + BlockSize - 1)
  <2>1. (b .. (b + n - 1)) \cap Used = {} /\ b \in 1..Blocks
    <3>0. Blocks \in Nat \ {0}
      BY Constants
    <3>1. CASE b \in Fits(n)
      <4>1. b \in 1..(Blocks - n + 1) /\ (b .. (b + n - 1)) \cap Used = {}
        BY <3>1, Zenon DEF Fits
      <4> QED
        BY <1>1, <3>0, <4>1
    <3>2. CASE b \in LastRun
      <4>1. b \in 1..Blocks /\ (b .. Blocks) \cap Used = {}
        BY <3>2, Zenon DEF LastRun
      <4>2. Blocks \in b .. Blocks
        BY <3>0, <4>1
      <4>3. Used \subseteq 1..Blocks
        BY <4>1, <4>2, Zenon DEF Overrun
      <4>4. \A c \in 1..Blocks : c >= b => c \in b .. Blocks
        BY <3>0, <4>1
      <4>5. \A c \in b .. (b + n - 1) : c >= b
        BY <4>1
      <4> QED
        BY <4>1, <4>3, <4>4, <4>5, Zenon
    <3> QED
      BY <3>1, <3>2, Zenon DEF Starts
  <2>2. b \in 1..Blocks
    BY <2>1
  <2>3. Used' = Used \cup (b .. (b + n - 1))
    <3>1. Used' = UNION {e.first .. (e.first + e.blocks - 1) : e \in extents'}
      BY Zenon DEF Used
    <3> DEFINE new == [first |-> b, blocks |-> n]
    <3>2. new.first .. (new.first + new.blocks - 1) = b .. (b + n - 1)
      OBVIOUS
    <3> HIDE DEF new
    <3>3. extents' = extents \cup {new}
      BY <1>2 DEF new
    <3>4. UNION {e.first .. (e.first + e.blocks - 1) : e \in extents \cup {new}}
            = Used \cup (new.first .. (new.first + new.blocks - 1))
      BY DEF Used
    <3> QED
      BY <3>1, <3>2, <3>3, <3>4, Zenon
  <2>4. ASSUME NEW a \in at' .. (at' + size - 1)
        PROVE  \E c \in b .. (b + n - 1) : a \in Address(c) .. (Address(c) + BlockSize - 1)
    <3>1. Address(b) \in Nat /\ BlockSize \in Nat \ {0} /\ Low \in Nat
      BY <2>2, BlockIsMemory, Constants, Zenon
    <3>2. a \in Address(b) .. (Address(b) + size - 1)
      BY <1>2, <2>4, Zenon
    <3> DEFINE k == a - Address(b)
               q == k \div BlockSize
               d == k % BlockSize
               c == b + q
    <3>3. k \in 0..(size - 1) /\ k \in Int /\ a = Address(b) + k
      BY <3>1, <3>2
    <3> HIDE DEF k
    <3>4. q \in Int /\ d \in 0..(BlockSize - 1) /\ k = q * BlockSize + d
      BY <3>1, <3>3, Dividing, Zenon
    <3>5. q \in 0..(n - 1)
      BY <1>1, <3>3, Zenon
    <3> HIDE DEF q, d
    <3>6. c \in b .. (b + n - 1)
      BY <1>1, <2>2, <3>5
    <3>7. Address(c) = Address(b) + q * BlockSize
      <4>1. (c - 1) * BlockSize = (b - 1) * BlockSize + q * BlockSize
        BY <2>2, <3>1, <3>4, SMTT(30)
      <4>2. (b - 1) * BlockSize \in Int /\ q * BlockSize \in Int
        BY <2>2, <3>1, <3>4
      <4> QED
        BY <3>1, <4>1, <4>2 DEF Address
    <3>8. q * BlockSize \in Int
      BY <3>1, <3>4
    <3>9. a \in Address(c) .. (Address(c) + BlockSize - 1)
      BY <3>1, <3>3, <3>4, <3>7, <3>8
    <3> QED
      BY <3>6, <3>9
  <2> QED
    BY <2>1, <2>2, <2>3, <2>4, Zenon
<1>3. \/ at' = NULL /\ extents' = extents
      \/ \E b \in Starts(n) : at' = Address(b) /\ extents' = extents \cup {[first |-> b, blocks |-> n]}
  BY Zenon DEF LdrAllocMemory, n
<1> QED
  BY <1>1, <1>2, <1>3, Zenon DEF n

-----------------------------------------------------------------------------
(* Types and places, from step to step *)

\* Nothing is loaded first.
LEMMA InitIInv == Init => IInv
<1> SUFFICES ASSUME Init PROVE IInv
  OBVIOUS
<1>1. memory \in Memories
  <2>1. PICK v \in Stale : memory = [a \in Addresses |-> v[1 + (a % 2)]]
    BY Zenon DEF Init
  <2>2. v \in Words \X Words
    BY LoaderAssumption, Zenon DEF Words
  <2>3. ASSUME NEW a \in Addresses PROVE v[1 + (a % 2)] \in Words
    <3>1. a \in Nat
      BY Constants DEF Addresses
    <3>2. a % 2 \in 0..1
      BY <3>1, SMTT(10)
    <3> QED
      BY <2>2, <3>2
  <2> QED
    BY <2>1, <2>3, Zenon DEF Memories
<1>2. 0 \in 0..(WordMod - 1) /\ 0 \in 0..Cardinality(Addresses)
  BY Constants, MemoryIsFinite
<1>3. TypeOK
  BY <1>1, <1>2, Zenon DEF Init, TypeOK, Memories, Words, NULL
<1>4. Used = {}
  BY DEF Used, Init
<1>5. Placed
  BY <1>4 DEF Placed, Overrun, Init
<1>6. LoadedAsLinked /\ pc # "relocate"
  BY DEF LoadedAsLinked, Init
<1> QED
  BY <1>3, <1>5, <1>6, Zenon DEF IInv

\* Loading begins in memory that is nobody else's, or at address 0.
LEMMA LoadKeepsTypes ==
    ASSUME TypeOK, Placed, NEW name \in Files, NEW junk \in Stale,
           pc = "idle", file' = name, LdrAllocMemory(Image[name].SizeOfImage),
           memory' = LdrCpySections(Image[name], junk, at', LdrProcessPe(Image[name], junk)),
           block' = (at' + Image[name].reloc) % WordMod,
           index' = 0, pc' = "relocate", loaded' = loaded, stack' \in Files \cup {None}
    PROVE  TypeOK' /\ Placed'
<1> DEFINE size == Image[name].SizeOfImage
           n == BlocksFor(size)
<1>0. size \in Nat \ {0} /\ Image[name].reloc \in Nat
  BY ImageTyped
<1>1. Used \subseteq Nat \ {0} /\ Overrun
  BY Zenon DEF Placed
<1>2. \/ at' = NULL /\ extents' = extents
      \/ \E b \in 1..Blocks :
            /\ n \in Nat \ {0}
            /\ (b .. (b + n - 1)) \cap Used = {}
            /\ at' = Address(b)
            /\ extents' = extents \cup {[first |-> b, blocks |-> n]}
            /\ Used' = Used \cup (b .. (b + n - 1))
            /\ \A a \in at' .. (at' + size - 1) : \E c \in b .. (b + n - 1) :
                  a \in Address(c) .. (Address(c) + BlockSize - 1)
  BY <1>0, <1>1, AllocationIsFree, Zenon
<1> HIDE DEF size, n
<1>3. at' \in {NULL} \cup {Address(b) : b \in 1..Blocks} /\ at' \in Int
  BY <1>2, BlockIsMemory DEF NULL
<1>4. \A e \in extents' : e.first \in 1..Blocks /\ e.blocks \in Nat \ {0}
  <2>1. \A e \in extents : e.first \in 1..Blocks /\ e.blocks \in Nat \ {0}
    BY Zenon DEF TypeOK
  <2> QED
    BY <1>2, <2>1
<1>5. memory' \in Memories
  <2>1. memory \in Memories
    BY Zenon DEF TypeOK, Memories, Words
  <2>2. LdrProcessPe(Image[name], junk) \in Memories
    BY <2>1, ProcessPeIsMemory
  <2>3. LdrCpySections(Image[name], junk, at', LdrProcessPe(Image[name], junk)) \in Memories
    BY <1>3, <2>2, CopyIsMemory
  <2> QED
    BY <2>3, Zenon
<1>6. block' \in 0..(WordMod - 1) /\ index' \in 0..Cardinality(Addresses)
  <2>1. at' + Image[name].reloc \in Int
    BY <1>0, <1>3
  <2>2. (at' + Image[name].reloc) % WordMod \in 0..(WordMod - 1)
    BY <2>1, Constants, Dividing, Zenon
  <2>3. 0 \in 0..Cardinality(Addresses)
    BY MemoryIsFinite
  <2> QED
    BY <2>2, <2>3, Zenon
<1>7. \A l \in loaded' : l.file \in Files
  BY Zenon DEF TypeOK
<1>8. TypeOK'
  <2>1. /\ memory' \in [Addresses -> 0..(HalfMod - 1)]
        /\ pc' \in {"idle", "relocate", "astray"} /\ {stack', file'} \subseteq Files \cup {None}
    BY <1>5 DEF Memories, Words
  <2> QED
    BY <1>3, <1>4, <1>6, <1>7, <2>1, Zenon DEF TypeOK
<1>9. Placed'
  <2>1. Used' \subseteq Nat \ {0} /\ Overrun'
    <3>1. CASE extents' = extents
      BY <1>1, <3>1, Zenon DEF Used, Overrun
    <3>2. ASSUME NEW b \in 1..Blocks, n \in Nat \ {0}, Used' = Used \cup (b .. (b + n - 1))
          PROVE  Used' \subseteq Nat \ {0} /\ Overrun'
      <4>1. /\ b .. (b + n - 1) \subseteq Nat \ {0}
            /\ Blocks \in b .. (b + n - 1) \/ b .. (b + n - 1) \subseteq 1..Blocks
        BY <3>2, Constants
      <4>2. Overrun' <=> (Blocks \in Used' \/ Used' \subseteq 1..Blocks)
        BY DEF Overrun
      <4> QED
        BY <1>1, <3>2, <4>1, <4>2, Zenon DEF Overrun
    <3> QED
      BY <1>2, <3>1, <3>2, Zenon
  <2>2. Used \subseteq Used'
    BY <1>2, Zenon DEF Used
  <2>3. Held \subseteq Held'
    BY <2>2, Zenon DEF Held
  <2>4. \A l \in loaded : l.at # NULL => Span(l) \subseteq Held \cap Addresses
    BY Zenon DEF Placed
  <2>5. Span(Current)' = at' .. (at' + size - 1)
    BY DEF Span, Current, size
  <2>6. ASSUME at' # NULL
        PROVE  /\ Span(Current)' \subseteq Held' \cap Addresses
               /\ \A a \in Held : a \notin Span(Current)'
    <3>1. PICK b \in 1..Blocks :
             /\ n \in Nat \ {0} /\ at' = Address(b)
             /\ (b .. (b + n - 1)) \cap Used = {}
             /\ Used' = Used \cup (b .. (b + n - 1))
             /\ \A a \in at' .. (at' + size - 1) : \E c \in b .. (b + n - 1) :
                   a \in Address(c) .. (Address(c) + BlockSize - 1)
      BY <1>2, <2>6, Zenon
    <3>2. Span(Current)' \subseteq Held' \cap Addresses
      <4>1. Address(b) .. (Address(b) + size - 1) \subseteq Addresses
        <5>1. Address(b) \in Nat /\ Address(b) + BlockSize <= Low + Blocks * BlockSize
          BY BlockIsMemory, Zenon
        <5>2. Low + Blocks * BlockSize + size <= RamSize /\ RamSize \in Nat
          BY LoaderAssumption, Constants DEF size
        <5> DEFINE heap == Blocks * BlockSize
        <5>3. heap \in Nat /\ Low \in Nat /\ BlockSize \in Nat \ {0}
          BY Constants
        <5> HIDE DEF heap
        <5> QED
          BY <1>0, <5>1, <5>2, <5>3 DEF heap, Addresses
      <4> QED
        BY <2>5, <3>1, <4>1, Zenon DEF Held
    <3>3. ASSUME NEW a \in Held, a \in Span(Current)' PROVE FALSE
      <4>1. PICK u \in Used : a \in Address(u) .. (Address(u) + BlockSize - 1)
        BY Zenon DEF Held
      <4>2. PICK c \in b .. (b + n - 1) : a \in Address(c) .. (Address(c) + BlockSize - 1)
        BY <2>5, <3>1, <3>3, Zenon
      <4>3. u # c
        BY <3>1, Zenon
      <4>4. u \in Int /\ c \in Int
        BY <1>1
      <4>5. (Address(u) .. (Address(u) + BlockSize - 1))
               \cap (Address(c) .. (Address(c) + BlockSize - 1)) = {}
        BY <4>3, <4>4, BlocksAreApart, Zenon
      <4> QED
        BY <4>1, <4>2, <4>5, Zenon
    <3> QED
      BY <3>2, <3>3, Zenon
  <2>7. \A l \in loaded' : l.at # NULL => Span(l) \subseteq Held' \cap Addresses
    BY <2>3, <2>4, Zenon
  <2>8. at' # NULL => \A l \in loaded' : l.at # NULL => Span(l) \cap Span(Current)' = {}
    BY <2>4, <2>6, Zenon
  <2>9. file' \in Files /\ pc' # "idle" /\ \A l \in loaded' : l.at \in Nat
    BY DEF Placed
  <2> QED
    BY <2>1, <2>6, <2>7, <2>8, <2>9, Zenon DEF Placed
<1> QED
  BY <1>8, <1>9

\* A step that hands nothing out, and goes on with the same image.
LEMMA StaysPlaced ==
    ASSUME Placed, pc # "idle", pc' # "idle",
           UNCHANGED <<extents, file, at, loaded>>
    PROVE  Placed'
<1>1. Used' = Used
  BY DEF Used
<1>2. Held' = Held
  BY <1>1 DEF Held
<1>3. Span(Current)' = Span(Current)
  BY DEF Span, Current
<1> QED
  BY <1>1, <1>2, <1>3, Zenon DEF Placed, Overrun

\* An entry changes memory only.
LEMMA EntryKeepsTypes ==
    ASSUME TypeOK, Placed, LdrRelocMemory_entry
    PROVE  TypeOK' /\ Placed'
<1> DEFINE entry == Read(memory, (block + HeaderSize + index) % WordMod)
           page == VirtualAddress(memory, block)
           size == SizeOfBlock(memory, block)
           where == RelocAt(at, page, entry % OffsetMod)
<1>1. /\ pc = "relocate" /\ size \in HeaderSize .. Cardinality(Addresses)
      /\ index < size - HeaderSize
      /\ memory' = Relocate(memory, where, entry \div OffsetMod, RelocOffset(at, Image[file]))
      /\ index' = index + 1
      /\ UNCHANGED <<extents, pc, stack, file, at, block, loaded>>
  BY Zenon DEF LdrRelocMemory_entry, InBlock, Sensible, NumEntries
<1>2. memory \in Memories
  BY Zenon DEF TypeOK, Memories, Words
<1>3. at \in Nat /\ Image[file].ImageBase \in Nat
  <2>1. pc # "idle"
    BY <1>1
  <2> QED
    BY <2>1, CurrentIsPlaced, ImageTyped
<1>4. memory' \in Memories
  <2>1. entry \in Int /\ page \in Int
    <3>1. entry \in Words
      BY <1>2, ReadIsWord, Zenon
    <3>2. page \in 0..(WordMod - 1)
      BY <1>2, ReadIsDword, Zenon DEF VirtualAddress
    <3> HIDE DEF entry, page
    <3> QED
      BY <3>1, <3>2 DEF Words
  <2> HIDE DEF entry, page
  <2>2. entry % OffsetMod \in Int /\ entry \div OffsetMod \in Int
    BY <2>1, Constants, Dividing
  <2> DEFINE off == entry % OffsetMod
             type == entry \div OffsetMod
  <2>3. where \in Int
    <3>1. at + page + off \in Int
      <4> HIDE DEF off
      <4> QED
        BY <1>3, <2>1, <2>2 DEF off
    <3>2. (at + page + off) % WordMod \in 0..(WordMod - 1)
      BY <3>1, Constants, Dividing, Zenon
    <3>3. where \in 0..(WordMod - 1)
      BY <3>2, Zenon DEF RelocAt
    <3> HIDE DEF where
    <3> QED
      BY <3>3
  <2>4. RelocOffset(at, Image[file]) \in Int
    <3>1. at - Image[file].ImageBase \in Int
      BY <1>3
    <3>2. (at - Image[file].ImageBase) % WordMod \in 0..(WordMod - 1)
      BY <3>1, Constants, Dividing, Zenon
    <3>3. RelocOffset(at, Image[file]) \in 0..(WordMod - 1)
      BY <3>2, Zenon DEF RelocOffset
    <3> QED
      BY <3>3
  <2> HIDE DEF where
  <2> QED
    BY <1>1, <1>2, <2>2, <2>3, <2>4, RelocateIsMemory, Zenon
<1>5. index' \in 0..Cardinality(Addresses)
  <2> HIDE DEF size
  <2>1. index \in Nat
    BY MemoryIsFinite DEF TypeOK
  <2> DEFINE card == Cardinality(Addresses)
  <2>2. card \in Nat /\ size \in HeaderSize .. card /\ index < size - HeaderSize
    BY <1>1, MemoryIsFinite
  <2> HIDE DEF card
  <2>3. index + 1 \in 0..card
    BY <2>1, <2>2 DEF HeaderSize
  <2> QED
    BY <1>1, <2>3 DEF card
<1>6. TypeOK'
  BY <1>1, <1>4, <1>5, Zenon DEF TypeOK, Memories, Words
<1>7. Placed'
  <2>1. pc # "idle" /\ pc' # "idle"
    BY <1>1
  <2> QED
    BY <1>1, <2>1, StaysPlaced, Zenon
<1> QED
  BY <1>6, <1>7

\* Every step keeps types and places.
LEMMA StepKeepsTypes ==
    ASSUME TypeOK, Placed, [Next]_vars
    PROVE  TypeOK' /\ Placed'
<1>1. ASSUME NEW path \in Files \cup {"missing", "too long"}, LdrLoadPe(path)
      PROVE  TypeOK' /\ Placed'
  <2>1. ASSUME UNCHANGED <<memory, extents, pc, file, at, block, index, loaded>>,
               stack' \in Files \cup {None}
        PROVE  TypeOK' /\ Placed'
    BY <2>1 DEF TypeOK, Placed, Overrun, Used, Held, Span, Current
  <2>2. ASSUME NEW name \in Executables, NEW junk \in Stale,
               pc = "idle", file' = name, LdrAllocMemory(Image[name].SizeOfImage),
               memory' = LdrCpySections(Image[name], junk, at', LdrProcessPe(Image[name], junk)),
               block' = (at' + Image[name].reloc) % WordMod,
               index' = 0, pc' = "relocate", loaded' = loaded, stack' \in Files \cup {None}
        PROVE  TypeOK' /\ Placed'
    <3>1. name \in Files
      BY DEF Executables
    <3> QED
      BY <2>2, <3>1, LoadKeepsTypes, Zenon
  <2>3. \A name \in Opened(path) : Delivered(name) \subseteq Files \cup {None}
    BY Zenon DEF Opened, Delivered, TypeOK
  <2>4. stack \in Files \cup {None}
    BY Zenon DEF TypeOK
  <2>5. UNCHANGED vars => UNCHANGED <<memory, extents, pc, stack, file, at, block, index, loaded>>
    BY DEF vars
  <2> QED
    BY <1>1, <2>1, <2>2, <2>3, <2>4, <2>5, Zenon DEF LdrLoadPe
<1>2. ASSUME LdrRelocMemory_entry PROVE TypeOK' /\ Placed'
  BY <1>2, EntryKeepsTypes
<1>3. ASSUME LdrRelocMemory_block PROVE TypeOK' /\ Placed'
  <2>1. /\ pc = "relocate" /\ SizeOfBlock(memory, block) \in HeaderSize .. Cardinality(Addresses)
        /\ block' = (block + SizeOfBlock(memory, block)) % WordMod /\ index' = 0
        /\ UNCHANGED <<memory, extents, pc, stack, file, at, loaded>>
    BY <1>3, Zenon DEF LdrRelocMemory_block, InBlock, Sensible
  <2>2. block + SizeOfBlock(memory, block) \in Int
    <3>1. block \in Int /\ SizeOfBlock(memory, block) \in Int
      BY <2>1, Constants DEF TypeOK
    <3> QED
      BY <3>1
  <2>3. block' \in 0..(WordMod - 1)
    BY <2>1, <2>2, Constants, Dividing, Zenon
  <2>4. index' \in 0..Cardinality(Addresses)
    BY <2>1, MemoryIsFinite
  <2>5. TypeOK'
    BY <2>1, <2>3, <2>4, Zenon DEF TypeOK
  <2>6. pc # "idle" /\ pc' # "idle"
    BY <2>1
  <2> QED
    BY <2>1, <2>5, <2>6, StaysPlaced, Zenon
<1>4. ASSUME GoAstray PROVE TypeOK' /\ Placed'
  <2>1. pc # "idle" /\ pc' # "idle" /\ UNCHANGED <<extents, file, at, loaded>>
    BY <1>4 DEF GoAstray
  <2>2. TypeOK'
    BY <1>4 DEF GoAstray, TypeOK
  <2> QED
    BY <2>1, <2>2, StaysPlaced, Zenon
<1>5. ASSUME Finish PROVE TypeOK' /\ Placed'
  <2>1. /\ pc = "relocate" /\ pc' = "idle"
        /\ loaded' = loaded \cup {Current}
        /\ UNCHANGED <<memory, extents, stack, file, at, block, index>>
    BY <1>5, Zenon DEF Finish, Current
  <2>2. file \in Files
    BY <2>1 DEF Placed
  <2>3. Current.file = file /\ Current.at = at
    BY DEF Current
  <2>4. TypeOK'
    BY <2>1, <2>2, <2>3 DEF TypeOK
  <2>5. Used' = Used
    BY <2>1 DEF Used
  <2>6. Held' = Held
    BY <2>5 DEF Held
  <2>7. Placed'
    <3>1. pc # "idle" /\ ~ pc' # "idle" /\ at \in Nat
      BY <2>1, CurrentIsPlaced
    <3> QED
      BY <2>1, <2>3, <2>5, <2>6, <3>1, Zenon DEF Placed, Overrun
  <2> QED
    BY <2>4, <2>7
<1>6. ASSUME NEW b \in Int, NEW v \in Stale, OthersWrite(b, v)
      PROVE  TypeOK' /\ Placed'
  <2>1. /\ pc = "idle" /\ UNCHANGED <<extents, pc, stack, file, at, block, index, loaded>>
        /\ memory' = [a \in Addresses |-> IF a \in Address(b) .. (Address(b) + BlockSize - 1)
                                          THEN v[1 + (a % 2)] ELSE memory[a]]
    BY <1>6, Zenon DEF OthersWrite
  <2>2. memory \in Memories
    BY Zenon DEF TypeOK, Memories, Words
  <2>3. v \in Words \X Words
    BY LoaderAssumption, Zenon DEF Words
  <2>4. ASSUME NEW a \in Addresses PROVE v[1 + (a % 2)] \in Words /\ memory[a] \in Words
    <3>1. a \in Nat
      BY Constants DEF Addresses
    <3>2. a % 2 \in 0..1
      BY <3>1, SMTT(10)
    <3>3. v[1 + (a % 2)] \in Words
      BY <2>3, <3>2
    <3> QED
      BY <2>2, <3>3, Zenon DEF Memories
  <2>5. memory' \in Memories
    BY <2>1, <2>4, Zenon DEF Memories
  <2>6. TypeOK'
    BY <2>1, <2>5, Zenon DEF TypeOK, Memories, Words
  <2>7. Placed'
    BY <2>1 DEF Placed, Overrun, Used, Held
  <2> QED
    BY <2>6, <2>7
<1>7. CASE UNCHANGED vars
  BY <1>7 DEF vars, TypeOK, Placed, Overrun, Used, Held, Span, Current
<1>8. 1..((RamSize - Low) \div BlockSize) \subseteq Int
  OBVIOUS
<1> QED
  BY <1>1, <1>2, <1>3, <1>4, <1>5, <1>6, <1>7, <1>8, Zenon DEF Next, LoaderStep

-----------------------------------------------------------------------------
(* Programs come out linked *)

\* A file that is not complete, once loaded, is among the loaded.
LEMMA StillWellFormed ==
    ASSUME Placed, [Next]_vars, AllWellFormed'
    PROVE  AllWellFormed
<1>1. ASSUME pc = "idle", loaded' = loaded PROVE AllWellFormed
  <2>1. \A l \in loaded : l.file \in Complete
    BY <1>1, Zenon DEF AllWellFormed
  <2>2. file # None => \E l \in loaded : l.file = file
    BY <1>1, Zenon DEF Placed
  <2> QED
    BY <2>1, <2>2, Zenon DEF AllWellFormed
<1>2. ASSUME file' = file, loaded \subseteq loaded' PROVE AllWellFormed
  BY <1>2, Zenon DEF AllWellFormed
<1>3. ASSUME NEW path, LdrLoadPe(path)
      PROVE  (pc = "idle" /\ loaded' = loaded) \/ (file' = file /\ loaded' = loaded)
  BY <1>3 DEF LdrLoadPe, vars
<1>4. ASSUME LdrRelocMemory_entry \/ LdrRelocMemory_block \/ GoAstray
      PROVE  file' = file /\ loaded' = loaded
  BY <1>4 DEF LdrRelocMemory_entry, LdrRelocMemory_block, GoAstray
<1>5. ASSUME Finish PROVE file' = file /\ loaded \subseteq loaded'
  BY <1>5 DEF Finish
<1>6. ASSUME NEW b, NEW v, OthersWrite(b, v) PROVE file' = file /\ loaded' = loaded
  BY <1>6 DEF OthersWrite
<1>7. ASSUME UNCHANGED vars PROVE file' = file /\ loaded' = loaded
  BY <1>7 DEF vars
<1>8. \/ pc = "idle" /\ loaded' = loaded
      \/ file' = file /\ loaded \subseteq loaded'
  BY <1>3, <1>4, <1>5, <1>6, <1>7, Zenon DEF Next, LoaderStep
<1> QED
  BY <1>1, <1>2, <1>8, Zenon

\* The same as a formula of one state.
LEMMA PlacedIsPlaced ==
    TypeOK /\ Placed /\ pc # "idle" => file \in Files /\ at \in Nat /\ IsPlaced(Image[file], at)
BY CurrentIsPlaced

\* And of the image that is relocated next.
LEMMA NextIsPlaced ==
    ASSUME TypeOK', Placed', pc' # "idle"
    PROVE  file' \in Files /\ at' \in Nat /\ IsPlaced(Image[file'], at')
<1>2. (TypeOK /\ Placed /\ pc # "idle")'
        => (file \in Files /\ at \in Nat /\ IsPlaced(Image[file], at))'
  BY PlacedIsPlaced, PTL
<1>3. (TypeOK /\ Placed /\ pc # "idle")'
  OBVIOUS
<1>4. (file \in Files /\ at \in Nat /\ IsPlaced(Image[file], at))'
  BY <1>2, <1>3
<1>5. IsPlaced(Image[file], at)' => IsPlaced(Image[file'], at')
  BY DEF IsPlaced
<1> QED
  BY <1>4, <1>5

\* Programs stay linked while none of their words are changed.
LEMMA LoadedStay ==
    ASSUME Placed, LoadedAsLinked, loaded' = loaded, AllWellFormed,
           \A a \in Addresses : memory'[a] # memory[a] =>
              \A l \in loaded : l.at # NULL => a \notin Span(l)
    PROVE  LoadedAsLinked'
<1> SUFFICES ASSUME NEW l \in loaded, l.at # NULL, NEW rva \in CopiedRvas(Image[l.file])
             PROVE  memory'[l.at + rva] = Linked(Image[l.file], l.at, rva)
  BY Zenon DEF LoadedAsLinked
<1>1. memory[l.at + rva] = Linked(Image[l.file], l.at, rva)
  BY Zenon DEF LoadedAsLinked
<1>2. l.file \in Complete
  BY Zenon DEF AllWellFormed
<1>3. rva \in Nat /\ rva < Image[l.file].SizeOfImage /\ Image[l.file].SizeOfImage \in Nat
  BY <1>2, RelocationsExist, CopiedIsInside, ImageTyped
<1>4. l.at \in Nat
  BY Zenon DEF Placed
<1>5. l.at + rva \in Span(l)
  BY <1>3, <1>4 DEF Span
<1>6. l.at + rva \in Addresses
  <2>1. Span(l) \subseteq Addresses
    BY Zenon DEF Placed
  <2> QED
    BY <1>5, <2>1, Zenon
<1>7. memory'[l.at + rva] = memory[l.at + rva]
  BY <1>5, <1>6, Zenon
<1> QED
  BY <1>1, <1>7, Zenon

\* Nothing of a loaded program is among the words of the image being loaded, nor
\* in front of the heap.
LEMMA LoadedAreElsewhere ==
    ASSUME Placed, NEW l \in loaded, l.at # NULL, NEW a \in Span(l)
    PROVE  /\ a \in Nat /\ a >= Low
           /\ pc # "idle" /\ at # NULL => a \notin Span(Current)
<1>1. Used \subseteq Nat \ {0} /\ a \in Held
  BY Zenon DEF Placed
<1>2. a \in Nat /\ a >= Low
  BY <1>1, HeldIsHeap, Zenon
<1>3. pc # "idle" /\ at # NULL => a \notin Span(Current)
  BY Zenon DEF Placed
<1> QED
  BY <1>2, <1>3

Elsewhere == \A l \in loaded : l.at # NULL => \A a \in Span(l) :
                pc # "idle" /\ at # NULL => a \notin Span(Current)

\* The same as a formula of one state.
LEMMA LoadedElsewhere == Placed => Elsewhere
BY LoadedAreElsewhere DEF Elsewhere

\* Copying a program leaves the others alone, and what was copied is the file.
LEMMA LoadKeepsLinked ==
    ASSUME TypeOK, Placed, LoadedAsLinked, AllWellFormed, TypeOK', Placed', AllWellFormed',
           NEW name \in Files, NEW junk \in Stale,
           pc = "idle", file' = name, LdrAllocMemory(Image[name].SizeOfImage),
           memory' = LdrCpySections(Image[name], junk, at', LdrProcessPe(Image[name], junk)),
           block' = (at' + Image[name].reloc) % WordMod,
           index' = 0, pc' = "relocate", loaded' = loaded
    PROVE  /\ LoadedAsLinked' /\ Relocating'
           /\ \A a \in Addresses \ (0..(Processed - 1)) : memory'[a] # memory[a] =>
                 a \in at' .. (at' + Image[file'].SizeOfImage - 1)
<1> DEFINE image == Image[name]
           r == Relocations(image)
           processed == LdrProcessPe(image, junk)
<1>1. at' \in Nat /\ IsPlaced(image, at')
  <2>1. pc' # "idle"
    OBVIOUS
  <2> QED
    BY <2>1, NextIsPlaced, Zenon
<1>2. name \in Complete /\ SectionsFit(image)
  <2>1. file' # None
    BY NoneAssumption
  <2>2. name \in Complete
    BY <2>1, Zenon DEF AllWellFormed
  <2> QED
    BY <2>2, RelocationsExist
<1>3. processed \in Memories /\ \A a \in Addresses : a >= Processed => processed[a] = memory[a]
  <2>1. memory \in Memories
    BY Zenon DEF TypeOK, Memories, Words
  <2> QED
    BY <2>1, ProcessPeIsMemory
<1>4. ASSUME NEW a \in Addresses
      PROVE  memory'[a] = IF a - at' \in CopiedRvas(image) THEN FileWord(image, a - at')
                          ELSE processed[a]
  <2>1. at' \in Int
    BY <1>1
  <2>2. LdrCpySections(image, junk, at', processed)[a]
           = IF a - at' \in CopiedRvas(image) THEN FileWord(image, a - at') ELSE processed[a]
    BY <1>2, <1>3, <2>1, CopiedIsFile
  <2> QED
    BY <2>2, Zenon
<1>5. image.SizeOfImage \in Nat /\ image.SizeOfImage \in 1..Low /\ image.reloc \in Nat
  BY ImageTyped
<1>6. ASSUME NEW rva \in CopiedRvas(image)
      PROVE  /\ rva \in Nat /\ rva < image.SizeOfImage /\ rva >= Processed
             /\ at' + rva \in Addresses /\ (at' + rva) - at' = rva
  <2>1. /\ rva \in Processed .. (image.SizeOfImage - 1)
        /\ rva \in Nat /\ rva < image.SizeOfImage
    BY <1>2, CopiedIsInside, Zenon
  <2>2. rva \in 0..(image.SizeOfImage - 1)
    BY <1>5, <2>1
  <2>3. at' + rva \in Addresses
    BY <1>1, <2>2, Zenon DEF IsPlaced
  <2>4. \A x, y \in Nat : (x + y) - x = y
    OBVIOUS
  <2>5. rva >= Processed
    BY <1>5, <2>1, Constants
  <2> QED
    BY <1>1, <2>1, <2>3, <2>4, <2>5, Zenon
<1>7. Processed < Low /\ Processed \in Nat
  <2>1. r.end \in CopiedRvas(image)
    BY <1>2, RelocationsExist, Zenon DEF IsRelocations
  <2>2. r.end \in Nat /\ r.end < image.SizeOfImage /\ r.end >= Processed
    BY <1>6, <2>1, Zenon
  <2> QED
    BY <1>5, <2>2, Constants
<1> DEFINE to == at'
<1>8. ASSUME NEW a \in Addresses, memory'[a] # memory[a]
      PROVE  a \in 0..(Processed - 1) \/ a \in to .. (to + image.SizeOfImage - 1)
  <2>1. a \in Nat
    BY Constants DEF Addresses
  <2>2. CASE a - to \in CopiedRvas(image)
    <3>1. a - to \in Nat /\ a - to < image.SizeOfImage
      BY <1>6, <2>2, Zenon
    <3>2. to \in Nat
      BY <1>1
    <3> HIDE DEF to, image
    <3>3. a \in to .. (to + image.SizeOfImage - 1)
      BY <1>5, <2>1, <3>1, <3>2
    <3> QED
      BY <3>3, Zenon
  <2>3. CASE a - to \notin CopiedRvas(image)
    <3>1. memory'[a] = processed[a]
      BY <1>4, <2>3, Zenon
    <3>2. ~ a >= Processed
      BY <1>3, <1>8, <3>1, Zenon
    <3>3. a \in 0..(Processed - 1)
      <4>1. Processed \in Nat
        BY <1>7
      <4> QED
        BY <2>1, <3>2, <4>1
    <3> QED
      BY <3>3, Zenon
  <2> QED
    BY <2>2, <2>3, Zenon
<1>9. LoadedAsLinked'
  <2>1. ASSUME NEW a \in Addresses, memory'[a] # memory[a],
               NEW l \in loaded, l.at # NULL, a \in Span(l)
        PROVE  FALSE
    <3>1. a \in Nat /\ a >= Low
      BY <2>1, LoadedAreElsewhere, Zenon
    <3>2. a \in 0..(Processed - 1) \/ a \in at' .. (at' + image.SizeOfImage - 1)
      BY <1>8, <2>1, Zenon
    <3>3. a \notin 0..(Processed - 1)
      BY <1>7, <3>1, Constants
    <3>4. CASE at' = NULL
      <4>1. a \in 0 .. (0 + image.SizeOfImage - 1)
        BY <3>2, <3>3, <3>4, Zenon DEF NULL
      <4> QED
        BY <1>5, <3>1, <4>1, Constants
    <3>5. CASE at' # NULL
      <4>1. a \notin Span(Current)'
        <5>1. Placed' => Elsewhere'
          BY LoadedElsewhere, PTL
        <5>2. \A k \in loaded' : k.at # NULL => \A x \in Span(k) :
                             pc' # "idle" /\ at' # NULL => x \notin Span(Current)'
          BY <5>1 DEF Elsewhere
        <5>3. pc' # "idle" /\ l \in loaded'
          OBVIOUS
        <5> QED
          BY <2>1, <3>5, <5>2, <5>3, Zenon
      <4>2. Span(Current)' = at' .. (at' + image.SizeOfImage - 1)
        BY DEF Span, Current
      <4> QED
        BY <3>2, <3>3, <4>1, <4>2, Zenon
    <3> QED
      BY <3>4, <3>5, Zenon
  <2> QED
    BY <2>1, LoadedStay, Zenon
<1>10. Relocating'
  <2>1. image.reloc \in r.starts \cup {r.end} /\ image.reloc \in CopiedRvas(image)
    <3>1. /\ image.reloc \in r.starts \cup {r.end} /\ image.reloc <= r.end /\ r.end \in Nat
          /\ Listed(image) \subseteq CopiedRvas(image)
      BY <1>2, ListShape
    <3>2. image.reloc \in image.reloc .. (r.end + 1)
      BY <1>5, <3>1
    <3> QED
      BY <3>1, <3>2, Zenon DEF Listed
  <2>2. block' = at' + image.reloc
    <3>1. at' + image.reloc \in 0..(WordMod - 1)
      BY <1>6, <2>1, AddressesFit, Zenon
    <3>2. (at' + image.reloc) % WordMod = at' + image.reloc
      BY <3>1, Constants, Remaining, Zenon
    <3> QED
      BY <3>2, Zenon
  <2>3. block' - at' = image.reloc
    BY <1>6, <2>1, <2>2, Zenon
  <2>4. LinkedUpTo(memory', image, at', image.reloc, 0)
    <3>1. Done(image, image.reloc, 0) = {}
      BY <1>2, DoneAtFirst, Zenon
    <3>2. \A rva \in CopiedRvas(image) : memory'[at' + rva] = FileWord(image, rva)
      BY <1>4, <1>6, Zenon
    <3> HIDE DEF image
    <3> QED
      BY <3>1, <3>2 DEF LinkedUpTo
  <2>5. /\ block' - at' \in r.starts \cup {r.end}
        /\ index' = 0
        /\ LinkedUpTo(memory', image, at', block' - at', index')
    BY <2>1, <2>3, <2>4, Zenon
  <2>6. Image[file'] = image
    OBVIOUS
  <2> HIDE DEF image
  <2>7. /\ block' - at' \in Relocations(Image[file']).starts \cup {Relocations(Image[file']).end}
        /\ index' = 0
        /\ LinkedUpTo(memory', Image[file'], at', block' - at', index')
    BY <2>5, <2>6, Zenon
  <2>8. LinkedUpTo(memory', Image[file'], at', block' - at', index')
          => LinkedUpTo(memory, Image[file], at, block - at, index)'
    BY Zenon DEF LinkedUpTo, Done
  <2> QED
    BY <2>7, <2>8, Zenon DEF Relocating
<1>11. \A a \in Addresses \ (0..(Processed - 1)) : memory'[a] # memory[a] =>
                 a \in at' .. (at' + Image[file'].SizeOfImage - 1)
  BY <1>8, Zenon
<1> QED
  BY <1>9, <1>10, <1>11

\* An entry of a complete program's list changes words of its image only, and the
\* image is linked up to the next entry.
LEMMA EntryKeepsAllLinked ==
    ASSUME IInv, AllWellFormed, LdrRelocMemory_entry
    PROVE  /\ LoadedAsLinked' /\ Relocating'
           /\ \A a \in Addresses : memory'[a] # memory[a] => a \in Span(Current)
<1> DEFINE image == Image[file]
           r == Relocations(image)
           b == block - at
           entry == FileWord(image, b + HeaderSize + index)
           next == Relocate(memory, RelocAt(at, FileDword(image, b), entry % OffsetMod),
                            entry \div OffsetMod, RelocOffset(at, image))
<1>0. TypeOK /\ Placed /\ LoadedAsLinked
  BY DEF IInv
<1>1. /\ pc = "relocate" /\ VirtualAddress(memory, block) # 0
      /\ index < SizeOfBlock(memory, block) - HeaderSize
      /\ memory' = Relocate(memory, RelocAt(at, VirtualAddress(memory, block),
                                    Read(memory, (block + HeaderSize + index) % WordMod) % OffsetMod),
                            Read(memory, (block + HeaderSize + index) % WordMod) \div OffsetMod,
                            RelocOffset(at, image))
      /\ index' = index + 1
      /\ UNCHANGED <<extents, pc, stack, file, at, block, loaded>>
  BY Zenon DEF LdrRelocMemory_entry, InBlock, NumEntries
<1>2. Relocating
  BY <1>1 DEF IInv
<1>3. /\ file \in Complete /\ at \in Nat /\ IsPlaced(image, at)
      /\ b \in Nat /\ block = at + b /\ b \in r.starts \cup {r.end}
      /\ VirtualAddress(memory, block) = FileDword(image, b)
      /\ b \in r.starts => SizeOfBlock(memory, block) = FileDword(image, b + 2)
  BY <1>1, AtBlock, Zenon
<1>4. LinkedUpTo(memory, image, at, b, index)
  BY <1>2, Zenon DEF Relocating
<1>5. memory \in Memories /\ index \in Nat
  <2>1. memory \in Memories
    BY <1>0, Zenon DEF TypeOK, Memories, Words
  <2>2. index \in 0..Cardinality(Addresses)
    BY <1>0, Zenon DEF TypeOK
  <2> QED
    BY <2>1, <2>2, MemoryIsFinite
<1> HIDE DEF b
<1>6. b \in r.starts
  <2>1. FileDword(image, r.end) = 0
    BY <1>3, ListShape
  <2> QED
    BY <1>1, <1>3, <2>1, Zenon
<1>7. index < FileDword(image, b + 2) - HeaderSize
  BY <1>1, <1>3, <1>6, Zenon
<1>8. Read(memory, (block + HeaderSize + index) % WordMod) = entry
  <2>1. b + HeaderSize + index \in Listed(image)
    BY <1>3, <1>5, <1>6, <1>7, PlaceIsListed
  <2> DEFINE rva == b + HeaderSize + index
  <2>2. block + HeaderSize + index = at + rva
    BY <1>3, <1>5 DEF HeaderSize
  <2>3. /\ (at + rva) % WordMod = at + rva
        /\ Read(memory, at + rva) = FileWord(image, rva)
    <3> HIDE DEF rva
    <3> QED
      BY <1>3, <1>4, <2>1, ListIsRead, Zenon DEF rva
  <2> QED
    BY <2>2, <2>3, Zenon
<1>9. memory' = next
  BY <1>1, <1>3, <1>8, Zenon
<1>10. /\ next \in Memories
       /\ LinkedUpTo(next, image, at, b, index + 1)
       /\ \A a \in Addresses : next[a] # memory[a] => a - at \in CopiedRvas(image)
  BY <1>3, <1>4, <1>5, <1>6, <1>7, EntryKeepsLinked, Zenon
<1> HIDE DEF next, entry
<1>11. ASSUME NEW a \in Addresses, memory'[a] # memory[a] PROVE a \in Span(Current)
  <2>1. a - at \in CopiedRvas(image)
    BY <1>9, <1>10, <1>11, Zenon
  <2>2. a - at \in Nat /\ a - at < image.SizeOfImage /\ image.SizeOfImage \in Nat
    BY <1>3, <2>1, RelocationsExist, CopiedIsInside, ImageTyped
  <2>3. a \in Nat
    BY Constants DEF Addresses
  <2>4. a \in at .. (at + image.SizeOfImage - 1)
    BY <1>3, <2>2, <2>3
  <2>5. Span(Current) = at .. (at + image.SizeOfImage - 1)
    BY DEF Span, Current
  <2> QED
    BY <2>4, <2>5, Zenon
<1>12. LoadedAsLinked'
  <2>1. ASSUME NEW a \in Addresses, memory'[a] # memory[a],
               NEW l \in loaded, l.at # NULL, a \in Span(l)
        PROVE  FALSE
    <3>1. /\ a \in Nat /\ a >= Low
          /\ pc # "idle" /\ at # NULL => a \notin Span(Current)
      BY <1>0, <2>1, LoadedAreElsewhere, Zenon
    <3>2. a \in Span(Current)
      BY <1>11, <2>1, Zenon
    <3>3. pc # "idle" /\ at = NULL
      BY <1>1, <3>1, <3>2
    <3>4. a \in 0 .. (0 + image.SizeOfImage - 1)
      BY <3>2, <3>3 DEF Span, Current, NULL
    <3>5. image.SizeOfImage \in 1..Low
      BY <1>3, RelocationsExist, ImageTyped
    <3> QED
      BY <3>1, <3>4, <3>5, Constants
  <2>2. loaded' = loaded
    BY <1>1
  <2> QED
    BY <1>0, <2>1, <2>2, LoadedStay, Zenon
<1>13. Relocating'
  <2>1. /\ b \in r.starts \cup {r.end}
        /\ b # r.end
        /\ LinkedUpTo(memory', image, at, b, index')
    <3>1. b # r.end
      BY <1>3, <1>6, BlockShape
    <3> QED
      BY <1>1, <1>3, <1>9, <1>10, <3>1, Zenon
  <2>2. at' = at /\ block' = block /\ file' = file
    BY <1>1
  <2> HIDE DEF image
  <2>3. block' - at' = b /\ Image[file'] = image
    BY <2>2, Zenon DEF b, image
  <2>4. LinkedUpTo(memory', Image[file'], at', block' - at', index')
    BY <2>1, <2>2, <2>3, Zenon
  <2>5. LinkedUpTo(memory', Image[file'], at', block' - at', index')
          => LinkedUpTo(memory, Image[file], at, block - at, index)'
    BY Zenon DEF LinkedUpTo, Done
  <2>6. block' - at' \in Relocations(Image[file']).starts \cup {Relocations(Image[file']).end}
        /\ block' - at' # Relocations(Image[file']).end
    BY <2>1, <2>3, Zenon
  <2> QED
    BY <2>4, <2>5, <2>6, Zenon DEF Relocating
<1> QED
  BY <1>11, <1>12, <1>13

\* Behind the last entry of a block comes the next one, or the end.
LEMMA BlockKeepsLinked ==
    ASSUME IInv, AllWellFormed, LdrRelocMemory_block
    PROVE  LoadedAsLinked' /\ Relocating'
<1> DEFINE image == Image[file]
           r == Relocations(image)
           b == block - at
           size == FileDword(image, b + 2)
<1>1. /\ pc = "relocate" /\ VirtualAddress(memory, block) # 0
      /\ index >= SizeOfBlock(memory, block) - HeaderSize
      /\ block' = (block + SizeOfBlock(memory, block)) % WordMod
      /\ index' = 0
      /\ UNCHANGED <<memory, extents, pc, stack, file, at, loaded>>
  BY Zenon DEF LdrRelocMemory_block, InBlock, NumEntries
<1>2. TypeOK /\ LoadedAsLinked /\ Relocating
  BY <1>1 DEF IInv
<1>3. /\ file \in Complete /\ at \in Nat /\ IsPlaced(image, at)
      /\ b \in Nat /\ block = at + b /\ b \in r.starts \cup {r.end}
      /\ VirtualAddress(memory, block) = FileDword(image, b)
      /\ b \in r.starts => SizeOfBlock(memory, block) = size
  BY <1>1, AtBlock, Zenon
<1>4. LinkedUpTo(memory, image, at, b, index)
  BY <1>2, Zenon DEF Relocating
<1>5. index \in Nat
  <2>1. index \in 0..Cardinality(Addresses)
    BY <1>2, Zenon DEF TypeOK
  <2> QED
    BY <2>1, MemoryIsFinite
<1> HIDE DEF b
<1>6. b \in r.starts
  <2>1. FileDword(image, r.end) = 0
    BY <1>3, ListShape
  <2> QED
    BY <1>1, <1>3, <2>1, Zenon
<1>7. /\ size \in Nat /\ Behind(image, b) = b + size /\ b + size <= r.end
      /\ Behind(image, b) \in r.starts \cup {r.end}
  BY <1>3, <1>6, BlockShape
<1>8. block' = at + (b + size)
  <2>1. r.end \in Nat /\ r.end + 1 < image.SizeOfImage /\ image.SizeOfImage \in Nat
    BY <1>3, ListShape, RelocationsExist, ImageTyped
  <2> HIDE DEF size, r, image
  <2>2. b + size \in 0..(image.SizeOfImage - 1)
    BY <1>3, <1>7, <2>1
  <2>3. at + (b + size) \in Addresses
    BY <1>3, <2>2, Zenon DEF IsPlaced
  <2>4. at + (b + size) \in 0..(WordMod - 1)
    BY <2>3, AddressesFit, Zenon
  <2>5. (at + (b + size)) % WordMod = at + (b + size)
    BY <2>4, Constants, Remaining, Zenon
  <2>6. block + size = at + (b + size)
    BY <1>3, <1>7
  <2> QED
    BY <1>1, <1>3, <1>6, <2>5, <2>6, Zenon
<1>9. block' - at' = Behind(image, b)
  <2> HIDE DEF size, image
  <2>1. (at + (b + size)) - at = b + size
    BY <1>3, <1>7
  <2> QED
    BY <1>1, <1>7, <1>8, <2>1, Zenon
<1>10. Done(image, Behind(image, b), 0) = Done(image, b, index)
  BY <1>1, <1>3, <1>5, <1>6, DoneByBlock, Zenon
<1>11. LinkedUpTo(memory, image, at, Behind(image, b), 0)
  BY <1>4, <1>10, Zenon DEF LinkedUpTo
<1>12. Relocating'
  <2>1. at' = at /\ file' = file /\ memory' = memory /\ index' = 0
    BY <1>1
  <2> HIDE DEF image
  <2>2. LinkedUpTo(memory', Image[file'], at', block' - at', index')
    BY <1>9, <1>11, <2>1, Zenon DEF image
  <2>3. LinkedUpTo(memory', Image[file'], at', block' - at', index')
          => LinkedUpTo(memory, Image[file], at, block - at, index)'
    BY Zenon DEF LinkedUpTo, Done
  <2>4. block' - at' \in Relocations(Image[file']).starts \cup {Relocations(Image[file']).end}
    BY <1>7, <1>9, <2>1, Zenon DEF image
  <2> QED
    BY <2>1, <2>2, <2>3, <2>4, Zenon DEF Relocating
<1>13. LoadedAsLinked'
  <2>1. memory' = memory /\ loaded' = loaded
    BY <1>1
  <2> QED
    BY <1>2, <2>1, Zenon DEF LoadedAsLinked, AllWellFormed
<1> QED
  BY <1>12, <1>13

\* At the end of the list all words are linked.
LEMMA FinishLinks ==
    ASSUME IInv, AllWellFormed, Finish
    PROVE  LoadedAsLinked'
<1> DEFINE image == Image[file]
           r == Relocations(image)
           b == block - at
<1>1. /\ pc = "relocate" /\ VirtualAddress(memory, block) = 0
      /\ loaded' = loaded \cup {Current} /\ memory' = memory
  BY Zenon DEF Finish, Current
<1>2. LoadedAsLinked /\ Relocating
  BY <1>1 DEF IInv
<1>3. /\ file \in Complete
      /\ b \in r.starts \cup {r.end}
      /\ VirtualAddress(memory, block) = FileDword(image, b)
  BY <1>1, AtBlock, Zenon
<1>4. LinkedUpTo(memory, image, at, b, index) /\ (b = r.end => index = 0)
  BY <1>2, Zenon DEF Relocating
<1> HIDE DEF b
<1>5. b = r.end /\ index = 0
  <2>1. b \in r.starts => FileDword(image, b) # 0
    BY <1>3, BlockShape
  <2> QED
    BY <1>1, <1>3, <1>4, <2>1, Zenon
<1>6. ASSUME NEW rva \in CopiedRvas(image) PROVE memory[at + rva] = Linked(image, at, rva)
  <2>1. CASE rva \in Done(image, b, index)
    BY <1>4, <2>1, Zenon DEF LinkedUpTo
  <2>2. CASE rva \notin Done(image, b, index)
    <3>1. ASSUME NEW p \in PlacesOf(image), rva \in Touched(EntryAt(image, p)) PROVE FALSE
      <4>1. p[1] \in r.starts
        BY DEF PlacesOf, Places
      <4>2. p[1] \in Nat /\ p[1] < r.end
        <5>1. /\ image.reloc \in Nat /\ r.end \in Nat
              /\ r.starts \subseteq image.reloc .. (r.end - HeaderSize)
          BY <1>3, ListShape
        <5>2. p[1] \in image.reloc .. (r.end - HeaderSize)
          BY <4>1, <5>1, Zenon
        <5> QED
          BY <5>1, <5>2 DEF HeaderSize
      <4>3. p[1] < b
        BY <1>5, <4>2, Zenon
      <4>4. rva \in Done(image, b, index)
        <5> HIDE DEF image
        <5> QED
          BY <3>1, <4>3, Zenon DEF Done
      <4> QED
        BY <2>2, <4>4, Zenon
    <3>2. Linked(image, at, rva) = FileWord(image, rva)
      BY <1>3, <3>1, UntouchedIsLinked, Zenon
    <3> QED
      BY <1>4, <2>2, <3>2, Zenon DEF LinkedUpTo
  <2> QED
    BY <2>1, <2>2, Zenon
<1>7. Current.file = file /\ Current.at = at
  BY DEF Current
<1>8. \A l \in loaded' : l.at # NULL => \A rva \in CopiedRvas(Image[l.file]) :
         memory'[l.at + rva] = Linked(Image[l.file], l.at, rva)
  BY <1>1, <1>2, <1>6, <1>7, Zenon DEF LoadedAsLinked
<1> QED
  BY <1>8, Zenon DEF LoadedAsLinked

\* Others write to blocks nobody holds.
LEMMA OthersKeepLinked ==
    ASSUME Placed, LoadedAsLinked, AllWellFormed, NEW b \in Int, NEW v, OthersWrite(b, v)
    PROVE  LoadedAsLinked'
<1>1. /\ b \notin Used /\ loaded' = loaded
      /\ memory' = [a \in Addresses |-> IF a \in Address(b) .. (Address(b) + BlockSize - 1)
                                        THEN v[1 + (a % 2)] ELSE memory[a]]
  BY Zenon DEF OthersWrite
<1>2. ASSUME NEW a \in Addresses, memory'[a] # memory[a],
             NEW l \in loaded, l.at # NULL, a \in Span(l)
      PROVE  FALSE
  <2>1. a \in Address(b) .. (Address(b) + BlockSize - 1)
    BY <1>1, <1>2, Zenon
  <2>2. Used \subseteq Nat \ {0} /\ a \in Held
    BY <1>2, Zenon DEF Placed
  <2>3. PICK c \in Used : a \in Address(c) .. (Address(c) + BlockSize - 1)
    BY <2>2, Zenon DEF Held
  <2>4. b \in Int /\ c \in Int /\ b # c
    BY <1>1, <2>2
  <2>5. (Address(b) .. (Address(b) + BlockSize - 1))
           \cap (Address(c) .. (Address(c) + BlockSize - 1)) = {}
    BY <2>4, BlocksAreApart, Zenon
  <2> QED
    BY <2>1, <2>3, <2>5, Zenon
<1> QED
  BY <1>1, <1>2, LoadedStay, Zenon

\* What LdrLoadPe does when it opens an executable.
Loads(name, junk) ==
    /\ pc = "idle" /\ file' = name
    /\ LdrAllocMemory(Image[name].SizeOfImage)
    /\ memory' = LdrCpySections(Image[name], junk, at', LdrProcessPe(Image[name], junk))
    /\ block' = (at' + Image[name].reloc) % WordMod
    /\ index' = 0 /\ pc' = "relocate" /\ loaded' = loaded

\* Otherwise the stack at most.
LEMMA LoadsOrNot ==
    ASSUME NEW path, LdrLoadPe(path)
    PROVE  UNCHANGED <<memory, extents, pc, file, at, block, index, loaded>> \/ \E name \in Files, junk \in Stale : Loads(name, junk)
<1>1. Executables \subseteq Files
  BY DEF Executables
<1>2. UNCHANGED vars => UNCHANGED <<memory, extents, pc, file, at, block, index, loaded>>
  BY DEF vars
<1> QED
  BY <1>1, <1>2, Zenon DEF LdrLoadPe, Loads

\* Every step keeps the invariant.
LEMMA StepKeepsIInv ==
    ASSUME IInv, [Next]_vars
    PROVE  IInv'
<1>1. TypeOK /\ Placed /\ LoadedAsLinked /\ (AllWellFormed /\ pc = "relocate" => Relocating)
  BY DEF IInv
<1>2. TypeOK' /\ Placed'
  BY <1>1, StepKeepsTypes
<1>3. AllWellFormed' => AllWellFormed
  BY <1>1, StillWellFormed
<1>4. CASE ~ AllWellFormed'
  <2>1. LoadedAsLinked'
    BY <1>4, Zenon DEF LoadedAsLinked
  <2> QED
    BY <1>2, <1>4, <2>1, Zenon DEF IInv
<1>5. CASE AllWellFormed'
  <2>0. AllWellFormed
    BY <1>3, <1>5
  <2>1. ASSUME UNCHANGED <<memory, extents, pc, file, at, block, index, loaded>>
        PROVE  LoadedAsLinked' /\ (pc' = "relocate" => Relocating')
    BY <1>1, <2>0, <2>1 DEF LoadedAsLinked, AllWellFormed, Relocating, LinkedUpTo, Done
  <2>2. ASSUME NEW name \in Files, NEW junk \in Stale, Loads(name, junk)
        PROVE  LoadedAsLinked' /\ Relocating'
    BY <1>1, <1>2, <1>5, <2>0, <2>2, LoadKeepsLinked, Zenon DEF Loads
  <2>3. ASSUME LdrRelocMemory_entry PROVE LoadedAsLinked' /\ Relocating'
    BY <2>0, <2>3, EntryKeepsAllLinked
  <2>4. ASSUME LdrRelocMemory_block PROVE LoadedAsLinked' /\ Relocating'
    BY <2>0, <2>4, BlockKeepsLinked
  <2>5. ASSUME GoAstray PROVE LoadedAsLinked' /\ pc' # "relocate"
    BY <1>1, <2>0, <2>5 DEF GoAstray, LoadedAsLinked, AllWellFormed
  <2>6. ASSUME Finish PROVE LoadedAsLinked' /\ pc' # "relocate"
    <3>1. pc' # "relocate"
      BY <2>6 DEF Finish
    <3> QED
      BY <2>0, <2>6, <3>1, FinishLinks
  <2>7. ASSUME NEW b \in Int, NEW v \in Stale, OthersWrite(b, v)
        PROVE  LoadedAsLinked' /\ pc' # "relocate"
    <3>1. pc' # "relocate"
      BY <2>7 DEF OthersWrite
    <3> QED
      BY <1>1, <2>0, <2>7, <3>1, OthersKeepLinked
  <2>9. UNCHANGED vars => UNCHANGED <<memory, extents, pc, file, at, block, index, loaded>>
    BY DEF vars
  <2>10. 1..((RamSize - Low) \div BlockSize) \subseteq Int
    OBVIOUS
  <2>8. LoadedAsLinked' /\ (pc' = "relocate" => Relocating')
    BY <2>1, <2>2, <2>3, <2>4, <2>5, <2>6, <2>7, <2>9, <2>10, LoadsOrNot, Zenon
    DEF Next, LoaderStep
  <2> QED
    BY <1>2, <2>8, Zenon DEF IInv
<1> QED
  BY <1>4, <1>5

\* The invariant holds always, for every memory, heap, set of files and number of
\* programs loaded.
THEOREM LoaderInvariant == Spec => []IInv
<1>1. Init => IInv
  BY InitIInv
<1>2. IInv /\ [Next]_vars => IInv'
  BY StepKeepsIInv
<1> QED
  BY <1>1, <1>2, PTL DEF Spec

\* Memory holds words, images begin where the heap gave memory or at address 0, and
\* the loop's pointers stay in range, whatever the files hold.
THEOREM LoaderTypeCorrect == Spec => []TypeOK
<1>1. IInv => TypeOK
  BY DEF IInv
<1> QED
  BY <1>1, LoaderInvariant, PTL

\* Every complete file that LdrLoadPe processed, the one asked for or the one that
\* was in the buffer, refers to itself where it was put, in the heap or behind it,
\* and is the file's otherwise, and stays so whatever is loaded after it, to
\* address 0 when the last block is taken included.
THEOREM ProgramsAreLinked == Spec => []LoadedAsLinked
<1>1. IInv => LoadedAsLinked
  BY DEF IInv
<1> QED
  BY <1>1, LoaderInvariant, PTL

\* Copying and relocating such a program writes to its image alone, also where that
\* goes on behind the heap, apart from what LdrProcessPe stores at address 0.
THEOREM LoadingStaysInside == Spec => WritesStayInside
<1>1. IInv /\ IInv' /\ [Next]_vars =>
         [(pc' = "relocate" /\ AllWellFormed') =>
             \A a \in Addresses \ (0..(Processed - 1)) : memory'[a] # memory[a] =>
                a \in at' .. (at' + Image[file'].SizeOfImage - 1)]_memory
  <2> SUFFICES ASSUME IInv, IInv', [Next]_vars, pc' = "relocate", AllWellFormed',
                      memory' # memory
               PROVE  \A a \in Addresses \ (0..(Processed - 1)) : memory'[a] # memory[a] =>
                         a \in at' .. (at' + Image[file'].SizeOfImage - 1)
    BY Zenon
  <2>1. TypeOK /\ Placed /\ LoadedAsLinked /\ TypeOK' /\ Placed'
    BY DEF IInv
  <2>2. AllWellFormed
    BY <2>1, StillWellFormed
  <2>3. ASSUME NEW name \in Files, NEW junk \in Stale, Loads(name, junk)
        PROVE  \A a \in Addresses \ (0..(Processed - 1)) : memory'[a] # memory[a] =>
                  a \in at' .. (at' + Image[file'].SizeOfImage - 1)
    BY <2>1, <2>2, <2>3, LoadKeepsLinked, Zenon DEF Loads
  <2>4. ASSUME LdrRelocMemory_entry
        PROVE  \A a \in Addresses : memory'[a] # memory[a] =>
                  a \in at' .. (at' + Image[file'].SizeOfImage - 1)
    <3>1. \A a \in Addresses : memory'[a] # memory[a] => a \in Span(Current)
      BY <2>2, <2>4, EntryKeepsAllLinked
    <3>2. at' = at /\ file' = file
      BY <2>4 DEF LdrRelocMemory_entry
    <3>3. Span(Current) = at .. (at + Image[file].SizeOfImage - 1)
      BY DEF Span, Current
    <3> QED
      BY <3>1, <3>2, <3>3, Zenon
  <2>5. \/ LdrRelocMemory_block \/ GoAstray \/ Finish \/ UNCHANGED vars
        \/ UNCHANGED <<memory, extents, pc, file, at, block, index, loaded>>
        => memory' = memory
    BY DEF LdrRelocMemory_block, GoAstray, Finish, vars
  <2>6. \A b, v : OthersWrite(b, v) => pc' # "relocate"
    BY DEF OthersWrite
  <2> QED
    BY <2>3, <2>4, <2>5, <2>6, LoadsOrNot, Zenon DEF Next, LoaderStep
<1> QED
  BY <1>1, LoaderInvariant, PTL DEF Spec, WritesStayInside

===============================================================================
