-------------------------------- MODULE Loader --------------------------------
(***************************************************************************)
(* LdrLoadPe of init/loader.c: an executable is read into a buffer, its    *)
(* sections are copied to memory of its own and relocated there. Memory is *)
(* made of 16-bit words, and addresses and sizes count them. A call is not *)
(* interrupted, so the heap and the memory nobody holds change between     *)
(* calls only; what programs do to their own memory is left out.           *)
(* A request to the heap that is longer than what is left gets the last    *)
(* free blocks and what memory there is behind the heap (heap.c).          *)
(***************************************************************************)
EXTENDS Integers, FiniteSets, Sequences, SequencesExt, FiniteSetsExt

CONSTANTS HalfMod,    \* 2^16, the values of a word
          OffsetMod,  \* 2^12, the values of a relocation entry's offset
          Files,      \* what fopen finds, executable or not
          Image,      \* what each holds: header fields, sections, words
          BufferSize, \* how much of a file is read
          Processed,  \* size of a PEImageFileProcessed
          Low, Blocks, BlockSize, \* the heap: where it begins, its blocks
          RamSize,    \* the machine's memory, the heap's and what is behind it
          Stale,      \* what even and odd words may hold that are not written yet
          MaxLoads    \* bound: the programs loaded

ASSUME LoaderAssumption ==
    /\ {HalfMod, OffsetMod, BufferSize, Processed, Low, Blocks, BlockSize} \subseteq Nat \ {0}
    /\ RamSize \in (Low + Blocks * BlockSize) .. (HalfMod * HalfMod)
    /\ MaxLoads \in Nat
    \* There is memory for an image behind the heap, and no section lies in the
    \* page of the headers.
    /\ \A name \in Files :
          /\ Image[name].SizeOfImage \in 1..Low
          /\ Low + Blocks * BlockSize + Image[name].SizeOfImage <= RamSize
          /\ \A s \in Range(Image[name].sections) : s.VirtualAddress >= Processed
    /\ Stale \subseteq (0..(HalfMod - 1)) \X (0..(HalfMod - 1))

ASSUME ImagesAssumption ==
    \A name \in Files :
       /\ Image[name].words \in Seq(0..(HalfMod - 1))
       /\ {Image[name].ImageBase, Image[name].reloc} \subseteq Nat
       /\ Image[name].sections \in Seq([VirtualAddress : Nat, PointerToRawData : Nat,
                                        SizeOfRawData : Nat])
       /\ \A f \in Image[name].fields : {f.rva, f.target} \subseteq Nat

VARIABLES memory,
          extents, \* of the heap, first block and number of blocks
          pc,      \* "idle"; "relocate", in LdrRelocMemory; "astray", not to return
          stack,   \* the file the stack still holds where pBufImageFile will be
          file,    \* the one that is being loaded, or was last
          at,      \* pBufInMemPE
          block,   \* pImageBaseRelocation
          index,   \* i, of the block's entries
          loaded   \* which files were loaded where

vars == <<memory, extents, pc, stack, file, at, block, index, loaded>>

NULL == 0
None == "none"

ASSUME NoneAssumption == None \notin Files

WordMod == HalfMod * HalfMod

Addresses == 0..(RamSize - 1)
Address(b) == Low + (b - 1) * BlockSize

\* There is no memory elsewhere: a read sees the idle bus, a write is lost.
Read(mem, a) == IF a \in Addresses THEN mem[a] ELSE HalfMod - 1
Write(mem, a, v) == IF a \in Addresses THEN [mem EXCEPT ![a] = v] ELSE mem

ReadDword(mem, a) == Read(mem, a) + HalfMod * Read(mem, (a + 1) % WordMod)
WriteDword(mem, a, v) ==
    Write(Write(mem, a, v % HalfMod), (a + 1) % WordMod, v \div HalfMod)

-----------------------------------------------------------------------------
(* The heap, as far as the loader uses it: nothing is given back. *)

Used == UNION {e.first .. (e.first + e.blocks - 1) : e \in extents}

Fits(blocks) == {b \in 1..(Blocks - blocks + 1) : b .. (b + blocks - 1) \cap Used = {}}

\* Where a free run starts that reaches the heap's end.
LastRun == {b \in 1..Blocks : b .. Blocks \cap Used = {}}

\* The scan answers with the first of these, if there is one.
Starts(blocks) == IF Fits(blocks) # {} THEN Fits(blocks) ELSE LastRun

BlocksFor(size) == (size + BlockSize - 1) \div BlockSize

-----------------------------------------------------------------------------
(* The steps of LdrLoadPe *)

\* A word of pBufImageFile: of the file, or of the stack behind it.
Buffered(image, junk, k) ==
    IF k < BufferSize /\ k < Len(image.words) THEN image.words[k + 1] ELSE junk[1 + (k % 2)]

\* LdrProcessPe is given NULL for the place of what it finds out, which begins
\* with the headers of the file: they are stored at address 0.
LdrProcessPe(image, junk) ==
    [a \in Addresses |-> IF a < Processed THEN Buffered(image, junk, a) ELSE memory[a]]

\* One section after the other, as far as its data in the file goes.
LdrCpySections(image, junk, to, mem) ==
    LET covers(s, a) == a - (to + s.VirtualAddress) \in 0..(s.SizeOfRawData - 1)
        last(a) == Max({n \in DOMAIN image.sections : covers(image.sections[n], a)})
        offset(s, a) == s.PointerToRawData + a - (to + s.VirtualAddress)
    IN  [a \in Addresses |->
            IF \E s \in Range(image.sections) : covers(s, a)
            THEN Buffered(image, junk, offset(image.sections[last(a)], a))
            ELSE mem[a]]

HIGH == 1
LOW == 2
HIGHLOW == 3
DIR32 == 6

\* Mutant: the sum overflows the word.
AddLow_Wide(v, offset) == v + (offset % HalfMod)

AddLow(v, offset) == (v + (offset % HalfMod)) % HalfMod
AddHigh(v, offset) == (v + (offset \div HalfMod)) % HalfMod

\* One entry. The code moves a DIR32 field as a DWORD64, which has 32 bits
\* (`unsigned long'), where its comment speaks of a 64-bit field.
Relocate(mem, where, type, offset) ==
    CASE type = HIGH -> Write(mem, where, AddHigh(Read(mem, where), offset))
      [] type = LOW -> Write(mem, where, AddLow(Read(mem, where), offset))
      [] type \in {HIGHLOW, DIR32} ->
            WriteDword(mem, where, (ReadDword(mem, where) + offset) % WordMod)
      [] OTHER -> mem

\* A block: the page's address, the size of the block with this header, both
\* of 32 bits, and entries of 4 bits of type and 12 of offset.
HeaderSize == 4
VirtualAddress(mem, b) == ReadDword(mem, b)
SizeOfBlock(mem, b) == ReadDword(mem, (b + 2) % WordMod)

NumEntries(size) == size - HeaderSize

\* Mutant: the address is taken for one relative to the image.
RelocAt_Relative(base, page, offset) == (page + offset) % WordMod

RelocAt(base, page, offset) == (base + page + offset) % WordMod

\* Mutant: the other way round.
RelocOffset_Reversed(base, image) == (image.ImageBase - base) % WordMod

RelocOffset(base, image) == (base - image.ImageBase) % WordMod

\* A block shorter than its header has some 2^31 entries, from everywhere.
Sensible(size) == size \in HeaderSize .. Cardinality(Addresses)

-----------------------------------------------------------------------------
(* The operations *)

Init == /\ \E v \in Stale : memory = [a \in Addresses |-> v[1 + (a % 2)]]
        /\ extents = {}
        /\ pc = "idle"
        /\ stack = None
        /\ file = None
        /\ at = NULL
        /\ block = NULL
        /\ index = 0
        /\ loaded = {}

\* A path of more than 16 characters does not fit file_path: what is opened
\* then is what its place on the stack holds, perhaps the name of a file.
Opened(path) == IF path = "too long" THEN Files \cup {None}
                ELSE IF path \in Files THEN {path} ELSE {None}

\* All that LdrProcessPe looks at, before it stores anything.
Executables == {name \in Files : Image[name].executable}

LdrAllocMemory(size) ==
    \/ /\ Starts(BlocksFor(size)) = {}
       /\ at' = NULL
       /\ UNCHANGED extents
    \/ \E b \in Starts(BlocksFor(size)) :
          /\ \A other \in Starts(BlocksFor(size)) : b <= other
          /\ at' = Address(b)
          /\ extents' = extents \cup {[first |-> b, blocks |-> BlocksFor(size)]}

\* What is taken for the file after fread, whose answer nobody looks at: a number
\* fread has no descriptor for is refused before anything is read, and the stack
\* holds what was read by an earlier call, unless it has been used since.
Delivered(name) == {name, stack, None}

\* From fopen to LdrCpySections. An allocation that failed is noted in the
\* log, and the image copied to address 0.
LdrLoadPe(path) ==
    /\ pc = "idle"
    /\ \E name \in Opened(path) :
          \/ /\ name = None
             /\ UNCHANGED vars
          \/ \E read \in Delivered(name) :
             /\ name # None
             /\ stack' = read
             /\ \/ /\ read \notin Executables
                   /\ UNCHANGED <<memory, extents, pc, file, at, block, index>>
                \/ /\ read \in Executables
                   /\ file' = read
                   /\ LdrAllocMemory(Image[read].SizeOfImage)
                   /\ \E junk \in Stale :
                         memory' = LdrCpySections(Image[read], junk, at',
                                                  LdrProcessPe(Image[read], junk))
                   /\ block' = (at' + Image[read].reloc) % WordMod
                   /\ index' = 0
                   /\ pc' = "relocate"
             /\ UNCHANGED loaded

InBlock == /\ pc = "relocate"
           /\ VirtualAddress(memory, block) # 0
           /\ Sensible(SizeOfBlock(memory, block))

\* One entry of the block. (How many there are is looked up anew for each: a
\* block that relocates its own header is the only one to tell.)
LdrRelocMemory_entry ==
    /\ InBlock
    /\ index < NumEntries(SizeOfBlock(memory, block))
    /\ LET entry == Read(memory, (block + HeaderSize + index) % WordMod)
           page == VirtualAddress(memory, block)
       IN  memory' = Relocate(memory, RelocAt(at, page, entry % OffsetMod),
                              entry \div OffsetMod, RelocOffset(at, Image[file]))
    /\ index' = index + 1
    /\ UNCHANGED <<extents, pc, stack, file, at, block, loaded>>

\* Mutant: the loop stays at its block.
LdrRelocMemory_block_Stays ==
    /\ InBlock
    /\ index >= NumEntries(SizeOfBlock(memory, block))
    /\ index' = 0
    /\ UNCHANGED <<memory, extents, pc, stack, file, at, block, loaded>>

\* On to the next block.
LdrRelocMemory_block ==
    /\ InBlock
    /\ index >= NumEntries(SizeOfBlock(memory, block))
    /\ block' = (block + SizeOfBlock(memory, block)) % WordMod
    /\ index' = 0
    /\ UNCHANGED <<memory, extents, pc, stack, file, at, loaded>>

\* Bytes that are no list of blocks: what comes of it is not modelled.
GoAstray ==
    /\ pc = "relocate"
    /\ VirtualAddress(memory, block) # 0
    /\ ~ Sensible(SizeOfBlock(memory, block))
    /\ pc' = "astray"
    /\ UNCHANGED <<memory, extents, stack, file, at, block, index, loaded>>

\* The entry point is returned, wherever the image is.
Finish ==
    /\ pc = "relocate"
    /\ VirtualAddress(memory, block) = 0
    /\ pc' = "idle"
    /\ loaded' = loaded \cup {[file |-> file, at |-> at]}
    /\ UNCHANGED <<memory, extents, stack, file, at, block, index>>

\* Somebody else takes a free block, writes to it and gives it back: one of the
\* heap, or, when a long request is given its last one, one behind it.
OthersWrite(b, v) ==
    /\ pc = "idle"
    /\ b \notin Used
    /\ b <= Blocks \/ Blocks \notin Used
    /\ memory' = [a \in Addresses |-> IF a \in Address(b) .. (Address(b) + BlockSize - 1)
                                      THEN v[1 + (a % 2)] ELSE memory[a]]
    /\ UNCHANGED <<extents, pc, stack, file, at, block, index, loaded>>

LoaderStep == LdrRelocMemory_entry \/ LdrRelocMemory_block \/ GoAstray \/ Finish

Next == \/ \E path \in Files \cup {"missing", "too long"} :
              Cardinality(loaded) < MaxLoads /\ LdrLoadPe(path)
        \/ LoaderStep
        \/ \E b \in 1..((RamSize - Low) \div BlockSize), v \in Stale : OthersWrite(b, v)

Spec == Init /\ [][Next]_vars

\* The processor goes on with a call.
FairSpec == Spec /\ WF_vars(LoaderStep)

-----------------------------------------------------------------------------
(* Properties *)

TypeOK == /\ memory \in [Addresses -> 0..(HalfMod - 1)]
          /\ \A e \in extents : e.first \in 1..Blocks /\ e.blocks \in Nat \ {0}
          /\ pc \in {"idle", "relocate", "astray"}
          /\ {stack, file} \subseteq Files \cup {None}
          /\ at \in {NULL} \cup {Address(b) : b \in 1..Blocks}
          /\ block \in 0..(WordMod - 1)
          /\ index \in 0..Cardinality(Addresses)
          /\ \A l \in loaded : l.file \in Files

\* The words of an image that come from its file, and what the file has there.
Rvas(s) == s.VirtualAddress .. (s.VirtualAddress + s.SizeOfRawData - 1)

CopiedRvas(image) == UNION {Rvas(s) : s \in Range(image.sections)}

FileWord(image, rva) ==
    LET s == CHOOSE s \in Range(image.sections) : rva \in Rvas(s)
    IN  image.words[s.PointerToRawData + rva - s.VirtualAddress + 1]

FileDword(image, rva) == FileWord(image, rva) + HalfMod * FileWord(image, rva + 1)

\* The file fits the buffer, its sections the image, and none another's place.
SectionsFit(image) ==
    /\ Len(image.words) <= BufferSize
    /\ \A s \in Range(image.sections) :
          /\ s.PointerToRawData + s.SizeOfRawData <= Len(image.words)
          /\ s.VirtualAddress + s.SizeOfRawData <= image.SizeOfImage
    /\ \A s, t \in Range(image.sections) : Rvas(s) \cap Rvas(t) # {} => s = t

\* The list of relocations: blocks one behind the other, from where the headers
\* say, and the zero that ends them.
Behind(image, b) == b + FileDword(image, b + 2)

IsBlockList(image, starts, end) ==
    /\ image.reloc .. (end + 1) \subseteq CopiedRvas(image)
    /\ starts \subseteq image.reloc .. (end - HeaderSize)
    /\ image.reloc \in starts \cup {end}
    /\ FileDword(image, end) = 0
    /\ \A b \in starts :
          /\ FileDword(image, b) # 0
          /\ Behind(image, b) \in starts \cup {end}
          /\ Behind(image, b) >= b + HeaderSize
          /\ \A c \in starts : c > b => c >= Behind(image, b)

\* The places of its entries, and what they say.
Places(image, starts) ==
    {p \in starts \X (0..image.SizeOfImage) : p[1] + HeaderSize + p[2] < Behind(image, p[1])}

EntryAt(image, p) ==
    LET w == FileWord(image, p[1] + HeaderSize + p[2])
    IN  [rva |-> FileDword(image, p[1]) + (w % OffsetMod),
         kind |-> w \div OffsetMod]

Touched(e) == IF e.kind = HIGHLOW THEN {e.rva, e.rva + 1}
              ELSE IF e.kind \in {HIGH, LOW} THEN {e.rva} ELSE {}

\* The list says of each field once that it is one, and touches itself nowhere.
\* None is of DIR32: how wide such a field is, code and comment disagree.
ListsFields(image, starts, end) ==
    LET places == Places(image, starts)
    IN  /\ \A p \in places : EntryAt(image, p).kind # DIR32
        /\ \A p \in places :
              Touched(EntryAt(image, p)) \subseteq CopiedRvas(image) \ (image.reloc .. (end + 1))
        /\ \A p, q \in places :
              Touched(EntryAt(image, p)) \cap Touched(EntryAt(image, q)) # {} => p = q
        /\ {[rva |-> f.rva, kind |-> f.kind] : f \in image.fields} =
              {e \in {EntryAt(image, p) : p \in places} : Touched(e) # {}}

\* In the file a field holds its target's address when the image is at its base,
\* or the low half of it.
FieldsAreLinked(image) ==
    \A f \in image.fields :
       /\ f.kind = LOW => FileWord(image, f.rva) = (image.ImageBase + f.target) % HalfMod
       /\ f.kind = HIGHLOW =>
             FileDword(image, f.rva) = (image.ImageBase + f.target) % WordMod

\* A program the loader is made for: the file fits the buffer, and its list of
\* relocations is there and ends, with a zero, within its section. `fields' is
\* what the linker recorded, apart from the blocks.
IsComplete(image) ==
    /\ SectionsFit(image)
    /\ \E end \in CopiedRvas(image) :
          \E starts \in SUBSET (image.reloc .. (end - HeaderSize)) :
             IsBlockList(image, starts, end) /\ ListsFields(image, starts, end)
    /\ FieldsAreLinked(image)

Complete == {name \in Files : IsComplete(Image[name])}

AllWellFormed == /\ \A l \in loaded : l.file \in Complete
                 /\ file # None => file \in Complete

\* What a word of the image has to be at that base: a field that refers to an
\* address of the image, to the address it has there, save that the format
\* has a high half moved without the carry of the low one; any other word,
\* the file's.
Linked(image, base, rva) ==
    IF \E f \in image.fields : rva = f.rva /\ f.kind \in {LOW, HIGHLOW}
    THEN LET f == CHOOSE f \in image.fields : rva = f.rva
         IN  (base + f.target) % HalfMod
    ELSE IF \E f \in image.fields : rva = f.rva + 1 /\ f.kind = HIGHLOW
    THEN LET f == CHOOSE f \in image.fields : rva = f.rva + 1 /\ f.kind = HIGHLOW
         IN  ((base + f.target) % WordMod) \div HalfMod
    ELSE IF \E f \in image.fields : rva = f.rva /\ f.kind = HIGH
    THEN (FileWord(image, rva) + ((base - image.ImageBase) % WordMod) \div HalfMod) % HalfMod
    ELSE FileWord(image, rva)

\* A program that was processed refers to itself where it is, in the heap or
\* behind it, and is the file's otherwise; it stays so whatever is loaded after
\* it, to address 0 when the last block is taken included, and whatever memory
\* held before. The file is the one that was in the buffer, which is not always
\* the one that was asked for.
LoadedAsLinked ==
    AllWellFormed => \A l \in loaded : l.at # NULL =>
        \A rva \in CopiedRvas(Image[l.file]) :
            memory[l.at + rva] = Linked(Image[l.file], l.at, rva)

\* Copying and relocating a program writes to the memory of its image alone, also
\* where that goes on behind the heap, apart from what LdrProcessPe stores at
\* address 0.
WritesStayInside ==
    [][(pc' = "relocate" /\ AllWellFormed') =>
          \A a \in Addresses \ (0..(Processed - 1)) : memory'[a] # memory[a] =>
             a \in at' .. (at' + Image[file'].SizeOfImage - 1)]_memory

\* The loop over the blocks of a program ends, when they end in its file.
LoadEnds == (pc = "relocate" /\ AllWellFormed) ~> pc = "idle"
===============================================================================
