--------------------------------- MODULE Heap ---------------------------------
(***************************************************************************)
(* The kernel heap: ke/memory/heap/heap.c behind kmalloc, kzalloc and      *)
(* kfree of kheap.c. A table holds one byte of flags per block of the      *)
(* pool; an allocation is found by scanning it and a release follows the   *)
(* flags it finds there. `live', `asked' and `granted' are what the        *)
(* callers know: the extents they hold, and the last answer they got.      *)
(***************************************************************************)
EXTENDS Integers, FiniteSets

CONSTANTS TotalBlocks,  \* heap_table.total
          BlockSize,    \* FREE95_HEAP_BLOCK_SIZE
          WordMod,      \* 2^32: a size_t wraps here
          PoolStart,    \* heap.saddr, FREE95_HEAP_ADDRESS
          Sizes         \* the sizes callers ask for

ASSUME HeapAssumption == /\ TotalBlocks \in Nat \ {0}
                         /\ BlockSize \in Nat \ {0}
                         /\ WordMod \in Nat \ {0}
                         /\ PoolStart \in Nat \ {0}
                         /\ Sizes \subseteq 0..(WordMod - 1)

NULL == 0
ENOMEM == -3            \* ke/status.h, negated as the code returns it

Blocks == 0..(TotalBlocks - 1)

VARIABLES entries,      \* heap_table.entries: the flags of each block
          clobbered,    \* indices past the table whose bytes were overwritten
          live, asked, granted

vars == <<entries, clobbered, live, asked, granted>>

\* An entry is its set of flags; the empty set is HEAP_BLOCK_TABLE_ENTRY_FREE.
Flags == {"TAKEN", "HAS_NEXT", "IS_FIRST"}

BlocksOf(e) == e.start .. (e.start + e.len - 1)

-----------------------------------------------------------------------------
(* Sizes and addresses *)

\* uint32_t arithmetic: rounding up wraps at the top of the word.
heap_align_value_to_upper(v) ==
    IF v % BlockSize = 0 THEN v
    ELSE ((v - (v % BlockSize)) + BlockSize) % WordMod

BlocksFor(size) == heap_align_value_to_upper(size) \div BlockSize

heap_block_to_address(b) == PoolStart + b * BlockSize

\* Mutant: the start of the pool is not subtracted.
heap_address_to_block_FromZero(p) == p \div BlockSize

heap_address_to_block(p) == (p - PoolStart) \div BlockSize

-----------------------------------------------------------------------------
(* The scan for free blocks *)

\* Mutant: the scan looks at the first block of a run only.
IsFreeRun_FirstOnly(s, t) == "TAKEN" \notin entries[s]

IsFreeRun(s, t) == \A i \in s..t : "TAKEN" \notin entries[i]

\* Where n free blocks in a row start.
Fits(n) == {s \in Blocks : s + n <= TotalBlocks /\ IsFreeRun(s, s + n - 1)}

\* Mutant: a taken block does not reset the start that was remembered.
LastRun_NotReset == {s \in Blocks : "TAKEN" \notin entries[s]}

\* Where a free run starts that reaches the end of the table.
LastRun == {s \in Blocks : IsFreeRun(s, TotalBlocks - 1)}

Least(s, S) == s \in S /\ \A t \in S : s <= t

(* bs is the answer of the scan: the first run of n blocks. The counter never
   equals 0, and a run cut short by the end of the table leaves bs set: both
   make the scan answer with the start of the last free run. *)
heap_get_start_block(n, bs) ==
    IF n > 0 /\ Fits(n) # {} THEN Least(bs, Fits(n))
    ELSE IF LastRun # {} THEN Least(bs, LastRun)
    ELSE bs = ENOMEM

\* One turn of the loop that makes the scan, at block i: the counter and the
\* start, which is ENOMEM as long as there is none. Once n were counted the
\* loop has ended.
ScanStep(acc, i, n) ==
    IF n > 0 /\ acc.bc = n THEN acc
    ELSE IF "TAKEN" \in entries[i] THEN [bc |-> 0, bs |-> ENOMEM]
    ELSE [bc |-> acc.bc + 1, bs |-> IF acc.bs = ENOMEM THEN i ELSE acc.bs]

\* The start after the last block.
ScanFor(n) ==
    LET after[i \in 0..TotalBlocks] ==
          IF i = 0 THEN [bc |-> 0, bs |-> ENOMEM] ELSE ScanStep(after[i - 1], i - 1, n)
    IN  after[TotalBlocks].bs

-----------------------------------------------------------------------------
(* Writing the table *)

TakenEntry(i, e) ==
    {"TAKEN"} \cup (IF i = e.start THEN {"IS_FIRST"} ELSE {})
              \cup (IF i < e.start + e.len - 1 THEN {"HAS_NEXT"} ELSE {})

heap_mark_blocks_taken(e) ==
    /\ entries' = [i \in Blocks |->
                     IF i \in BlocksOf(e) THEN TakenEntry(i, e) ELSE entries[i]]
    /\ clobbered' = clobbered \cup (BlocksOf(e) \ Blocks)

\* Mutants: kfree stops after one block, or one block too late.
ChainFrom_FirstOnly(s) == {s}
ChainFrom_OneTooMany(s) == {i \in Blocks : /\ i >= s
                                           /\ \A k \in s..(i - 2) : "HAS_NEXT" \in entries[k]}

\* From s on, every block reached through HAS_NEXT, within the table.
ChainFrom(s) == {i \in Blocks : /\ i >= s
                                /\ \A k \in s..(i - 1) : "HAS_NEXT" \in entries[k]}

heap_mark_blocks_free(s) ==
    entries' = [i \in Blocks |-> IF i \in ChainFrom(s) THEN {} ELSE entries[i]]

-----------------------------------------------------------------------------

Init == /\ entries = [i \in Blocks |-> {}]
        /\ clobbered = {}
        /\ live = {}
        /\ asked = 0
        /\ granted = NULL

\* Mutant: the answer of the scan is not compared with ENOMEM.
kmalloc_Unchecked(size) ==
    LET n == BlocksFor(size) IN
    /\ asked' = n
    /\ \E bs \in Blocks \cup {ENOMEM} :
          /\ heap_get_start_block(n, bs)
          /\ granted' = heap_block_to_address(bs)
          /\ IF n = 0
             THEN UNCHANGED <<entries, clobbered, live>>
             ELSE /\ heap_mark_blocks_taken([start |-> bs, len |-> n])
                  /\ live' = live \cup {[start |-> bs, len |-> n]}

kmalloc(size) ==
    LET n == BlocksFor(size) IN
    /\ asked' = n
    /\ \E bs \in Blocks \cup {ENOMEM} :
          /\ heap_get_start_block(n, bs)
          /\ \/ /\ bs = ENOMEM
                /\ granted' = NULL
                /\ UNCHANGED <<entries, clobbered, live>>
             \/ /\ bs # ENOMEM
                /\ n = 0
                /\ granted' = heap_block_to_address(bs)
                /\ UNCHANGED <<entries, clobbered, live>>
             \/ /\ bs # ENOMEM
                /\ n > 0
                /\ granted' = heap_block_to_address(bs)
                /\ heap_mark_blocks_taken([start |-> bs, len |-> n])
                /\ live' = live \cup {[start |-> bs, len |-> n]}

\* The holder of e passes the address it was given.
kfree(e) ==
    /\ heap_mark_blocks_free(heap_address_to_block(heap_block_to_address(e.start)))
    /\ live' = live \ {e}
    /\ UNCHANGED <<clobbered, asked, granted>>

Next == \/ \E size \in Sizes : kmalloc(size)
        \/ \E e \in live : kfree(e)

Spec == Init /\ [][Next]_vars

-----------------------------------------------------------------------------
(* Properties *)

TypeOK == /\ entries \in [Blocks -> SUBSET Flags]
          /\ clobbered \subseteq Nat
          /\ live \subseteq [start : Blocks, len : Nat \ {0}]
          /\ asked \in Nat
          /\ granted \in Nat

\* No block is held twice: kmalloc never hands out memory that a caller of an
\* earlier kmalloc has not released, whatever the mix of sizes and releases.
NoOverlap == \A e, f \in live : e # f => BlocksOf(e) \cap BlocksOf(f) = {}

\* The flags in the table are those of the live extents and nothing else: no
\* leaked block, no chain that runs on into the next extent, none cut short.
TableIsExact ==
    \A i \in Blocks :
       \/ \E e \in live : i \in BlocksOf(e) /\ entries[i] = TakenEntry(i, e)
       \/ (\A e \in live : i \notin BlocksOf(e)) /\ entries[i] = {}

\* An extent that a too long request pushed past the end of the pool holds the
\* last block, so no second one can be pushed there until it is released.
LoneOverrun ==
    \A e, f \in live : /\ e.start + e.len > TotalBlocks
                       /\ f.start + f.len > TotalBlocks
                       => e = f

\* Read off the table in one look, the answer is the one the loop of the C code
\* arrives at block by block, for every table reached and every length.
ScanIsFirstFit ==
    \A n \in 0..(TotalBlocks + 2), bs \in Blocks \cup {ENOMEM} :
        heap_get_start_block(n, bs) <=> bs = ScanFor(n)

\* The heap keeps the allocator's promise: extents never overlap, a released
\* extent takes no other with it, and NULL means that the pool has no room.
Abstract == INSTANCE Allocator WITH
              PoolBlocks <- TotalBlocks,
              Refused <- ENOMEM,
              granted <- IF granted = NULL THEN ENOMEM
                         ELSE heap_address_to_block(granted)

AbstractSpec == Abstract!Spec

\* A request the pool has no room for is answered with NULL, as the caller's
\* check of the double buffer (init/kernel.c) takes for granted.
RefusesWhatDoesNotFit ==
    [][\A size \in Sizes : kmalloc(size) =>
          (~ Abstract!HasRoom(BlocksFor(size)) => granted' = NULL)]_vars
===============================================================================
