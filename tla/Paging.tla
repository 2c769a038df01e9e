-------------------------------- MODULE Paging --------------------------------
(***************************************************************************)
(* Page directories and page tables in physical memory, after              *)
(* ke/memory/paging/paging.c, and the kernel's own address space and pages *)
(* (kernel.c). Paging asks the heap for one block at a time; for one block *)
(* the scan of heap.c finds the first free one or none, so the heap is the *)
(* set of its free frames here. An address space takes a directory, as     *)
(* many tables as a directory has entries, and a chunk, in this order, and *)
(* none of these requests is checked: what comes back NULL is written to   *)
(* all the same, at physical page 0. Tasks and Processes extend this       *)
(* module with the other users of address spaces.                          *)
(***************************************************************************)
EXTENDS Integers, FiniteSets, SequencesExt

CONSTANTS DirEntries,   \* PAGING_TOTAL_ENTRIES_PER_TABLE, as it sizes a directory
          Entries,      \* and as it sizes a table; the code has them equal
          PageSize,     \* PAGING_PAGE_SIZE, also the heap's block size
          Pool,         \* the frames of the heap
          TestPage,     \* the virtual address kernel_main maps, 0x1000
          MaxPages      \* bound: how many frames others hold at once

NULL == 0
VirtualPages == 0..(DirEntries * Entries - 1)
Frames == VirtualPages
Index == 0..(Entries - 1)

ASSUME PagingAssumption == /\ Entries \in Nat \ {0}
                           /\ DirEntries \in 1..Entries
                           /\ PageSize \in Nat \ {0}
                           \* the last table maps none of the heap
                           /\ Pool \subseteq 1..((DirEntries - 1) * Entries - 1)
                           /\ TestPage \in {page * PageSize : page \in VirtualPages}
                           /\ Cardinality(Pool) > DirEntries + 2
                           /\ MaxPages \in Nat

VARIABLES mem,          \* physical memory: the words of each frame
          free,         \* the free frames of the heap
          pages,        \* frames the kernel holds for other uses
          kernel,       \* kernel_chunk
          testFrame,    \* the frame kernel_main maps at TestPage
          wild          \* frames passed to kfree that are no heap frames

pagingVars == <<mem, free, pages, kernel, testFrame, wild>>

\* A word is a frame number with flags in its low bits.
Flags == {"P", "W", "U"}
Word == [frame : Frames, flags : SUBSET Flags]
Zero == [frame |-> NULL, flags |-> {}]

KernelFlags == {"P", "W", "U"}
TaskFlags == {"P", "U"}

\* The frame the k-th of several one-block requests to a heap gets, from 0 on.
Request(heap, k) == IF Cardinality(heap) <= k THEN NULL
                    ELSE CHOOSE f \in heap : Cardinality({g \in heap : g < f}) = k

-----------------------------------------------------------------------------
(* Looking an address up *)

Directory(m, chunk) == m[chunk][0].frame

Table(m, directory, virt) == m[directory][virt \div (Entries * PageSize)].frame

TableIndex(virt) == (virt % (Entries * PageSize)) \div PageSize

Translate(chunk, virt) ==
    mem[Table(mem, Directory(mem, chunk), virt)][TableIndex(virt)]

-----------------------------------------------------------------------------
(* The operations of paging.c, as the memory they leave behind *)

\* The answers to the requests of paging_new_4gb, in order: the directory, a table
\* in each turn of the loop, the chunk.
Turns == 0..(DirEntries - 1)
DirectoryAsked(heap) == Request(heap, 0)

\* Mutant: one table is allocated before the loop instead of one in each turn.
TableAsked_Shared(heap, i) == Request(heap, 1)

TableAsked(heap, i) == Request(heap, i + 1)
ChunkAsked(heap) == Request(heap, DirEntries + 1)
Taken(heap) == {Request(heap, k) : k \in 0..(DirEntries + 1)} \ {NULL}

\* Mutant: the offset of a table counts one page too many.
TableEntry_BadOffset(i, b, flags) == [frame |-> i * (Entries + 1) + b, flags |-> flags]

\* Entry b of table i maps a page to itself.
TableEntry(i, b, flags) == [frame |-> i * Entries + b, flags |-> flags]

\* What paging_new_4gb leaves at each word: a turn fills its table, then enters it
\* in the directory, and the chunk is written at the end. Blocks that were not
\* there are all at page 0, where the last write stays.
paging_new_4gb(heap, m, flags) ==
    LET directory == DirectoryAsked(heap)
        turnsOn(f) == {i \in Turns : TableAsked(heap, i) = f}
        written(f, b) ==
            IF f = ChunkAsked(heap) /\ b = 0
            THEN [frame |-> directory, flags |-> {}]
            ELSE IF f = directory /\ b \in Turns /\ \A i \in turnsOn(f) : i <= b
            THEN [frame |-> TableAsked(heap, b), flags |-> flags \cup {"W"}]
            ELSE IF turnsOn(f) # {} THEN TableEntry(Max(turnsOn(f)), b, flags)
            ELSE m[f][b]
    IN  [f \in Frames |-> [b \in Index |-> written(f, b)]]

\* Mutant: the chunk itself is forgotten.
paging_free_4gb_KeepsChunk(m, chunk) ==
    {m[Directory(m, chunk)][i].frame : i \in Turns}
        \cup {Directory(m, chunk)}

\* The frames paging_free_4gb passes to kfree.
paging_free_4gb(m, chunk) ==
    {m[Directory(m, chunk)][i].frame : i \in Turns}
        \cup {Directory(m, chunk), chunk}

\* Mutant: the entry is written to the directory instead of the table.
paging_set_InDirectory(m, directory, virt, val) ==
    IF virt % PageSize # 0 THEN m
    ELSE [m EXCEPT ![directory][TableIndex(virt)] = val]

paging_set(m, directory, virt, val) ==
    IF virt % PageSize # 0 THEN m
    ELSE [m EXCEPT ![Table(m, directory, virt)][TableIndex(virt)] = val]

\* The loop of paging_map_range breaks at the first page that is mapped: of
\* the pages from phys to phys_end, it maps the first.
paging_map_to(m, directory, virt, phys, phys_end, flags) ==
    IF \/ virt % PageSize # 0
       \/ phys % PageSize # 0
       \/ phys_end % PageSize # 0
       \/ phys_end <= phys
    THEN m
    ELSE paging_set(m, directory, virt, [frame |-> phys \div PageSize, flags |-> flags])

paging_align_address(ptr) ==
    IF ptr % PageSize # 0 THEN ptr + PageSize - (ptr % PageSize) ELSE ptr

\* kfree of a set of frames, in memory m and with the heap's frames in heap.
\* What a free frame holds is not told apart: the heap hands it out zeroed, or
\* its holder writes it first. Nor is what page 0 holds, which nothing reads but
\* the undoing of the task_new that has just written there. For a frame that is
\* not the heap's, kfree writes a byte before its table, which is not in use.
kfree(heap, m, S) ==
    /\ free' = heap \cup (S \cap Pool)
    /\ wild' = wild \cup (S \ Pool)
    /\ mem' = [f \in Frames |-> IF f \in free' \cup {NULL} THEN [b \in Index |-> Zero]
                                ELSE m[f]]

-----------------------------------------------------------------------------
(* The kernel's own space and pages *)

PagingInit == /\ mem = [f \in Frames |-> [b \in Index |-> Zero]]
              /\ free = Pool
              /\ pages = {}
              /\ kernel = NULL
              /\ testFrame = NULL
              /\ wild = {}

\* The kernel's address space, made current before paging is enabled.
kernel_main_new ==
    /\ kernel = NULL
    /\ kernel' = ChunkAsked(free)
    /\ mem' = paging_new_4gb(free, mem, KernelFlags)
    /\ free' = free \ Taken(free)
    /\ UNCHANGED <<pages, testFrame, wild>>

\* One page of the heap is mapped in it.
kernel_main_set ==
    /\ kernel # NULL /\ testFrame = NULL
    /\ testFrame' = Request(free, 0)
    /\ free' = free \ {testFrame'}
    /\ mem' = paging_set(mem, Directory(mem, kernel), TestPage,
                         [frame |-> testFrame', flags |-> KernelFlags])
    /\ UNCHANGED <<pages, kernel, wild>>

\* Any other allocation of a page, by whoever in the kernel.
kzalloc_page == /\ testFrame # NULL
                /\ Cardinality(pages) < MaxPages
                /\ Request(free, 0) # NULL
                /\ pages' = pages \cup {Request(free, 0)}
                /\ free' = free \ {Request(free, 0)}
                /\ UNCHANGED <<mem, kernel, testFrame, wild>>

kfree_page(p) == /\ testFrame # NULL
                 /\ kfree(free, mem, {p})
                 /\ pages' = pages \ {p}
                 /\ UNCHANGED <<kernel, testFrame>>

PagingNext == \/ kernel_main_new
              \/ kernel_main_set
              \/ kzalloc_page
              \/ \E p \in pages : kfree_page(p)
===============================================================================
