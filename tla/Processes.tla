------------------------------ MODULE Processes ------------------------------
(***************************************************************************)
(* Processes and their slots, after ke/task/process.c, with the tasks and  *)
(* address spaces they rest on. A process takes frames for itself and for  *)
(* its stack, then a task. When the heap has no free run of that length it *)
(* gives the last frames and what memory there is behind it (heap.c). What *)
(* was taken is not given back when a later step fails, and a task_new     *)
(* that fails is not noticed: it answers with an error number in place of  *)
(* a pointer, the test lets every answer but 0 pass, and the number is     *)
(* dereferenced. No program of the repository is loaded this way yet.      *)
(***************************************************************************)
EXTENDS Tasks

CONSTANTS MaxProcesses,     \* FREE95_MAX_PROCESSES
          ProcessFrames,    \* sizeof(struct process), in frames
          StackFrames,      \* FREE95_USER_PROGRAM_STACK_SIZE, in frames
          Program,          \* FREE95_PROGRAM_VIRTUAL_ADDRESS
          BinarySizes       \* the sizes of program images

ASSUME ProcessesAssumption == /\ {MaxProcesses, ProcessFrames, StackFrames} \subseteq Nat \ {0}
                              /\ Pool = Min(Pool) .. Max(Pool)
                              /\ Program \in {page * PageSize : page \in VirtualPages}
                              /\ BinarySizes \subseteq Nat

VARIABLES processes,    \* the process in each slot that is taken
          leaked        \* frames of the heap that loads that failed have lost

vars == <<pagingVars, taskVars, processes, leaked>>

Slots == 0..(MaxProcesses - 1)

\* An error number that is taken for a pointer.
ERROR == -1

\* Where the memory of a process and its stack begin, and its task.
Process == [block : Pool, stack : Pool, task : Pool \cup {ERROR}]

\* Nobody frees the task of a process that was loaded.
Owned == {processes[slot].task : slot \in DOMAIN processes}

Init == PagingInit /\ TasksInit /\ processes = <<>> /\ leaked = {}

process_get_free_slot == Min(Slots \ DOMAIN processes)

\* The processes with one more, in a slot that was empty.
WithProcess(slot, process) ==
    [s \in DOMAIN processes \cup {slot} |-> IF s = slot THEN process ELSE processes[s]]

-----------------------------------------------------------------------------
(* Requests for several frames *)

Run(f, n) == f .. (f + n - 1)

Fits(heap, n) == {f \in heap : Run(f, n) \subseteq heap}

\* Where a free run starts that reaches the heap's end.
LastRun(heap) == {f \in heap : f .. Max(Pool) \subseteq heap}

\* The scan answers with the first of these, if there is one.
Starts(heap, n) == IF Fits(heap, n) # {} THEN Fits(heap, n) ELSE LastRun(heap)

\* Mutant: a free frame will do for the start, whatever follows it.
RequestRun_First(heap, n) == IF heap = {} THEN NULL ELSE Min(heap)

RequestRun(heap, n) == IF Starts(heap, n) = {} THEN NULL ELSE Min(Starts(heap, n))

-----------------------------------------------------------------------------
(* Loading *)

\* A slot that is taken is refused, but on the way out a pointer is read that
\* was never set, and a task freed where it leads unless it is NULL there.
SlotIsTaken(slot) ==
    /\ slot \in DOMAIN processes
    /\ undefined' \in BOOLEAN
    /\ UNCHANGED <<pagingVars, task_head, task_tail, order, failed, misled, processes, leaked>>

\* process_map_memory reads through the task, which is just below the last
\* address when it is an error number: the read is refused, or what it finds is
\* no matter, the image being empty as yet and no page of it mapped.
process_load_for_slot(slot) ==
    LET process == RequestRun(free, ProcessFrames)
        others == free \ Run(process, ProcessFrames)
        stack == RequestRun(others, StackFrames)
        rest == others \ Run(stack, StackFrames)
    IN  /\ Running
        /\ \/ SlotIsTaken(slot)
           \/ /\ slot \notin DOMAIN processes
              /\ process # NULL /\ stack = NULL
              /\ free' = others
              /\ leaked' = leaked \cup (free \ others)
              /\ UNCHANGED <<mem, pages, kernel, testFrame, wild, taskVars, processes>>
           \/ /\ slot \notin DOMAIN processes
              /\ NULL \notin {process, stack}
              /\ task_new(rest)
              /\ \/ /\ processes' = WithProcess(slot,
                           [block |-> process, stack |-> stack,
                            task |-> IF TaskFits(rest) THEN Request(rest, 0) ELSE ERROR])
                    /\ undefined' = FreesNoTask(rest)
                    /\ UNCHANGED leaked
                 \/ /\ ~ TaskFits(rest)
                    /\ undefined' = TRUE
                    /\ leaked' = leaked \cup (free \ rest)
                    /\ UNCHANGED processes

process_load == /\ Slots # DOMAIN processes
                /\ process_load_for_slot(process_get_free_slot)

\* An image at ptr is mapped in a task's space.
process_map_binary(task, ptr, size) ==
    /\ Running
    /\ mem' = paging_map_to(mem, Directory(mem, page_directory(mem, task)), Program, ptr,
                            paging_align_address(ptr + size), {"P", "U", "W"})
    /\ UNCHANGED <<free, pages, kernel, testFrame, wild, taskVars, processes, leaked>>

Next == \/ /\ PagingNext
           /\ ~ undefined /\ ~ misled
           /\ UNCHANGED <<taskVars, processes, leaked>>
        \/ /\ \/ task_new(free) /\ undefined' = FreesNoTask(free)
              \/ \E task \in tasks \ Owned : task_free(task)
           /\ UNCHANGED <<processes, leaked>>
        \/ process_load
        \/ \E slot \in Slots : process_load_for_slot(slot)
        \/ \E task \in tasks, p \in pages, size \in BinarySizes :
              process_map_binary(task, p * PageSize, size)

Spec == Init /\ [][Next]_vars

-----------------------------------------------------------------------------
(* Properties *)

TypeOK == /\ mem \in [Frames -> [Index -> Word]]
          /\ free \subseteq Pool
          /\ order \in Seq(Pool)
          /\ pages \cup leaked \subseteq Pool
          /\ {kernel, testFrame, task_head, task_tail} \subseteq Frames
          /\ wild \subseteq Frames
          /\ {failed, misled, undefined} \subseteq BOOLEAN
          /\ DOMAIN processes \subseteq Slots /\ Range(processes) \subseteq Process

\* The memory of the processes and of their stacks, as far as it is the heap's.
processBlocks == Pool \cap UNION {Run(processes[slot].block, ProcessFrames) :
                                     slot \in DOMAIN processes}
processStacks == Pool \cap UNION {Run(processes[slot].stack, StackFrames) :
                                     slot \in DOMAIN processes}

\* Who holds frames of the heap as a whole, besides the address spaces.
Holders == <<tasks, pages, {testFrame} \ {NULL}, processBlocks, processStacks, leaked>>

Held == UNION Range(Holders)

\* An address space that was handed out is whole and its own: a directory, a
\* table per entry, and a chunk, all different, all from the heap, none of
\* them page 0, and none shared with another space or another holder. The
\* requests are not checked one by one, but the chunk is asked for last, so
\* a space that misses a frame is never handed out.
SpacesAreWholeAndPrivate ==
    ~ misled =>
      /\ \A c \in chunks :
            /\ FramesOf(c) \subseteq Pool \ (free \cup Held)
            /\ Cardinality(FramesOf(c)) = DirEntries + 2
            /\ \A d \in chunks \ {c} : FramesOf(c) \cap FramesOf(d) = {}
      /\ \A s, t \in tasks : page_directory(mem, s) = page_directory(mem, t) => s = t

\* Every frame of the heap is free, held by one holder or in one address space,
\* but for what loads that failed have lost. A task_new that fails loses none
\* and frees none of another holder: NULL for the chunk makes it write the
\* directory to page 0, and task_free finds there what has to be given back.
\* Only such an undoing hands kfree frames that are not the heap's.
FramesAccounted ==
    ~ misled =>
      /\ Pool = free \cup Held \cup UNION {FramesOf(c) : c \in chunks}
      /\ free \cap Held = {}
      /\ \A i, j \in DOMAIN Holders : i # j => Holders[i] \cap Holders[j] = {}
      /\ wild # {} => failed

\* The memory of the process in a slot.
MemoryOf(slot) == Run(processes[slot].block, ProcessFrames)
                     \cup Run(processes[slot].stack, StackFrames)

\* A process in a slot has memory, a stack and a task that are nobody else's, also
\* where a request was longer than what the heap had left and the memory goes on
\* behind it; unless memory ran out for its task, and the load was reported as
\* good all the same.
ProcessesHaveTasks ==
    /\ \A slot \in DOMAIN processes :
          /\ MemoryOf(slot) \cap free = {}
          /\ Run(processes[slot].block, ProcessFrames)
                \cap Run(processes[slot].stack, StackFrames) = {}
          /\ processes[slot].task \in tasks \/ (processes[slot].task = ERROR /\ failed)
    /\ \A s, t \in DOMAIN processes :
          s # t => /\ MemoryOf(s) \cap MemoryOf(t) = {}
                   /\ processes[s].task # processes[t].task \/ processes[s].task = ERROR

\* Address spaces are isolated and keep their mappings: read through the
\* directories and tables in memory, each space changes only at the page
\* mapped in it, whatever is allocated, freed or mapped elsewhere, until a
\* stale task pointer is written through.
Spaces == [c \in chunks |-> [v \in VirtualPages |-> Translate(c, v * PageSize)]]

Abstract == INSTANCE AddressSpaces WITH spaces <- Spaces

AbstractSpec == Abstract!Init /\ [][Abstract!Next \/ misled']_Spaces
===============================================================================
