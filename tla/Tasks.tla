-------------------------------- MODULE Tasks --------------------------------
(***************************************************************************)
(* Tasks and their linked list, after ke/task/task.c. A task is a block of *)
(* the heap whose words name its address space and its two neighbours in   *)
(* the list. task_list_remove mends the list in one direction only: the    *)
(* successor of a task that is removed still points back to its block,     *)
(* which the heap may hand out again, and when the successor is removed in *)
(* its turn it writes there. A task_new that runs out of memory is undone  *)
(* through physical page 0, where the NULL chunk left its directory.       *)
(*                                                                         *)
(* No task is ever made current (nothing assigns current_task but          *)
(* task_list_remove, for the current task), so that part of                *)
(* task_list_remove never runs.                                            *)
(***************************************************************************)
EXTENDS Paging

CONSTANTS NextWord, PrevWord    \* where a task block holds next and prev

ASSUME TasksAssumption == /\ {NextWord, PrevWord} \subseteq 1..(Entries - 1)
                          /\ NextWord # PrevWord

VARIABLES task_head, task_tail,
          order,        \* history: the live tasks, oldest first
          failed,       \* some task_new ran out of memory
          misled,       \* a task_free followed a stale prev and did damage
          undefined     \* the kernel follows a pointer nobody wrote

taskVars == <<task_head, task_tail, order, failed, misled, undefined>>

tasks == Range(order)

\* The words of a task: its chunk and its neighbours.
page_directory(m, task) == m[task][0].frame
next(m, task) == m[task][NextWord].frame
prev(m, task) == m[task][PrevWord].frame

Pointer(f) == [frame |-> f, flags |-> {}]

TasksInit == /\ task_head = NULL /\ task_tail = NULL
             /\ order = <<>>
             /\ failed = FALSE /\ misled = FALSE /\ undefined = FALSE

\* After a stray write, or on a pointer nobody wrote, anything may follow.
Running == testFrame # NULL /\ ~ undefined /\ ~ misled

\* Mutant: the last task is not told its successor.
task_list_append_OneWay(m, task) ==
    IF task_head = NULL THEN m
    ELSE [m EXCEPT ![task][PrevWord] = Pointer(task_tail)]

\* The end of task_new, as the memory it leaves behind.
task_list_append(m, task) ==
    IF task_head = NULL THEN m
    ELSE [m EXCEPT ![task_tail][NextWord] = Pointer(task),
                   ![task][PrevWord] = Pointer(task_tail)]

\* The write of task_list_remove, through a pointer that may be stale.
Unlinked(m, task) ==
    IF prev(m, task) = NULL THEN m
    ELSE [m EXCEPT ![prev(m, task)][NextWord] = m[task][NextWord]]

task_list_remove(m, task) ==
    /\ task_head' = IF task = task_head THEN next(m, task) ELSE task_head
    /\ task_tail' = IF task = task_tail THEN prev(m, task) ELSE task_tail

\* Where a live task stands among them.
Place(task) == CHOOSE i \in DOMAIN order : order[i] = task

\* A stale prev does no harm when the task is the head, whose predecessor needs no
\* mending, and the block it names is free.
FollowsStalePrev(task) ==
    LET predecessor == IF Place(task) = 1 THEN NULL ELSE order[Place(task) - 1]
    IN  /\ prev(mem, task) \notin {NULL, predecessor}
        /\ predecessor # NULL \/ prev(mem, task) \notin free

\* The blocks task_free returns, its order of doing so being unseen.
Freed(m, task) == paging_free_4gb(m, page_directory(m, task)) \cup {task}

task_free(task) ==
    /\ Running
    /\ kfree(free, Unlinked(mem, task), Freed(mem, task))
    /\ task_list_remove(mem, task)
    /\ order' = RemoveAt(order, Place(task))
    /\ misled' = FollowsStalePrev(task)
    /\ UNCHANGED <<pages, kernel, testFrame, failed, undefined>>

\* Does a heap hold a task's block and all of its address space?
TaskFits(heap) == ChunkAsked(heap \ {Request(heap, 0)}) # NULL

\* Without a block task_free is called all the same, with NULL, and takes what the
\* BIOS left in page 0 for a task.
FreesNoTask(heap) == Request(heap, 0) = NULL

\* task_new, the heap's frames being in heap. The task gets a block, then its
\* chunk, which is all that is looked at: when it is NULL, task_free undoes what
\* was done. (`undefined' is left to the callers.)
task_new(heap) ==
    LET task == Request(heap, 0)
        rest == heap \ {task}
        written == [paging_new_4gb(rest, mem, TaskFlags)
                      EXCEPT ![task][0] = Pointer(ChunkAsked(rest))]
    IN  /\ Running
        /\ \/ /\ TaskFits(heap)
              /\ mem' = task_list_append(written, task)
              /\ free' = rest \ Taken(rest)
              /\ task_head' = IF task_head = NULL THEN task ELSE task_head
              /\ task_tail' = task
              /\ order' = Append(order, task)
              /\ UNCHANGED <<wild, failed>>
           \/ /\ task # NULL /\ ~ TaskFits(heap)
              /\ kfree(rest \ Taken(rest), written, Freed(written, task))
              /\ task_list_remove(written, task)
              /\ failed' = TRUE
              /\ UNCHANGED order
           \/ /\ FreesNoTask(heap)
              /\ free' = heap
              /\ failed' = TRUE
              /\ UNCHANGED <<mem, wild, task_head, task_tail, order>>
        /\ UNCHANGED <<pages, kernel, testFrame, misled>>

-----------------------------------------------------------------------------
(* Properties *)

\* The address spaces in use, each named by its chunk.
chunks == {page_directory(mem, task) : task \in tasks} \cup ({kernel} \ {NULL})

FramesOf(chunk) == paging_free_4gb(mem, chunk)

\* Walking the list visits exactly the live tasks, oldest first: the next of
\* each is the task made after it, and the tail is the last. When two neighbours
\* leave, first the older, from behind a task that stays, the tail and the next
\* of that task end up at a task that is gone.
ListIsExact ==
    /\ task_head = IF order = <<>> THEN NULL ELSE Head(order)
    /\ \A i \in DOMAIN order :
          next(mem, order[i]) = IF i = Len(order) THEN NULL ELSE order[i + 1]
    /\ order # <<>> => task_tail = Last(order)

\* The list is exact until a task_free follows a stale prev that is not
\* harmless: neither stale pointers as such, nor a stale tail while the list is
\* empty, nor a task_new that fails and is undone can break it.
ListHoldsUntilMisled == ~ misled => ListIsExact
===============================================================================
