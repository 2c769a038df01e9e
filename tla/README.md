# Free95: models and proofs of the kernel

This directory holds TLA+ specifications of the Free95 kernel (`free95/base/txos`), the
TLC configurations that check them on small instances, and TLAPS proofs of the
properties that matter most for every instance. Paths below are relative to
`src/free95/base/txos/` unless they say otherwise.

## 1. The system

Free95 is a single-processor i386 kernel. It boots, builds a heap, page tables and
interrupt gates, mounts a FAT16 disk, and enters ring 3 in the *native shell*, which
polls for a line, runs programs and batch scripts through system calls, and copies its
back buffer to the screen. Concurrency comes from interrupts alone: the keyboard
handler may run between any two instructions of ring 3 code and of boot code, while
system calls run behind interrupt gates, with interrupts off.

| Component | State | Operations | Talks to | Modelled in |
|---|---|---|---|---|
| Kernel heap (`ke/memory/heap`) | table of flags per 4 KB block | `kmalloc`, `kzalloc`, `kfree` | everybody | `Heap`, `Allocator` |
| Paging (`ke/memory/paging`) | directories, tables, chunks in physical memory | new, free, set, map, switch | heap, processor | `Paging`, `AddressSpaces` |
| Tasks (`ke/task/task.c`) | linked list, current task | new, free, init, next | heap, paging | `Tasks` |
| Processes (`ke/task/process.c`) | 12 slots | load, map | tasks, paging, heap | `Processes` |
| Native shell (`init/kernel.c`) | `ex_buffer`, `exec`, cursor | `KiUserInit`, `NsExec`, `IsBatFile` | keyboard handler (shared buffer), loader (system calls) | `Shell` |
| Keyboard handler (`ke/idt/idt.c`) | `input_buffer`, `input_pos` | `int21h_handler` | shell, console | `Shell`, `Console` (echo), `Interrupts` (echo at boot) |
| Interrupts and system calls (`ke/idt`, `init/kernel.asm`) | IDT, `tmp_res`, PIC masks | gates, dispatcher | shell, loader, disk, bug check | `Interrupts`, `Pic`, `Shell` (calls 2 and 4) |
| Loader (`init/loader.c`) | static `strtok` cursor | `LdrLoadPe`, `LdrExecBat`, relocation | file system, heap, shell | `Loader` (programs), `Batch`, `Scripts` and `Shell` (scripts) |
| File system (`ke/fs/file.c`, `pparser.c`) | 512 descriptors, file systems | `fopen`, `fread`, path parsing | FAT16, heap | `Files`, `OpenFiles` |
| FAT16 (`ke/fs/fat/fat16.c`) | root directory, three streams | resolve, open, read | streamer, heap | `Fat16` (algorithms), `Files` (allocation) |
| Disk and streamer (`ke/disk`) | stream positions | seek, read, programmed I/O | device | `Fat16` (streamer), `Files` (mounting), `Interrupts` (polling) |
| Boot (`init/kernel.asm`, `kernel_main`) | order of initialisation | | everybody | `Interrupts` (from `DiskInit` on), `Paging` (its space) |
| Console and graphics | cursor, back buffer, text screen | print, echo, clear, scroll, resolution | shell, keyboard, system calls | `Console` |
| GDT and TSS | six descriptors | encode | processor | `Gdt` (encoding) |
| Bug check (`ke/bug.c`) | | print, stop | exceptions | `Shell` (`Stopped`) |
| User programs (`src/free95/applications`) | | | system calls | `Shell` (return or halt) |

**What is hard here, and what would be correct**

* *Heap.* Allocation and release meet only through bits in a table. Correct means: two
  holders never share a block, a release takes back exactly what its request took, and
  NULL is the answer exactly when there is no room. Boundaries: a run at the end of the
  pool, sizes 0 and close to 2^32.
* *Paging.* 1026 unchecked requests build an address space; the order of the requests
  alone decides what a failure looks like to the caller. Correct means: a space that is
  handed out is whole and shares no frame, a mapping changes one page of one space, and
  nothing is lost or freed twice, out of memory included.
* *Shell and keyboard.* One buffer and one flag are shared without a lock, and the
  shell reads them several times for one line. Correct means: each line is acted upon
  once, as what it is.
* *Interrupts.* The disk's line has the vector of the system calls, results of calls pass
  through one global, and only one controller is told of an interrupt's end. Correct
  means: every caller gets its own result, nothing cuts a call, the disk is read only
  when it is ready, and the keyboard never falls silent.
* *File system.* Sequential, but with many partial failures and no release of anything;
  arithmetic on sectors, clusters and directory entries. Correct means: a descriptor
  stays what it was opened for, a lookup finds what the directory lists, and a read
  delivers the bytes of that file.
* *Loader.* Sizes, addresses and offsets come from the file; the end of the relocations is
  found in memory nobody cleared. Correct means: a program refers to itself where it was
  put, and loading it changes no other.
* *Tasks, processes.* Pointers into blocks that are freed and handed out again, and error
  paths that no code exercises yet. Correct means: the list visits the live tasks, no
  step writes into a block of somebody else, a process has the task it was loaded with.
* *Console.* One cursor, moved by the keyboard interrupt and by the shell, and three
  places that compute where the next character goes. Correct means: what was typed is
  what is shown, and nothing is drawn outside the buffer.
* *Scripts.* Lines are cut out of a buffer that nothing terminates. Correct means: the
  lines of the file, in order, and none it does not have.

`PROJECT.json` lists each hazard at its line with the properties that cover it.

## 2. Modules

### `Heap` (refines `Allocator`)

`entries` is the flag byte of each block as a set of flags, `live` what callers hold,
`asked`/`granted` the last request and its answer. `kmalloc(size)` is the whole of
`heap_malloc`: rounding up in `WordMod` arithmetic, the scan, the marking; `kfree(e)`
goes back from the address to the block and follows the chain. Indices past the table
that a too long request marks are kept in `clobbered`: those bytes lie in memory the
kernel does not read, so nothing else depends on them. Callers release what they were
given; `kfree` of other addresses is met in `Tasks`.

The scan is written as what it answers (first fit, or the last free run when it reaches
the end of the table); `ScanIsFirstFit` compares it with the loop of `heap_get_start_block`
(`ScanStep`, `ScanFor`), block by block, in every reachable table.

`Allocator` says what the callers expect, without a table: extents of free blocks are
granted, released as a whole, and a request is refused only when no run has room. It
deliberately allows a grant past the pool and an empty grant: `Heap` makes them, and
the run `heap_overrun` shows the first to be a defect.

### `Paging` (refines `AddressSpaces`), `Tasks`, `Processes`

Each of the three extends the one before; `Processes` has the specification.

`mem` is physical memory, a word per entry; the heap is its set of `free` frames. Every
request of paging and of tasks is for one block, for which the scan answers with the first
free frame or NULL (`HeapServesPages`). Those of a process are for two blocks and for four:
`RequestRun` answers them as the scan does, with the first free run that is long enough,
else with the free frames at the pool's end and the memory behind it, and with NULL only
when the last frame is taken. Nothing is said of what that memory holds. Physical page 0 is
real: NULL is written through and read back. `PAGING_TOTAL_ENTRIES_PER_TABLE` is one
constant in the code and two here (`DirEntries`, `Entries`), so that small instances have
few tables of several entries.

`Tasks` keeps a task's chunk and its two neighbours in the words of its block, as
`struct task` does, so that a pointer to a block that was freed reads what is there now.
`task_list_remove` mends `prev->next` only. The successor of a task that left therefore
keeps a stale `prev`, and when it leaves too it writes through it: into a free block,
into whatever the block has become, or into the task before, which is right only by
chance. `misled` becomes true when that write, or the write that is missing, does
damage, and the model stops there; until then the list is exact. When not even the
task's block can be had, `task_free(NULL)` follows what the BIOS left at address 0:
`undefined` becomes true, and the model says nothing more. `order` is a history
variable, the live tasks by age.

`Processes` has the slots and the three requests of `process_load_for_slot`. `task_new`
answers a failure with an error number in a pointer, and `ERROR_I(task) == 0` lets it pass:
the process is entered in its slot with `ERROR` for a task. Before that,
`process_map_binary` reads through the number (`process.c:52`), an address just below the
last one. What it finds does no harm, since the image is still empty, or the read is
refused; then the load reports a failure and frees the number as a task, and the model says
nothing more (`undefined`). Both outcomes are steps. `leaked` holds the frames of loads
that failed later than their first request. A load for a slot that is taken frees what an
uninitialised pointer leads to, or nothing (`SlotIsTaken`). `process_map_binary` maps one
page however long the image is, because `paging_map_range` leaves its loop at the first
success.

`AddressSpaces` is the promise: each space is a map of its own from page to entry, it
starts as the identity, and a step creates one, destroys one or changes one page of one.

### `Shell`

The keyboard handler is one action (its gate keeps interrupts off). The shell takes one
action per look at the shared buffer, so the handler may come between any two: the poll
of `exec`, the two looks of `IsBatFile`, each comparison of `NsExec`, the system call,
and the reset of `exec`. A system call is one action, a batch script a step per line,
both with interrupts off (`idt_set` makes interrupt gates only). Lines are sequences of
keys; `cls`, `help`, names that end in `.bat` and names of files are constants.
`entered`, `runs`, `misread` and `rushed` record what the user asked for and what was
done; no step depends on them except the bound `MaxLines`, and `measured`, which tells
whether the suffix is compared at the place of the line that was measured.

### `Batch`, `Scripts`

`Batch` has the bytes of a script as `LdrExecBat` reads them, `strtok` with its cursor,
and the lines that come out. `MCShell` takes the lines of its script from bytes this
way. `Scripts` puts it together with `Shell`: `ScriptLinesAsWritten` compares the lines
with `LinesOf`, which says what lines are without `strtok` and without the spaces before
and behind them, for files made of the lines a user has typed. A file of up to 99 bytes with a
zero behind it gives its lines; a longer one, or one with something else behind it,
gives at least its complete lines first, so only the last command can be wrong. The
comment above the loop (`init/loader.c:377`) says that leading and trailing spaces are
removed, and the code removes leading ones: `LdrExecBat_lines` does as the code does, and
the property asks for each line as written up to spaces behind it (`IsButForSpaces`), which
is what the two agree on. `strtok` has one cursor for all
callers, but a line of a script is never taken for a script (`NsExec(line, 0)`), so two
scripts never share it.

### `Console`

`buffer` maps each pixel to the set of marks on it: which part of which character, or
black. Characters are cells of `CellW` by `CellH`, and each part of a cell is a pixel,
so the arithmetic of `PutPixel`, and which pixels of whom are drawn over, is that of the
code; glyphs are full cells, blanks empty ones. `setup` is the disk the system was started
from: the bytes of `boot.ini` behind `res=`, and whether there is a font. Without one
`RenderChar` draws nothing, and the cursor moves as ever. The text screen starts with what
the kernel printed of the processor (`BootText`). Pixels the buffer does not have go to
`outside`. The cursor is taken modulo `Word`, as `uint32_t` is.

A system call and the keyboard handler are one action each, since interrupts are off;
the statements of `KiUserInit`, of `NsExec` and of `cls` are an action each (`todo` holds
those that are left, `FillRectangle` a column at a time), and a key may be echoed between
any two. `NtDisplayStringSyscall` writes the text screen as well. `rushed`, `bent`,
`skewed` and `sunk` record what may part the screen from the line: a key while the shell
was busy, a Backspace on an empty line (stored and drawn), a `Print` whose rows ended below
its cursor, and a cursor below the last line, which nothing prevents. `LineIsShown` is
about what is left: a font, a screen a whole number of characters wide, and none of the
first three. Of a character below the last line it says where the cursor goes and no
more, because the buffer has no pixels there. `DrawnInside` exempts screens narrower than
a character and a cursor that sank. The hazards that lie in those cases are listed in
`PROJECT.json` with a note instead of a property.

### `Gdt`

`encodeGdtEntry` as a function from a base, a limit and a type to eight bytes, and the
processor's reading of them. It has no state and no run; what is to be said of it is
proved, in `InterruptsProofs`.

### `Fat16`, `Files` (refines `OpenFiles`)

`Fat16` has the algorithms of the driver as operators over the bytes of a disk: the
streamer, names, the count of root entries, search, the chain of clusters, reads. A byte
is represented by its position on the disk, so that a read says which bytes it delivers;
what a word read from elsewhere holds is `other`. Reads are operators, not actions: each
begins with a seek of its own, and no interrupt touches a stream.

`Files` has the state: the descriptor table, the items it points to, and the heap, of
which only the number of free blocks matters here (each object takes one). Every call of
`kzalloc` on the way through `fopen` may be the one that fails; what was allocated before
stays allocated, as in the code, and a NULL that is written through ends in page 0,
which nobody reads. `handles` records which number `fopen` gave for which file,
`starved` that a number was given for a slot that stayed empty, `wild` that NULL was
passed to `kfree`; no step reads them. The high word of a cluster is 0 on FAT16.
Subdirectories are loaded and lost by the code, so only the memory they take is modelled.

`CanOpen` says when an open must succeed: the directory shows a live entry of that name
(`Entries`, which knows nothing of the driver), the entry is one the search may not lose
(`Safe`), and there is memory: five blocks are for the path's three objects and the two
descriptors, and the search takes two for each entry that matches (it goes on behind the
first), and two more for a directory. The search does lose entries. A field that fills its
place runs on into the next (`RunsOn`), and deleted entries are left out of the count of
entries but not of the loop over them (`fat16.c:206`, `fat16.c:595`), so that after n
deletions the last n entries are not found. `LookupAgrees` bounds the loss by these two and
says that nothing else is found or lost; that files are lost is what the code does, and
`Safe` is where the model says so. A subdirectory whose entries cannot be read is given
back before it is lost (`fat16_load_fat_directory`); how many entries it has is `entries`.

`OpenFiles` is the promise: a call binds a number of its own to an entry the path leads
to, or fails, and no binding ever changes.

### `Pic`, `Interrupts`

`Pic` has the two 8259A controllers as `_start` programs them. `Interrupts` is one
processor that runs `kernel_main` from `DiskInit` to ring 3 and then the shell and its
programs, reduced to where they read the disk and make system calls. An interrupt that
can be taken is taken before the next step of the code (`Running`); the handlers save
all registers and are one action, while the stub of the system calls is several
(`int2eh`, the call, `StoreResult`, `iretd`), since it is not left the same way and its
caller takes the result a step later (`Use`). `calls` is the stack of calls under way; a
script's lines make nested ones.

Line 14, the disk, has vector 0x2E. `int2eh_ByDisk` is that interrupt: `eax` then holds
0 or a status the poll saw, which is no call's number. `latches` is chosen at the start,
for the two kinds of controller the kernel meets: QEMU keeps an edge-triggered request
after the line fell, an 8259A forgets it. As neither controller is told of the end of a
mistaken call, line 14 stays in service: this, and no intention of the code, is why it
happens once at most, at boot, when nobody waits for a result.

### `Loader`

Memory is a function from addresses to 16-bit words. `LdrLoadPe` up to the copying of
sections is one action, then a step for each relocation entry and each block
(`LdrRelocMemory_entry`, `LdrRelocMemory_block`), until the zero that ends them. A file is
a record of its header fields and words, with `fields`, what the linker knows of its
addresses, against which `LoadedAsLinked` compares. `LdrProcessPe` is handed NULL and
stores the headers at address 0. `LdrAllocMemory` answers as the scan of the heap does
(`Starts`): with the first free run that is long enough, else with the last one, so that
the image goes on in the memory behind the heap, and with NULL only when the last block is
taken. `RamSize` says where memory ends, and the loader's assumption is that one image fits
behind the heap; blocks there are written to by others who overrun it, too, as long as the
heap's last block is free (`OthersWrite`). Nobody looks at what `fread` answers
(`init/loader.c:316`), and it refuses the last descriptor and those of empty slots: what is
taken for the file is then what the stack still holds, an image read before or nothing of
the kind (`Delivered`). Memory that was not written, on the heap and on the stack, holds
one of the patterns of `Stale`. Bytes that are no list of blocks lead `astray`, where the
model stops. `IsComplete` says which files are as a linker makes them: they fit the buffer,
their sections are apart and inside the image, the list of blocks ends with a zero within
the sections, its entries are the linker's fields, each once, and none of them changes the
list. The properties speak of such files; others are loaded as well (`AllWellFormed` is
false from then on). Programs that change their own memory after they were loaded are left
out. `DWORD64` is an `unsigned long` of 32 bits, so all sums are modulo `WordMod`. The
comment at `init/loader.c:263` says that DIR32 moves a field of 64 bits; the code moves 32.
`Relocate` does the latter, and a file with such a field is not complete, so that no
property decides between the two.

## 3. Runs

| Run | Instance | Checks |
|---|---|---|
| `heap` | 5 blocks of 2 bytes, words of 14, all 14 sizes | `TypeOK`, `NoOverlap`, `TableIsExact`, `LoneOverrun`, `ScanIsFirstFit`, `AbstractSpec` |
| `heap_overrun` | the same | violation of `RefusesWhatDoesNotFit` |
| `paging` | 2 tables of 17 entries, 16 frames, 1 more page, 2 slots | `TypeOK`, `SpacesAreWholeAndPrivate`, `FramesAccounted`, `ListHoldsUntilMisled`, `ProcessesHaveTasks`, `AbstractSpec` |
| `shell` | lines of up to 2 of 3 characters, 3 lines; scripts of up to 7 bytes, 4 read | `TypeOK`, `ActedUponAtMostOnce`, `PatientUserIsServed`, `ExecIsHeld`, `ScriptLinesAsWritten`, `PatientLineIsRun` |
| `shell_dropped` | 2 lines | violation of `NoLineIsDropped` |
| `shell_hlt` | 2 lines | violation of `HaltIsTrapped` |
| `files` | five disks, 4 root entries, 2 descriptors, 26 blocks | `TypeOK`, `HandlesStayBound`, `StoredItemsAreWhole`, `LookupAgrees`, `ReadIsExact`, `OpenSucceeds`, `AbstractSpec` |
| `files_chain` | the same | violation of `ChainIsFollowed` |
| `interrupts` | lines 0, 1, 12, 14; calls 0, 2, 4, 0xB4; files of 2 sectors | `TypeOK`, `ResultReachesCaller`, `MistakenOnlyAtBoot`, `WordsOnlyWhenReady`, `CallsAreNotCut`, `KeysAreRead` |
| `interrupts_null` | the same, no calls in scripts | violation of `NothingDrawnAtNull` |
| `console` | screens of 4 by 3 and 3 by 2 characters of 2 pixels, none, and one without a font; 6 keys | `TypeOK`, `LineIsShown`, `DrawnInside`, `TextShowsTail`, `PrintIsStraight` |
| `loader` | words of 6 bits, 4 blocks of 8 words and 20 words behind them, 6 files, 3 loads | `TypeOK`, `LoadedAsLinked`, `WritesStayInside`, `LoadEnds` |

*Bounds.* Five blocks hold three extents of different lengths with gaps, so chains meet
at both ends and a request can be short by one block, overrun the pool, or wrap to no
block (sizes 13 and 0). Five frames make a task and the kernel takes five of the 16, so
there is room for two tasks, or for a task and a process, with a frame to spare; with a
page held in between, `task_new` and `process_load` fail at each of their requests (the
blocks, the directory, each table, the chunk), and when less than the six frames of
a process is left, its stack goes on behind the pool. Two tasks meet the cases of a stale
`prev` that count: the block it names is free, is a page, or part of a new task. Two spaces
suffice to share a frame or to change each other's pages. Three lines are one being
typed, one being worked on and one that was; two characters suffice for a line of each
meaning.

The disks are small (sectors of 4 bytes, clusters of 8) and each holds a trap: a deleted
entry, a label, names with and without extension, a file of two clusters, a directory;
memory runs out at every allocation of `fopen` because others may hold any number of blocks
up to `MaxOthers`. One line of the slave comes before the disk's and one of the master is
before the cascade; a script makes one call, but three calls may be under way at a time, so
a script's program may run a script. The loader's files have one block and two, all
relocation types, sums that overflow a half, a list without end, one without relocations,
one longer than the buffer; each takes two blocks of four or three. So the second or third
is longer than what is left, and goes on behind the heap, or finds the last block taken and
is loaded at address 0. On the console six keys type a line, take it back over the edge of
the screen and type it again, or enter two lines, the second while the first is worked on;
the second resolution is no multiple of a character's width, the third does not parse, and
with the fourth there is no font. Scripts are two lines of up to two characters, with every
string of two delimiters and spaces between them, some before them, and up to two bytes
behind them.

`CHECK_DEADLOCK FALSE` stands where the system may stop: the shell in a bug check or a
hang, or waiting for a user who has no lines left; paging where it becomes undefined;
files when another file system was found or the table is full; interrupts after power
off or a bug check; the console when no keys are left; the loader when it went astray.

*Fairness.* `FairSpec` of the shell assumes only that the processor goes on executing
the shell (weak fairness of `ShellStep`): it is the one thing that runs when no
interrupt is served. Nothing is assumed of the user or the keyboard.
`FairSpec` of the interrupts assumes that the processor goes on (`Processor`), that a
drive that was given a command gets ready, and that the keyboard's interrupt, if it can
be taken again and again, is taken: timer ticks and mouse events are too rare to win
every time. That is strong fairness of `KeyServed`, for its line is blocked whenever
interrupts are off. `FairSpec` of the loader assumes that the processor goes on with a
call (`LoaderStep`).

*What the violations show.* The scan answers an oversized request with memory past the
pool, so the check for NULL on the screen buffer cannot fail as it is meant to. A line
entered while a program runs is dropped by the `exec = 0` after it. `hlt` traps from
the prompt and hangs the machine from a script. From the second cluster on, the FAT is
looked up at a product instead of a sum. A Backspace during boot is drawn over address 0.
Each is quoted with its line in `PROJECT.json`.

## 4. Proofs

All theorems hold for every value of the constants that satisfies the named assumptions
of the module, which TLC evaluates on the instances above. Each component's safety rests
on an inductive invariant `IInv` that is defined in its proof module: `IInv` holds
initially, every step keeps it, and it implies the properties the runs check.

**Loops.** Loops over tables, strings and directories are functions defined by recursion on
an interval, `f[i \in m..n] == ...`, which stands for a choice of a function that satisfies
that equation. `Recursions` proves that there is one (`Recursion`) and the induction by
which something holds all along it (`AllAlong`), both from the well-foundedness of < on
the naturals, with predicates given as sets. The models are written with such functions
where a fold or a `RECURSIVE` operator would be shorter, because of those the provers
can say nothing.

**`HeapProofs`** (assumption `HeapAssumption`: positive sizes, the pool not at address 0):

    IInv = TypeOK /\ NoOverlap /\ TableIsExact

and from it each of its parts, `LoneOverrun` and `AbstractSpec`. `NoOverlap` alone is not
inductive: that a granted run is free of live extents needs `TableIsExact` (untaken
entries lie in no extent); that needs the chain `kfree` follows to be exactly the extent
(`ChainIsExtent`), which needs disjointness again; and an extent that overruns the pool
holds the last block, so the next overrun cannot meet it (`LoneOverrun`). Arithmetic is
confined to the lemmas `BlocksForNat` and `AddressRoundTrip`. `HeapScanIsFirstFit`
proves of the loop itself, turn by turn, that it finds the first run that fits or the
free run at the end (`Seen`: what the counter and the start say of the blocks before i).
`HeapServesPages` is what `Paging` takes the heap for: for a request of one block the
heap is a set of free blocks, of which it gives the first, or NULL when it is empty.

**`ProcessesProofs`**, for pools and tables of any size and any number of slots, proves
every property of the run `paging`. The invariant is long because blocks are freed and
handed out again while pointers to them survive:

* `Blank`: free frames and page 0 hold zeroes, so a stale pointer reads NULL and not a
  task. That is why `task_list_remove` does no damage in most orders, and why
  `task_new` can be undone by way of page 0 when its space could not be had.
* `Apart`: every space is whole, no two share a frame, none holds a frame that is free
  or somebody else's, and no two tasks have the same one.
* `Linked` and `Once`: the list visits the live tasks once each, in order.
* `Booting`: until `kernel_main` has its page there is nothing else.
* The memory of processes and of their stacks is made of runs that may leave the pool
  (`RunGranted`). Two of them are apart within it because each was free, and behind it
  because only the run that ends the pool goes on there, and its last frame stays taken
  (`RunsApart`).

What `paging_new_4gb` does is proved once, from the order of its requests
(`NewSpaceIsWhole`); what `task_free` gives back is then the whole space and the block.
What reads memory is guarded by `~ misled`: after the write through a stale `prev` the
model says nothing. `SpacesImplementMaps` maps each step to a creation, a
change of one page, a destruction or a stutter of `AddressSpaces`.

**`InterruptsProofs`**, for every set of lines and of calls, files and scripts of any length
and calls of any depth. The argument is about line 14. Once it or a line before it was
served it is shut, since only the master is told of the end (`Service`). At a controller
that latches, a request outlives the read that made it, but it is served while `boot.ini`
is read at the latest; at one that does not, no request outlives its read (`Drive`). So in
ring 3 either the line is shut, or it requests only while a call reads, with interrupts
off. Interrupts are off inside a call and as they were behind the outermost (`Masking`);
whoever makes a call inside a call executes a script, and the disk's
mistaken call is alone on the stack (`Stack`); and `eax` holds what a caller is owed from
the `iretd` until it is taken (`Owed`). From these follow `ResultReachesCaller`,
`MistakenOnlyAtBoot`, `WordsOnlyWhenReady` and `CallsAreNotCut`. The module ends with the
gates' neighbours in memory: the processor reads back exactly the base, limit and type
`encodeGdtEntry` was given, for every entry it does not refuse (`SegmentsAreAsAsked`). The
argument is division by 256, three times (`BytesOfWord`), and that the entries refused
are those whose limit in pages would lose bits (`LimitInUnits`).

**`ShellProofs`**, for every buffer, key set, set of programs and scripts and any number of
lines: lines fit their buffers, no line is acted upon twice, `exec` is held until the
action, and Backspace is kept only at the start of a line (which no run checks). The
invariant adds where the last line is *pending*: between poll and action always, and at
the poll whenever `exec` is up. `PatientUserIsServed` needs more (`Served`): as long as
nobody typed into a line that was being looked at, all looks saw the same line, each
line before the last was acted upon, and the last one is when the shell is past it.

Of scripts, `ScriptIsReadAsWritten` is about any file without a zero, and
`ShellScriptsAsWritten` applies it to the lines of every state. `Lines` asks for the lines
behind the next token before it has its own, so there is a table of them that is filled
from the end of memory (`TableExists`); `LinesOf` numbers the places where lines begin,
which an increasing list of them does as well (`NumbersInOrder`). From the end of the text
to its start, the lines cut from any place between two lines are those that begin there
(`NextLineAgrees`): `strtok` skips what is not the start of a line (`NextStarts`) and stops
where the line does (`TokenIsLine`). What is cut off a line's start is what the loop cuts,
and what the code leaves at its end is spaces (`LineButForSpaces`). Past the complete lines
nothing is claimed unless a zero follows.

**`FilesProofs`**, for every disk, path, heap and table, proves every property of the run
`files`:

* `IInv` is `TypeOK`, `HandlesStayBound`, `StoredItemsAreWhole` and `Accounted` (free
  blocks and those of others are no more than there are). A slot is taken only while it is
  empty and filled in the same call. Each of the allocations of `fopen` may fail; the key
  is that *what the search leaves of the heap tells what it found*: an entry whose clone
  could not be had leaves no block, so the descriptor that is asked for next is missing,
  too (`SearchFinds`, by induction along the directory).
* `OpeningSucceeds`, under the two hypotheses of the next item: an entry of `CanOpen` is
  one the search finds, and with the blocks of `CanOpen` no request fails on the way
  (`SearchHasRoom`). The parser gives the whole path or leaves nothing (`ParserLeaves`).
* `LookupFollowsFormat` and `FilesImplementOpenFiles` (refinement of `OpenFiles`) are about
  names, and hold on disks the format describes (`DisksAreFormatted`: fields padded at their
  end only, no dot in them, an attribute that is no dot; `PathsAreText`: no name contains
  the mark of deletion). Both hypotheses are needed: fields are cut at the first padding
  byte, and an extension that fills its field runs on into the attribute. Deleted entries
  are allowed: the loop ends before the end mark by as many as were deleted, so that what
  is found is live, and what is before that place and not `RunsOn` is found. `MCFiles` has
  TLC evaluate the hypotheses on its disks and paths.
* `ReadsAreExact`: a read of one piece, or of two of whole sectors, that stays within its
  file's first cluster is a stretch of it (`PieceIsAStretch`, `StretchesJoin`). For pieces
  that are no whole sectors it is not, nor beyond the cluster (run `files_chain`).

**`LoaderProofs`**, for every memory, heap, set of files, width of words and number of loads,
proves `TypeOK`, `LoadedAsLinked` and `WritesStayInside` from

    IInv = TypeOK /\ Placed /\ LoadedAsLinked /\ (well-formed and loading => Relocating)

`Placed` keeps the image that is being loaded apart from all others, in the heap or going
on behind it, or at address 0, below the heap. That two images do not meet behind the heap
is `Overrun`: whoever holds memory there holds the last block, too, and from then on the
scan answers no request with it. `Relocating` says how far the loop is: the words whose
entries come before the block and the index it is at are linked, all others are the file's.
A step keeps it because nothing touches the list, so that it is read as the file has it,
and because the entries before this one touch other words. When the zero is reached all
words are linked. Files that are not complete may be loaded, too; they are among the
programs loaded from then on, and nothing is claimed of a memory they may have written to.

**`ConsoleProofs`**, for every screen, character size, string and sequence of keys, proves
every property of the run `console`. `TextShowsTail` is inductive with the screen's type: a
character more leaves the places of the others what they were and is put behind them, and
scrolling takes the first row off the text and the screen alike (`TailGrows`,
`TailGrowsByString`). `DrawnInside` needs the cursor to be within a row that has a cell's
width left, and is for the resolutions `fetchwh` reads as they were written
(`ResolutionsAreRead`, evaluated by TLC in `MCConsole`).

`LineIsShown` and `PrintIsStraight` are proved as long as rows and the indices of pixels
are in the range of 32 bits (`InRange`, a definition of `Console`: each character displayed
and each key counts for a row, and `RowsCounted` shows that this is enough). The condition
is the code's: the cursor sinks without bound, so the index wraps in the end and text is
drawn over the top of the screen again; without it neither holds for every number of
keys. On TLC's instances `Word` is far above what the keys reach, so there the two are
checked as they stand.

The invariant is `Clean => Showing`: when there is a font, and as long as the user waited
for the prompt, no Backspace fell on an empty line and no `Print` left text below its
cursor, the cursor is at a character's cell and the shell is in one of five situations. It
waits (`Typing`: the line is on cells in reading order from where it began, and nothing is
drawn from the cursor on), has a line to work on (`Entered`), displays (`Displaying`),
clears the screen (`Clearing`: the columns before the next are black) or moves the cursor
to its top (`Resetting`). That a Backspace finds the character it removes, over the edge of
a row as well, needs rows that are whole numbers of cells (`Grid`). `ConsoleAssumption`
says that the characters with a meaning of their own differ, and that two characters' width
fits a word.

**Left to TLC**

Liveness: `PatientLineIsRun`, `KeysAreRead`, `LoadEnds`. Fairness is out of this prover's
reach. Every other property of a passing run is stated by a theorem.

## 5. Not modelled

Colours, the shapes of glyphs, the BGA registers, the copy to the frame buffer, the serial
port, the boot sector, wording of messages, string and memory helpers other than
`strtok`: they decide nothing the properties speak of. The fields of the TSS and the
switch to ring 3, which happen once; the branch of `task_list_remove` for the current
task, since no task ever becomes current; what programs do to their own memory. The
console reads a line whole when it polls and runs no script: which line is read when
another is entered meanwhile, and what a script's lines do (the branch of `NsExec` for
batch files), is in `Shell`. Its boot is what decides where the shell starts: that a
`boot.ini` without `res=` means 640 by 480 is the case of a `boot.ini` that says so, and
keys that are echoed while the kernel boots, which move the cursor the shell starts with,
are left to `Interrupts`. What memory behind the pool holds, and who else uses it, matters
only to the loader and is modelled there. A script whose file cannot be read
(`init/loader.c:373`) runs whatever the buffer holds; only what is read is modelled.

*Where the code falls short of its comments or its evident aim, and no run refutes it:* trailing
spaces of a script's line are kept (`init/loader.c:377`); a DIR32 field is one of 32 bits
(`init/loader.c:263`); and the search of a directory stops short by as many entries as
were deleted (`ke/fs/fat/fat16.c:595` against `:206`), on which the source has no comment.
The properties about scripts, programs and lookups leave these cases open and say so.
Before `DiskInit`, `kernel_main` runs with interrupts off and in a fixed order. The build
files and images of the applications are no part of the running system.

## 6. Plan

Done: all modules above; proofs of every safety property the passing runs check, of segment
descriptors, of what paging takes the heap for, and of the three refinements.

Left: models of what section 5 lists once the code does more with it: the branch of
`task_list_remove` for the current task when tasks are switched, and the fields of the TSS
then; a release of descriptors when the file system gets one.
