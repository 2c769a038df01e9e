-------------------------------- MODULE Files --------------------------------
(***************************************************************************)
(* The virtual file system and the opening of files: ke/fs/file.c,         *)
(* ke/fs/pparser.c, the operations of ke/fs/fat/fat16.c and the mounting   *)
(* of the disk by ke/disk/disk.c. Every object takes one block of the      *)
(* heap, which is the number of its free blocks here: a request gets NULL  *)
(* only when there is none. Most requests are not checked, and nothing is  *)
(* given back; NULL is written through, to physical page 0, which nobody   *)
(* reads. The calls are not interrupted by anything that touches the heap, *)
(* so each is one action.                                                  *)
(***************************************************************************)
EXTENDS Fat16

CONSTANTS Disks,          \* the disks there may be: the root directory, the FAT,
                          \* the other words and whether the signature is FAT16's
          Blocks,         \* of the heap
          MaxDescriptors, \* FREE95_MAX_FILE_DESCRIPTORS
          Paths,          \* drive, well-formed or not, and what lies between slashes
          Modes,          \* the first character of mode strings
          MaxOthers,      \* bound: the blocks other users of the heap hold
          MaxHandles      \* bound: the successful calls of fopen

ASSUME FilesAssumption == /\ Blocks \in Nat /\ Blocks >= 6
                          /\ MaxDescriptors \in Nat \ {0}
                          /\ {MaxOthers, MaxHandles} \subseteq Nat

ASSUME DisksAssumption ==
    \A d \in Disks : /\ d.signature \in BOOLEAN
                     /\ d.slots \in Seq(Range(d.slots))
                     /\ \A item \in Range(d.slots) : {item.cluster, item.entries} \subseteq Nat

ASSUME PathsAssumption ==
    \A path \in Paths : /\ path.parts \in Seq(Range(path.parts))
                        /\ \A part \in Range(path.parts) : part \in Seq(Range(part))

VARIABLES disk,              \* what lies on it
          filesystem,        \* disk.filesystem: whether one was found
          free,              \* the number of free blocks
          others,            \* the blocks held by the rest of the kernel
          file_descriptors,  \* the item each stands for, or NULL
          handles,           \* what calls of fopen returned, other than 0
          wild               \* kfree was called with NULL

vars == <<disk, filesystem, free, others, file_descriptors, handles, wild>>

\* A fat_item whose clone of the directory entry is NULL.
Uncloned == -1

-----------------------------------------------------------------------------
(* The path parser. An operation gets the free blocks and leaves some. *)

\* A part is what lies before a slash or the end; an empty one ends the path.
Parts(path) ==
    SubSeq(path.parts, 1,
           SelectInSeq(Append(path.parts, <<>>), LAMBDA part : part = <<>>) - 1)

\* Mutant: the path is freed while it is used.
pathparser_parse_FreesPath(path, heap) ==
    LET parts == Parts(path)
        whole == Min({Len(parts), (heap - 1) \div 2})
    IN  IF ~ path.valid \/ heap = 0
        THEN [parts |-> <<>>, left |-> heap, wild |-> FALSE]
        ELSE [parts |-> SubSeq(parts, 1, whole),
              left |-> heap,
              wild |-> heap = 1 + 2 * Len(parts)]

\* A root, then a string and a path_part for each part. Where one of them is
\* NULL the path ends, as if it were not longer, and the heap is empty. At the
\* end of the path a string is taken and freed again: NULL, if there is none.
pathparser_parse(path, heap) ==
    LET parts == Parts(path)
        whole == Min({Len(parts), (heap - 1) \div 2})
    IN  IF ~ path.valid \/ heap = 0
        THEN [parts |-> <<>>, left |-> heap, wild |-> FALSE]
        ELSE [parts |-> SubSeq(parts, 1, whole),
              left |-> IF whole = Len(parts) THEN heap - 1 - 2 * whole ELSE 0,
              wild |-> heap = 1 + 2 * Len(parts)]

-----------------------------------------------------------------------------
(* Opening in fat16.c *)

\* The directory and its entries, at most a block of them. Without room for the
\* entries, or when they cannot be read, what was taken is freed, and the pointer
\* to it kept for a moment.
fat16_load_fat_directory(item, heap) ==
    IF /\ item.attribute = SUBDIRECTORY
       /\ heap >= 2
       /\ fat16_read_internal(disk, item.cluster, 0, item.entries * ItemSize).res = 0
    THEN heap - 2 ELSE heap

\* Mutant: a subdirectory's entry is not cloned.
fat16_new_fat_item_NoClone(i, heap) ==
    IF heap = 0 THEN [item |-> NULL, left |-> 0]
    ELSE LET rest == fat16_load_fat_directory(disk.slots[i], heap - 1)
         IN  IF rest = 0 \/ disk.slots[i].attribute = SUBDIRECTORY
             THEN [item |-> Uncloned, left |-> rest]
             ELSE [item |-> i, left |-> rest - 1]

\* The fat_item, a directory, and the clone of the entry. The directory is lost
\* when the item is made a file, and the clone is not checked.
fat16_new_fat_item(i, heap) ==
    IF heap = 0 THEN [item |-> NULL, left |-> 0]
    ELSE LET rest == fat16_load_fat_directory(disk.slots[i], heap - 1)
         IN  IF rest = 0 THEN [item |-> Uncloned, left |-> 0]
             ELSE [item |-> i, left |-> rest - 1]

\* Each entry of that name replaces the one found before.
fat16_find_item_in_directory(part, heap) ==
    LET total == fat16_get_total_items_for_directory(disk.slots)
        found[i \in 0..total] ==
           IF i = 0 THEN [item |-> NULL, left |-> heap]
           ELSE IF i \in Matches(disk.slots, part)
                THEN fat16_new_fat_item(i, found[i - 1].left)
                ELSE found[i - 1]
    IN  found[total]

\* Every item is a file, so a path of several parts leads to nothing.
fat16_get_directory_entry(parts, heap) ==
    LET found == fat16_find_item_in_directory(parts[1], heap)
    IN  IF Len(parts) > 1 THEN [found EXCEPT !.item = NULL] ELSE found

fat16_open(parts, heap) ==
    IF heap = 0 THEN [item |-> NULL, left |-> 0]
    ELSE fat16_get_directory_entry(parts, heap - 1)

-----------------------------------------------------------------------------
(* Descriptors. Their numbers start at 1. *)

Empty == {i \in 1..MaxDescriptors : file_descriptors[i] = NULL}

Least(S) == {i \in S : \A j \in S : i <= j}

\* Mutants: when there is no other, the last descriptor is taken again, or the
\* slot behind the table; the last slot is never looked at.
FirstEmpty_Wraps == IF Empty = {} THEN {MaxDescriptors} ELSE Least(Empty)

FirstEmpty_OneTooMany == IF Empty = {} THEN {MaxDescriptors + 1} ELSE Least(Empty)

FirstEmpty_OneTooFew == Least(Empty \ {MaxDescriptors})

\* The slot file_new_descriptor finds, if there is one.
FirstEmpty == Least(Empty)

file_get_descriptor(fd) ==
    IF fd <= 0 \/ fd >= MaxDescriptors THEN NULL ELSE file_descriptors[fd]

-----------------------------------------------------------------------------
(* The operations *)

Init == /\ disk \in Disks
        /\ filesystem = FALSE
        /\ free = Blocks
        /\ others = 0
        /\ file_descriptors = [i \in 1..MaxDescriptors |-> NULL]
        /\ handles = {}
        /\ wild = FALSE

Booted == free + others < Blocks

\* The private data and three streams; a fourth one, freed at the end; the root
\* directory, one block. For another file system the private data is freed.
DiskInit ==
    /\ ~ Booted
    /\ filesystem' = disk.signature
    /\ free' = free - IF disk.signature THEN 5 ELSE 3
    /\ UNCHANGED <<disk, others, file_descriptors, handles, wild>>

\* The descriptor is stored in its slot, and its number returned.
Bind(slot, item, path) ==
    /\ file_descriptors' = [file_descriptors EXCEPT ![slot] = item]
    /\ handles' = handles \cup {[fd |-> slot, path |-> path, item |-> item, starved |-> FALSE]}

\* The descriptor is NULL, and so is the slot still: its number is returned too.
Starve(slot, item, path) ==
    /\ handles' = handles \cup {[fd |-> slot, path |-> path, item |-> item, starved |-> TRUE]}
    /\ UNCHANGED file_descriptors

\* What is checked between parsing and opening.
Accepted(path, parts, mode) ==
    /\ parts # <<>>
    /\ path.drive = 0
    /\ filesystem
    /\ mode = "r"

fopen(path, mode) ==
    LET parsed == pathparser_parse(path, free)
        opened == fat16_open(parsed.parts, parsed.left)
    IN  /\ Booted
        /\ wild' = (wild \/ parsed.wild)
        /\ \/ /\ ~ Accepted(path, parsed.parts, mode)
              /\ free' = parsed.left
              /\ UNCHANGED <<file_descriptors, handles>>
           \/ /\ Accepted(path, parsed.parts, mode)
              /\ opened.item = NULL \/ FirstEmpty = {}
              /\ free' = opened.left
              /\ UNCHANGED <<file_descriptors, handles>>
           \/ /\ Accepted(path, parsed.parts, mode)
              /\ opened.item # NULL
              /\ opened.left > 0
              /\ free' = opened.left - 1
              /\ \E slot \in FirstEmpty : Bind(slot, opened.item, path)
           \/ /\ Accepted(path, parsed.parts, mode)
              /\ opened.item # NULL
              /\ opened.left = 0
              /\ free' = 0
              /\ \E slot \in FirstEmpty : Starve(slot, opened.item, path)
        /\ UNCHANGED <<disk, filesystem, others>>

\* What a read delivers. It leaves nothing behind: each seeks before it reads.
fread(size, nmemb, fd) ==
    IF size = 0 \/ nmemb = 0 \/ file_get_descriptor(fd) = NULL
    THEN [res |-> EIO, bytes |-> <<>>]
    ELSE fat16_read(disk, disk.slots[file_get_descriptor(fd)], size, nmemb)

\* Blocks are taken and given back elsewhere in the kernel.
kzalloc == /\ Booted /\ free > 0 /\ others < MaxOthers
           /\ free' = free - 1
           /\ others' = others + 1
           /\ UNCHANGED <<disk, filesystem, file_descriptors, handles, wild>>

kfree == /\ others > 0
         /\ free' = free + 1
         /\ others' = others - 1
         /\ UNCHANGED <<disk, filesystem, file_descriptors, handles, wild>>

Next == \/ DiskInit
        \/ \E path \in Paths, mode \in Modes :
              Cardinality(handles) < MaxHandles /\ fopen(path, mode)
        \/ kzalloc
        \/ kfree

Spec == Init /\ [][Next]_vars

-----------------------------------------------------------------------------
(* Properties *)

TypeOK == /\ disk \in Disks
          /\ filesystem \in BOOLEAN
          /\ free \in 0..Blocks
          /\ others \in 0..MaxOthers
          /\ file_descriptors \in [1..MaxDescriptors -> (-1)..Len(disk.slots)]
          /\ \A h \in handles : /\ h.fd \in 1..MaxDescriptors
                                /\ h.path \in Paths
                                /\ h.starved \in BOOLEAN
          /\ wild \in BOOLEAN

\* A handle whose descriptor was stored has its number for itself and stands
\* for the entry it was opened for ever after, however many opens fail in
\* between and whatever numbers those return.
HandlesStayBound ==
    \A h \in handles : ~ h.starved =>
        /\ h.fd \in 1..MaxDescriptors
        /\ h.item # NULL
        /\ file_descriptors[h.fd] = h.item
        /\ \A g \in handles : ~ g.starved /\ g.fd = h.fd => g = h

\* An item without its entry never gets into the table: nothing checks the
\* clone, but the descriptor is asked for after it and is missing then, too.
StoredItemsAreWhole ==
    \A i \in 1..MaxDescriptors : file_descriptors[i] # Uncloned

\* The blocks a search takes, at most, for what it finds.
Taken(found) == 2 * Cardinality(found)
    + 2 * Cardinality({i \in found : disk.slots[i].attribute = SUBDIRECTORY})

\* While there is a slot and memory for the objects of one call, the path's
\* three, the two descriptors and what the search takes, opening an entry that
\* the directory shows and the search may not lose opens an entry, and the number
\* returned is its own. And a call that passes NULL to kfree, because parsing took
\* the last block, does not go on to return a descriptor.
CanOpen(path) ==
    /\ Booted /\ filesystem /\ path.valid /\ path.drive = 0
    /\ Empty # {}
    /\ Len(Parts(path)) = 1 /\ IsShortName(Parts(path)[1])
    /\ Entries(disk.slots, Parts(path)[1]) \cap Safe(disk.slots) # {}
    /\ free >= 5 + Taken(Entries(disk.slots, Parts(path)[1]))

OpenSucceeds ==
    [][/\ \A path \in Paths : CanOpen(path) /\ fopen(path, "r") =>
            \E h \in handles' : /\ h.path = path /\ ~ h.starved
                                /\ \A g \in handles : ~ g.starved => g.fd # h.fd
       /\ wild' # wild => handles' = handles]_vars

\* A field of an entry is padded at its end, and a dot is not part of a name.
IsField(field, length) ==
    /\ field \in Seq(Range(field) \ {DOT})
    /\ Len(field) = length
    /\ \A i, j \in 1..length :
          i < j /\ field[i] \in {NUL, SPACE} => field[j] \in {NUL, SPACE}

\* Disks as the format has them, and names no deleted entry has.
DisksAreFormatted ==
    \A d \in Disks : \A item \in Range(d.slots) :
        /\ IsField(item.filename, NameLength)
        /\ IsField(item.ext, ExtLength)
        /\ item.attribute # DOT

PathsAreText ==
    \A path \in Paths : \A part \in Range(path.parts) : DELETED \notin Range(part)

\* What a search finds under a name of the format's is a live entry of that name.
\* What it loses are entries of which a field runs on into the next, and, at the
\* end of the directory, at most as many as were deleted.
LookupAgrees ==
    \A path \in Paths : \A part \in Range(Parts(path)) : IsShortName(part) =>
        /\ Matches(disk.slots, part) \subseteq Entries(disk.slots, part)
        /\ Entries(disk.slots, part) \cap Safe(disk.slots) \subseteq Matches(disk.slots, part)

\* A read in one piece, or in two pieces of whole sectors, that stays within the
\* first cluster of the file delivers its bytes from the first on, in order and
\* none from elsewhere, however often the file was read before. A number that
\* stands for nothing delivers none, and neither does the last one, which fopen
\* hands out and file_get_descriptor refuses.
ReadIsExact ==
    \A fd \in 1..MaxDescriptors, size \in 1..ClusterBytes, nmemb \in 1..2 :
        LET read == fread(size, nmemb, fd)
            start == ClusterStart(disk.slots[file_descriptors[fd]].cluster)
        IN  IF file_descriptors[fd] = NULL \/ fd = MaxDescriptors
            THEN read = [res |-> EIO, bytes |-> <<>>]
            ELSE /\ size * nmemb <= ClusterBytes
                 /\ nmemb = 1 \/ size % SectorSize = 0
                 => read.bytes = [j \in 1..(size * nmemb) |-> start + j - 1]

\* The cluster used for an offset is the one the FAT leads to. (Violated
\* from the second cluster of a file on.)
ChainIsFollowed ==
    \A fd \in 1..MaxDescriptors : file_descriptors[fd] # NULL =>
        LET first == disk.slots[file_descriptors[fd]].cluster
        IN  disk.fat[first] \in 2..(Len(disk.slots) + 2) =>
               fat16_get_cluster_for_offset(disk, first, ClusterBytes) = disk.fat[first]

\* Where the format says a path leads; for names it does not have, where the
\* search leads.
Leads(parts) == IF Len(parts) # 1 THEN {}
                ELSE IF IsShortName(parts[1]) THEN Entries(disk.slots, parts[1])
                ELSE Matches(disk.slots, parts[1])

\* Stored descriptors are what callers expect: fresh numbers for the entries
\* their paths lead to. In particular no path that lost its end when memory
\* ran out opens what its beginning leads to.
Abstract == INSTANCE OpenFiles WITH
    Descriptors <- 1..MaxDescriptors,
    directory <- [parts \in {Parts(path) : path \in Paths} |-> Leads(parts)],
    open <- {[path |-> Parts(h.path), fd |-> h.fd, entry |-> h.item] :
                h \in {g \in handles : ~ g.starved}}

AbstractSpec == Abstract!Spec
==============================================================================
