-------------------------------- MODULE Fat16 --------------------------------
(***************************************************************************)
(* What the FAT16 driver makes of a volume, after ke/fs/fat/fat16.c and    *)
(* ke/disk/streamer.c: the names of directory entries, the search for one, *)
(* the clusters of a file, and the bytes a read delivers. A byte of the    *)
(* disk is represented by its position, so that a read says which bytes it *)
(* returned. Nothing in the kernel writes to the disk.                     *)
(***************************************************************************)
EXTENDS Integers, FiniteSets, SequencesExt, FiniteSetsExt

CONSTANTS SectorSize,         \* FREE95_SECTOR_SIZE, in bytes
          SectorsPerCluster,  \* the fields of the boot sector ...
          ReservedSectors,
          FatCopies,
          SectorsPerFat,
          RootDirEntries,     \* ... up to here
          ItemSize,           \* sizeof(struct fat_directory_item)
          NameLength,         \* of fat_directory_item.filename
          ExtLength,          \* of fat_directory_item.ext
          WordMod             \* 2^32 in the code, the width of a position

ASSUME Fat16Assumption ==
    /\ {SectorSize, SectorsPerCluster, ReservedSectors, FatCopies, SectorsPerFat,
        RootDirEntries, ItemSize, NameLength, ExtLength, WordMod} \subseteq Nat \ {0}
    /\ (RootDirEntries * ItemSize) % SectorSize = 0

NULL == 0
EIO == -1

\* Bytes of directory entries. 0x20 is the space and the attribute of an
\* archived file; upper and lower case are not told apart.
NUL == "0x00"
SPACE == "0x20"
DELETED == "0xE5"
DOT == "."
SUBDIRECTORY == "0x10"
VOLUME_LABEL == "0x08"

ClusterBytes == SectorsPerCluster * SectorSize

\* A byte of the stack behind the sector's buffer.
Junk == -1

-----------------------------------------------------------------------------
(* The streamer *)

\* Each sector-sized piece is copied from the same offset into its sector's
\* buffer, the last bytes of it from behind the buffer.
diskstreamer_read(pos, total) ==
    [j \in 1..total |-> IF (pos % SectorSize) + ((j - 1) % SectorSize) < SectorSize
                        THEN pos + j - 1 ELSE Junk]

-----------------------------------------------------------------------------
(* Directory entries. The byte after the attribute is 0. *)

\* Up to the first space or NUL, wherever it is.
fat16_to_proper_string(in) ==
    SubSeq(in, 1, SelectInSeq(in, LAMBDA c : c \in {NUL, SPACE}) - 1)

\* Mutant: an entry without extension gets a dot all the same.
fat16_get_full_relative_filename_Dot(item) ==
    LET after == item.ext \o <<item.attribute, NUL>>
    IN  fat16_to_proper_string(item.filename \o after) \o <<DOT>>
           \o fat16_to_proper_string(after)

\* The bytes of an entry follow each other: a name that fills its field runs
\* into the extension, an extension that fills its field into the attribute.
fat16_get_full_relative_filename(item) ==
    LET after == item.ext \o <<item.attribute, NUL>>
    IN  fat16_to_proper_string(item.filename \o after)
           \o (IF item.ext[1] \in {NUL, SPACE} THEN <<>>
               ELSE <<DOT>> \o fat16_to_proper_string(after))

\* Where the end mark of a directory is.
EndMark(slots) == SelectInSeq(slots, LAMBDA item : item.filename[1] = NUL)

\* Deleted entries are not counted, though the search counts them.
fat16_get_total_items_for_directory(slots) ==
    Cardinality({i \in 1..(EndMark(slots) - 1) : slots[i].filename[1] # DELETED})

\* The loaded root directory ends after RootDirEntries entries, also when the
\* count went on behind them; what follows in its block is zero and names nothing.
Matches(slots, part) ==
    {i \in 1..fat16_get_total_items_for_directory(slots) :
        /\ i <= RootDirEntries
        /\ fat16_get_full_relative_filename(slots[i]) = part}

-----------------------------------------------------------------------------
(* Clusters *)

RootSector == FatCopies * SectorsPerFat + ReservedSectors
EndingSector == RootSector + (RootDirEntries * ItemSize) \div SectorSize

\* Mutant: clusters are counted from 0.
fat16_cluster_to_sector_FromZero(cluster) == EndingSector + cluster * SectorsPerCluster

fat16_cluster_to_sector(cluster) == EndingSector + (cluster - 2) * SectorsPerCluster

\* The word at a position: an entry of one of the tables, or any other word.
FatPosition == ReservedSectors * SectorSize
WordAt(volume, pos) ==
    LET entry == ((pos - FatPosition) % (SectorsPerFat * SectorSize)) \div 2
    IN  IF pos \in FatPosition .. (RootSector * SectorSize - 1)
        THEN volume.fat[entry] ELSE volume.other

\* The position is the product of the table's and the entry's.
fat16_get_fat_entry(volume, cluster) ==
    WordAt(volume, (FatPosition * (cluster * 2)) % WordMod)

\* Ends of file, bad and reserved, as the code has them, and unused.
NoCluster == {16 * 255 + 8, 16 * 255 + 15, 16 * 255 + 7, 16 * 255, 16 * 255 + 6, 0}

fat16_get_cluster_for_offset(volume, cluster, offset) ==
    LET next(c) == IF c < 0 THEN c
                   ELSE IF fat16_get_fat_entry(volume, c) \in NoCluster THEN EIO
                   ELSE fat16_get_fat_entry(volume, c)
        ahead[i \in 0..(offset \div ClusterBytes)] ==
           IF i = 0 THEN cluster ELSE next(ahead[i - 1])
    IN  ahead[offset \div ClusterBytes]

\* What has been read, and more of it.
Nothing == [res |-> 0, bytes |-> <<>>]

With(read, more) == IF read.res < 0 THEN read
                    ELSE [res |-> more.res, bytes |-> read.bytes \o more.bytes]

\* At most a cluster's worth of bytes, looked up from the first cluster again.
Piece(volume, cluster, at, total) ==
    LET use == fat16_get_cluster_for_offset(volume, cluster, at)
    IN  IF use < 0 THEN [res |-> EIO, bytes |-> <<>>]
        ELSE [res |-> 0,
              bytes |-> diskstreamer_read(
                 fat16_cluster_to_sector(use) * SectorSize + (at % ClusterBytes), total)]

\* Piece after piece.
fat16_read_internal(volume, cluster, offset, total) ==
    LET pieces == (total + ClusterBytes - 1) \div ClusterBytes
        read[k \in 0..pieces] ==
           IF k = 0 THEN Nothing
           ELSE LET done == (k - 1) * ClusterBytes
                IN  With(read[k - 1], Piece(volume, cluster, offset + done,
                                            Min({ClusterBytes, total - done})))
    IN  read[pieces]

\* A descriptor's position stays 0: every call reads from the start.
fat16_read(volume, item, size, nmemb) ==
    LET read[i \in 0..nmemb] ==
           IF i = 0 THEN Nothing
           ELSE With(read[i - 1],
                     fat16_read_internal(volume, item.cluster, (i - 1) * size, size))
    IN  read[nmemb]

-----------------------------------------------------------------------------
(* What the format says *)

\* A field without its padding.
Trimmed(field) ==
    SubSeq(field, 1, SelectLastInSeq(field, LAMBDA c : c \notin {NUL, SPACE}))

FormatName(item) == Trimmed(item.filename) \o
    (IF Trimmed(item.ext) = <<>> THEN <<>> ELSE <<DOT>> \o Trimmed(item.ext))

\* A name that some entry can have.
IsShortName(part) ==
    LET dot == SelectInSeq(Append(part, DOT), LAMBDA c : c = DOT)
    IN  dot - 1 <= NameLength /\ Len(part) - dot <= ExtLength

\* The entries of the root directory of that name.
Entries(slots, part) ==
    {i \in 1..Min({EndMark(slots) - 1, RootDirEntries}) :
        slots[i].filename[1] # DELETED /\ FormatName(slots[i]) = part}

\* A field is full and what follows it is read as more of it: the extension
\* behind a name, the attribute behind an extension.
RunsOn(item) ==
    \/ item.filename[NameLength] \notin {NUL, SPACE} /\ item.ext[1] \notin {NUL, SPACE}
    \/ item.ext[ExtLength] \notin {NUL, SPACE} /\ item.attribute \notin {NUL, SPACE}

\* The entries no search may lose: deleting entries costs as many at the end.
Safe(slots) ==
    LET last == EndMark(slots) - 1
        deleted == {i \in 1..last : slots[i].filename[1] = DELETED}
    IN  {i \in 1..(last - Cardinality(deleted)) : ~ RunsOn(slots[i])}

\* The clusters of the data area lie behind the root directory, from 2 on.
ClusterStart(cluster) ==
    (ReservedSectors + FatCopies * SectorsPerFat) * SectorSize
       + RootDirEntries * ItemSize + (cluster - 2) * SectorsPerCluster * SectorSize
==============================================================================
