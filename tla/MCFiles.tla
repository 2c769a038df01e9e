------------------------------- MODULE MCFiles -------------------------------
(* Disks with sectors of 4 bytes, clusters of 2 sectors, names of 2 characters and
   extensions of 1. Each disk has what the driver may trip over: a deleted entry in
   front, a name that fills its field, a full root directory with more behind it, a
   label with the name of a file, a subdirectory whose entries fill more than a cluster,
   which can be read on some disks and not on others, a file of two clusters, another file
   system. *)
EXTENDS Files

Item(name, ext, attribute, cluster) ==
    [filename |-> name, ext |-> <<ext>>, attribute |-> attribute, cluster |-> cluster,
     entries |-> IF attribute = SUBDIRECTORY THEN 5 ELSE 0]

AT == Item(<<"a", SPACE>>, "t", SPACE, 2)
B == Item(<<"b", SPACE>>, SPACE, SPACE, 4)
ABT == Item(<<"a", "b">>, "t", SPACE, 5)
Dir == Item(<<"d", SPACE>>, SPACE, SUBDIRECTORY, 5)
Label == Item(<<"b", SPACE>>, SPACE, VOLUME_LABEL, 0)
Gone == Item(<<DELETED, SPACE>>, "t", SPACE, 3)
NoMore == Item(<<NUL, NUL>>, NUL, NUL, 0)

Fat == [c \in 0..7 |-> IF c = 2 THEN 3 ELSE 65535]

Disk(slots, other) ==
    [slots |-> Append(slots, NoMore), fat |-> Fat, other |-> other, signature |-> TRUE]

MCDisks ==
    {Disk(<<AT, Dir>>, 65535), Disk(<<Gone, AT, B>>, 0), Disk(<<ABT, B, Label>>, 4),
     Disk(<<AT, B, Dir, ABT, AT, Label>>, 4087),
     [Disk(<<AT>>, 5) EXCEPT !.signature = FALSE]}

Path(parts) == [valid |-> TRUE, drive |-> 0, parts |-> parts]

a_t == <<"a", DOT, "t">>

MCPaths ==
    {Path(<<>>), Path(<<a_t>>), Path(<<a_t, <<>>, <<"b">>>>), Path(<<a_t, <<"b">>>>),
     Path(<<<<"b">>>>), Path(<<<<"d">>>>), Path(<<<<"a", "b", DOT, "t">>>>),
     Path(<<<<"a", "b", "t", DOT, "t">>>>),
     [Path(<<a_t>>) EXCEPT !.drive = 1], [Path(<<a_t>>) EXCEPT !.valid = FALSE]}

\* The hypotheses of the theorems about names.
ASSUME FormatAssumption == DisksAreFormatted /\ PathsAreText

MCModes == {"r", "w"}
==============================================================================
