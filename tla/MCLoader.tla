------------------------------- MODULE MCLoader -------------------------------
(* Words of 6 bits, offsets of 3, blocks of 8 words. Two programs with a block of
   relocations and with two; a file that is no program; one without relocations,
   one with a field of DIR32 and a list that fills its section, one longer than
   the buffer. The image base makes the low halves overflow. The heap has four
   blocks, so that the third image of two or three is longer than what is left,
   and another then finds the last block taken. *)
EXTENDS Loader

Base == 16 * 64 + 60
Entry(type, offset) == type * 8 + offset
Dword(v) == <<v % 64, v \div 64>>
Header(page, entries) == Dword(page) \o Dword(4 + entries)
Section(rva, raw, size) ==
    [VirtualAddress |-> rva, PointerToRawData |-> raw, SizeOfRawData |-> size]
Field(kind, rva, target) == [kind |-> kind, rva |-> rva, target |-> target]

\* The text section is at 2, the relocations at 6; the header takes 2 words.
Built(text, relocs, size, fields) ==
    [executable |-> TRUE, ImageBase |-> Base, SizeOfImage |-> size,
     reloc |-> 6, fields |-> fields, words |-> <<7, 7>> \o text \o relocs,
     sections |-> <<Section(2, 2, 4), Section(6, 6, Len(relocs))>>]

OneBlock == Built(<<5>> \o Dword(Base + 2) \o <<9>>,
                  Header(2, 2) \o <<Entry(HIGHLOW, 1), Entry(0, 0)>> \o Dword(0), 14,
                  {Field(HIGHLOW, 3, 2)})

TwoBlocks == Built(<<(Base + 2) % 64, (Base + 9) \div 64>> \o Dword(Base + 3),
                   Header(1, 1) \o <<Entry(LOW, 1)>>
                   \o Header(2, 2) \o <<Entry(HIGHLOW, 2), Entry(HIGH, 1)>> \o Dword(0), 20,
                   {Field(LOW, 2, 2), Field(HIGH, 3, 9), Field(HIGHLOW, 4, 3)})

Wide == Built(<<5>> \o Dword(Base + 2) \o <<9>>,
              Header(2, 2) \o <<Entry(DIR32, 1), Entry(0, 0)>> \o Dword(0), 14, {})

MCImage ==
    [one |-> OneBlock, two |-> TwoBlocks,
     text |-> [OneBlock EXCEPT !.executable = FALSE],
     stripped |-> [OneBlock EXCEPT !.reloc = 0],
     endless |-> [Wide EXCEPT !.sections = <<Section(2, 2, 4), Section(6, 6, 6)>>],
     long |-> [OneBlock EXCEPT !.sections = <<Section(2, 20, 4), Section(6, 6, 8)>>]]

MCFiles == DOMAIN MCImage
MCStale == {<<0, 0>>, <<Entry(HIGHLOW, 1), 0>>}

\* `one' and `two' are what the loader is made for; `text' is one of them that is
\* not marked as executable.
ASSUME CompleteAssumption == Complete = {"one", "two", "text"}
===============================================================================
