-------------------------------- MODULE Gdt --------------------------------
(***************************************************************************)
(* The segment descriptors kernel_main builds at boot: how ke/gdt/gdt.c    *)
(* packs a base of 32 bits, a limit and a type into eight bytes, and how   *)
(* the processor reads them back.                                          *)
(***************************************************************************)
EXTENDS Integers

Byte == 0..255

\* The values of uint32_t.
Word == {n \in Nat : n < 4294967296}

\* An entry of gdt_structured.
Structured == [base : Word, limit : Word, type : Byte]

\* Limits beyond 65536 are counted in pages.
InPages(limit) == limit > 65536

\* encodeGdtEntry does not call KeBugCheck(KMODE_GDTFAIL).
Accepted(source) == InPages(source.limit) => source.limit % 4096 = 4095

Flags(source) == IF InPages(source.limit) THEN 192 ELSE 64

\* The limit in its unit.
Units(source) ==
    IF InPages(source.limit) THEN source.limit \div 4096 ELSE source.limit

\* The eight bytes, target[0] being the first; the flags' low half takes the
\* limit's bits 16 to 19.
encodeGdtEntry(source) ==
    LET limit == Units(source)
        base == source.base
    IN  <<limit % 256, (limit \div 256) % 256,
          base % 256, (base \div 256) % 256, (base \div 65536) % 256,
          source.type,
          Flags(source) + ((limit \div 65536) % 16),
          (base \div 16777216) % 256>>

\* What the processor takes from a descriptor.
LimitField(target) == target[1] + 256 * target[2] + 65536 * (target[7] % 16)

Decode(target) ==
    [base |-> target[3] + 256 * target[4] + 65536 * target[5] + 16777216 * target[8],
     limit |-> IF target[7] >= 128 THEN 4096 * LimitField(target) + 4095
               ELSE LimitField(target),
     type |-> target[6]]
=============================================================================
