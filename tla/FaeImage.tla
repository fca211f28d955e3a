------------------------------ MODULE FaeImage -------------------------------
(***************************************************************************)
(* The pure part of fae_utils/build_fae.py: from what it extracts of an    *)
(* ELF file to the bytes of the FAE file.                                  *)
(*                                                                         *)
(* An elf is a record of                                                   *)
(*   crt0     the bytes of crt0.fae, embedded in front,                    *)
(*   rel      the r_offset values of section .rel.rom.ram, in order,       *)
(*   rom, got, rom_ram   the bytes of the three sections of the partition, *)
(*   ram_size the value of __ram_size (no bytes in the file),              *)
(*   start    the value of symbol start, an offset in .rom,                *)
(*   magic    the format version of the build_fae.py that is run.          *)
(* The linker script, outside of the repository, lays the sections out in  *)
(* the order .rom, .got, .rom.ram from offset zero and defines __rom_size, *)
(* __got_size and __rom_ram_size as their sizes: crt0.c and the gdbinit    *)
(* file written by build_fae.py both rely on that order.                   *)
(***************************************************************************)
EXTENDS FaeFormat

(* The bits that two numbers have in common.                               *)
And[y \in Nat] ==
  [x \in Nat |->
     IF x = 0 \/ y = 0 THEN 0
                       ELSE 2 * And[y \div 2][x \div 2] + (x % 2) * (y % 2)]

(* The round() of the tool, a mask: it rounds up to a multiple of y where  *)
(* y is a power of two, and leaves other bits than the low ones elsewhere. *)
RoundBits(x, y) == (x + y - 1) - And[y - 1][x + y - 1]

(* Output of objcopy on the partition: the sections in address order.      *)
export_partition(elf) == elf.rom \o elf.got \o elf.rom_ram

(* The bytes of a sequence of words.                                       *)
Concat(words) ==
  [i \in 1 .. (WORD_BYTESIZE * Len(words)) |->
     to_word(words[((i - 1) \div WORD_BYTESIZE) + 1])
            [((i - 1) % WORD_BYTESIZE) + 1]]

(* The entry count, then one word for each relocation.                     *)
export_relocation_table(elf) == to_word(Len(elf.rel)) \o Concat(elf.rel)

(* CRT0, the binary size word and the relocation table.                    *)
compute_header_size(elf) ==
  Len(elf.crt0) + WORD_BYTESIZE + Len(export_relocation_table(elf))

(* A padding of two alignments behind the header, when the option is used. *)
MutTextAlignmentOffByOne(elf, align_text) ==
  IF align_text = 0
    THEN 0
    ELSE RoundBits(compute_header_size(elf), align_text)
           - compute_header_size(elf) + 1

(* The number of zero bytes that bring .rom to where the option wants it.  *)
compute_text_alignment(elf, align_text) ==
  IF align_text = 0
    THEN 0
    ELSE RoundBits(compute_header_size(elf), align_text)
           - compute_header_size(elf)

(* Forgets the padding.                                                    *)
MutMetadataSizeUnpadded(elf, align_text) == compute_header_size(elf)

(* What is in front of the partition.                                      *)
metadata_size(elf, align_text) ==
  compute_header_size(elf) + compute_text_alignment(elf, align_text)

(* The places of sections that gdbinit gives: those of text, got, data and *)
(* flash_end from the address of the file in flash, the others from where  *)
(* the RAM begins.                                                         *)
generate_gdbinit(elf, align_text) ==
  LET text == metadata_size(elf, align_text)
      got  == text + Len(elf.rom)
      data == got + Len(elf.got)
      bss  == Len(elf.got) + Len(elf.rom_ram)
  IN  [text |-> text, got |-> got, data |-> data,
       flash_end |-> data + Len(elf.rom_ram),
       rel_got |-> 0, rel_data |-> Len(elf.got), bss |-> bss,
       ram_end |-> bss + elf.ram_size]

(* Bytes of 0xff between the partition and the footer: the shortest filler *)
(* that makes room for the footer in a multiple of the MPU alignment.      *)
padding_size(raw_binary_size) ==
  LET gap == RoundBits(raw_binary_size, PADDING_MPU_ALIGNMENT) - raw_binary_size
  IN  IF gap < FOOTER_BYTESIZE
        THEN gap + PADDING_MPU_ALIGNMENT - FOOTER_BYTESIZE
        ELSE gap - FOOTER_BYTESIZE

(* The value of the binary size word.                                      *)
binary_size_of(raw_binary_size) ==
  raw_binary_size + padding_size(raw_binary_size) + FOOTER_BYTESIZE

Filler(n, byte) == [i \in 1 .. n |-> byte]

(* The whole file.                                                         *)
concatenate_and_pad(elf, align_text) ==
  LET padding_text == compute_text_alignment(elf, align_text)
      partition    == export_partition(elf)
      raw_binary_size ==
        compute_header_size(elf) + padding_text + Len(partition)
  IN  elf.crt0
        \o to_word(binary_size_of(raw_binary_size))
        \o export_relocation_table(elf)
        \o Filler(padding_text, TEXT_ALIGNMENT_PADDING_VALUE)
        \o partition
        \o Filler(padding_size(raw_binary_size), PADDING_VALUE)
        \o to_word(elf.ram_size)
        \o to_word(Len(elf.got))
        \o to_word(Len(elf.rom))
        \o to_word(Len(elf.rom_ram))
        \o to_word(elf.start)
        \o to_word(Len(elf.crt0))
        \o to_word(elf.magic)
=============================================================================
