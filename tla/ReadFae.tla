------------------------------ MODULE ReadFae --------------------------------
(***************************************************************************)
(* The tool that inspects a FAE file: the main program of                  *)
(* fae_utils/read_fae.py.                                                  *)
(*                                                                         *)
(* It walks the file from front to end, with the sizes it finds in the     *)
(* footer, shows where each part is, and dumps or disassembles the parts   *)
(* asked for.  It ends by judging the file sound, by reporting what is     *)
(* wrong, or by an exception of Python that nothing catches.               *)
(***************************************************************************)
EXTENDS FaeFormat

CONSTANTS
  Files,      (* The files to read: records of                             *)
              (*   bytes       the contents,                               *)
              (*   built       whether build_fae.py wrote them as they are,*)
              (*   metadataOff the link-time value of __metadataOff,       *)
              (*   elf         what the file was built from,               *)
              (*   partition   where build_fae.py put the partition.       *)
              (* The tool reads the first, the properties the others.      *)
  Arguments,  (* the sequences of arguments that it is run with            *)
  Names       (* arguments that do not start with a dash                   *)

ASSUME ReadFilesAssumption ==
  \A f \in Files : f.bytes \in Seq(Byte) /\ f.built \in BOOLEAN

VARIABLES
  file,       (* the file                                                  *)
  argv,       (* the arguments                                             *)
  options,    (* the options                                               *)
  pc,         (* the part to read next, or how the program ended           *)
  iterator,   (* the position in the file                                  *)
  rom_end,    (* the last byte of .rom, once assigned                      *)
  offset_to_partition,  (* as printed                                      *)
  shown       (* the chunks shown, in order                                *)

vars == << file, argv, options, pc, iterator, rom_end, offset_to_partition, shown >>

None == -1

MINIMAL_BYTESIZE == 2 * WORD_BYTESIZE + FOOTER_BYTESIZE

Ends == {"ok", "invalid", "failed", "raised", "usage"}

-----------------------------------------------------------------------------
(***************************************************************************)
(* The file.  A slice is clipped at the end of the file, and the word of   *)
(* fewer than four bytes is that of the bytes there are.                   *)
(***************************************************************************)
binary_size == Len(file.bytes)

WordAt(i) ==
  LET byte(j) == IF j + 1 \in 1 .. binary_size THEN file.bytes[j + 1] ELSE 0
  IN  from_bytes(byte(i), byte(i + 1), byte(i + 2), byte(i + 3))

Footer(offset) == WordAt(binary_size + offset)

crt0_size    == Footer(FOOTER_CRT0_OFFSET)
entrypoint   == Footer(FOOTER_ENTRYPOINT_OFFSET)
rom_ram_size == Footer(FOOTER_ROM_RAM_SIZE_OFFSET)
rom_size     == Footer(FOOTER_ROM_SIZE_OFFSET)
got_size     == Footer(FOOTER_GOT_SIZE_OFFSET)

relocation_entries_start == crt0_size + WORD_BYTESIZE
relocation_entries_size == WORD_BYTESIZE * WordAt(relocation_entries_start)

TooLarge(value) == value >= binary_size

(***************************************************************************)
(* What is shown of the bytes from start on: the range, and the lines of   *)
(* the hexdump, as their offset and number of bytes.                       *)
(***************************************************************************)
Sliced(start, size) ==
  IF start >= binary_size        THEN 0 ELSE
  IF start + size >= binary_size THEN binary_size - start ELSE size

HexdumpLines(size) ==
  LET blocks    == size \div 16
      remaining == size % 16
      last      == IF blocks = 0 THEN 0 ELSE 16 * (blocks - 1)
  IN  [i \in 1 .. blocks |-> << 16 * (i - 1), 16 >>]
        \o (IF remaining = 0 THEN << >> ELSE << << last, remaining >> >>)

Chunk(name, start, size, hex) ==
  [name |-> name, start |-> start, end |-> start + size - 1,
   lines |-> IF hex \in options THEN HexdumpLines(Sliced(start, size))
                                ELSE << >>]

(* Shows sections of no bytes, too.                                        *)
MutShowEmpty(name, start, size, hex) ==
  shown' = Append(shown, Chunk(name, start, size, hex))

Show(name, start, size, hex) ==
  shown' = IF size > 0 THEN Append(shown, Chunk(name, start, size, hex))
                       ELSE shown

-----------------------------------------------------------------------------
(***************************************************************************)
(* The command line: options, then the name of the file.                   *)
(***************************************************************************)
CLI_OPTION_VERBOSE == "-v"

CLI_OPTIONS ==
  {"--Dcrt0", "--Hcrt0", "--Hreloc", "--Hromram", "--Drom", "--Hrom", "--Hgot",
   CLI_OPTION_VERBOSE}

Given == {argv[i] : i \in 1 .. (Len(argv) - 1)}

(* The verbose option stands for all the others.                           *)
ParseOptions ==
  /\ pc = "arguments"
  /\ IF argv # << >> /\ argv[Len(argv)] \in Names /\ Given \subseteq CLI_OPTIONS
       THEN /\ options' = (IF CLI_OPTION_VERBOSE \in Given THEN CLI_OPTIONS
                                                          ELSE Given)
                            \ {CLI_OPTION_VERBOSE}
            /\ pc' = "file"
       ELSE /\ pc' = "usage"
            /\ UNCHANGED options
  /\ UNCHANGED << file, argv, iterator, rom_end, offset_to_partition, shown >>

-----------------------------------------------------------------------------
(***************************************************************************)
(* The parts of the file.                                                  *)
(***************************************************************************)

(* Does not look at the version.                                           *)
MutIsFaeAnyVersion ==
  /\ binary_size > MINIMAL_BYTESIZE
  /\ crt0_size # 0 /\ ~TooLarge(crt0_size)

IsFae ==
  /\ binary_size > MINIMAL_BYTESIZE
  /\ Footer(FOOTER_MAGIC_NUMBER_AND_VERSION_OFFSET) = MAGIC_NUMBER_AND_VERSION
  /\ crt0_size # 0 /\ ~TooLarge(crt0_size)

(* The size of the file, its version and the size of CRT0.                 *)
CheckFile ==
  /\ pc = "file"
  /\ pc' = IF IsFae THEN "crt0" ELSE "invalid"
  /\ UNCHANGED << file, argv, options, iterator, rom_end, offset_to_partition, shown >>

(* objdump, an external program, may fail when it is called.               *)
Disassembled(option, next) ==
  \/ pc' = next
  \/ option \in options /\ pc' = "failed"

ShowCrt0 ==
  /\ pc = "crt0"
  /\ Show("CRT0", 0, crt0_size, "--Hcrt0")
  /\ Disassembled("--Dcrt0", "binary_size")
  /\ UNCHANGED << file, argv, options, iterator, rom_end, offset_to_partition >>

CheckBinarySize ==
  /\ pc = "binary_size"
  /\ pc' = IF WordAt(crt0_size) = binary_size THEN "relocations" ELSE "invalid"
  /\ UNCHANGED << file, argv, options, iterator, rom_end, offset_to_partition, shown >>

(* Behind the relocation table.  The table is shown from its entry count.  *)
ShowRelocations ==
  /\ pc = "relocations"
  /\ \/ /\ TooLarge(relocation_entries_size)
        /\ pc' = "invalid"
        /\ UNCHANGED << iterator, shown >>
     \/ /\ ~TooLarge(relocation_entries_size)
        /\ Show("Relocation entries", relocation_entries_start,
                relocation_entries_size, "--Hreloc")
        /\ iterator' = relocation_entries_start + WORD_BYTESIZE
                         + relocation_entries_size
        /\ pc' = "text_alignment"
  /\ UNCHANGED << file, argv, options, rom_end, offset_to_partition >>

(* Never moves over the padding.                                           *)
MutPastPaddingStuck == iterator

PastPadding == iterator + 1

(* One round of the loop over the padding; an index out of range raises.   *)
SkipTextAlignment ==
  /\ pc = "text_alignment"
  /\ \/ /\ iterator >= binary_size
        /\ pc' = "raised"
        /\ UNCHANGED << iterator, offset_to_partition >>
     \/ /\ iterator < binary_size
        /\ file.bytes[iterator + 1] = TEXT_ALIGNMENT_PADDING_VALUE
        /\ iterator' = PastPadding
        /\ UNCHANGED << pc, offset_to_partition >>
     \/ /\ iterator < binary_size
        /\ file.bytes[iterator + 1] # TEXT_ALIGNMENT_PADDING_VALUE
        /\ offset_to_partition' = iterator
        /\ pc' = "entrypoint"
        /\ UNCHANGED iterator
  /\ UNCHANGED << file, argv, options, rom_end, shown >>

CheckEntrypoint ==
  /\ pc = "entrypoint"
  /\ pc' = IF TooLarge(entrypoint) THEN "invalid" ELSE "rom_ram"
  /\ UNCHANGED << file, argv, options, iterator, rom_end, offset_to_partition, shown >>

(* The three sections of the partition, .rom.ram first.                    *)
ShowRomRam ==
  /\ pc = "rom_ram"
  /\ \/ /\ TooLarge(rom_ram_size)
        /\ pc' = "invalid"
        /\ UNCHANGED << iterator, shown >>
     \/ /\ ~TooLarge(rom_ram_size)
        /\ Show(".rom.ram", iterator, rom_ram_size, "--Hromram")
        /\ iterator' = iterator + rom_ram_size
        /\ pc' = "rom"
  /\ UNCHANGED << file, argv, options, rom_end, offset_to_partition >>

(* Refuses an entry point in the last word of .rom.                        *)
MutEntrypointInRomTight == entrypoint + WORD_BYTESIZE < rom_size

EntrypointInRom == entrypoint <= rom_size

ShowRom ==
  /\ pc = "rom"
  /\ \/ /\ TooLarge(rom_size)
        /\ pc' = "invalid"
        /\ UNCHANGED << iterator, rom_end, shown >>
     \/ /\ ~TooLarge(rom_size)
        /\ Show(".rom", iterator, rom_size, "--Hrom")
        /\ \/ /\ rom_size > 0
              /\ rom_end' = iterator + rom_size - 1
              /\ iterator' = iterator + rom_size
              /\ Disassembled("--Drom",
                              IF EntrypointInRom THEN "got" ELSE "invalid")
           \/ /\ rom_size = 0
              /\ pc' = "got"
              /\ UNCHANGED << iterator, rom_end >>
  /\ UNCHANGED << file, argv, options, offset_to_partition >>

(* The start of .got.                                                      *)
MutGotStartAtRomEnd == rom_end

got_start == rom_end + 1

(* Behind .rom, whose end is not assigned when it has no bytes.            *)
ShowGot ==
  /\ pc = "got"
  /\ \/ /\ TooLarge(got_size)
        /\ pc' = "invalid"
        /\ UNCHANGED shown
     \/ /\ ~TooLarge(got_size)
        /\ rom_end # None
        /\ Show(".got", got_start, got_size, "--Hgot")
        /\ pc' = "ram"
     \/ /\ ~TooLarge(got_size)
        /\ rom_end = None
        /\ pc' = "raised"
        /\ UNCHANGED shown
  /\ UNCHANGED << file, argv, options, iterator, rom_end, offset_to_partition >>

(* Shows the size of .ram and judges the file sound.                       *)
ShowRam ==
  /\ pc = "ram"
  /\ pc' = "ok"
  /\ UNCHANGED << file, argv, options, iterator, rom_end, offset_to_partition, shown >>

-----------------------------------------------------------------------------
Init ==
  /\ file \in Files
  /\ argv \in Arguments
  /\ options = {}
  /\ pc = "arguments"
  /\ iterator = 0
  /\ rom_end = None
  /\ offset_to_partition = None
  /\ shown = << >>

Next ==
  \/ ParseOptions
  \/ CheckFile
  \/ ShowCrt0
  \/ CheckBinarySize
  \/ ShowRelocations
  \/ SkipTextAlignment
  \/ CheckEntrypoint
  \/ ShowRomRam
  \/ ShowRom
  \/ ShowGot
  \/ ShowRam

(* The interpreter keeps executing the program.                            *)
Spec == Init /\ [][Next]_vars /\ WF_vars(Next)

-----------------------------------------------------------------------------
(***************************************************************************)
(* Properties.                                                             *)
(***************************************************************************)

(* The types of the variables.  A chunk that is shown has bytes.           *)
TypeOK ==
  /\ options \subseteq CLI_OPTIONS \ {CLI_OPTION_VERBOSE}
  /\ pc \in Ends \cup {"arguments", "file", "crt0", "binary_size",
                       "relocations", "text_alignment", "entrypoint",
                       "rom_ram", "rom", "got", "ram"}
  /\ iterator \in Nat
  /\ rom_end \in Nat \cup {None}
  /\ offset_to_partition \in Nat \cup {None}
  /\ \A i \in 1 .. Len(shown) :
       shown[i].start \in Nat /\ shown[i].end - shown[i].start \in Nat

(* What build_fae.py writes, read_fae.py accepts: no check refuses it, and *)
(* no step raises, whatever the sizes of its parts and the options.        *)
AcceptsBuilt == file.built => pc \notin {"invalid", "raised"}

(* The sections shown of a file that build_fae.py wrote follow each other, *)
(* in an order of their own, and are together the partition: no byte of it *)
(* is left out or shown twice, and none is shown from outside of it.       *)
Sections == {".rom.ram", ".rom", ".got"}

Tiled(chunks, from, to) ==
  LET sections == {i \in 1 .. Len(chunks) : chunks[i].name \in Sections}
  IN  /\ \A i, j \in sections : i < j => chunks[i].end < chunks[j].start
      /\ UNION {chunks[i].start .. chunks[i].end : i \in sections}
           = from .. (to - 1)

PartitionSize ==
  Len(file.elf.rom) + Len(file.elf.got) + Len(file.elf.rom_ram)

SectionsTilePartition ==
  file.built /\ pc = "ok" =>
    /\ offset_to_partition = file.partition
    /\ Tiled(shown, file.partition, file.partition + PartitionSize)

(* The loader can rely on a file that is judged sound, damaged or not: the *)
(* footer is where the metadata says, it has the version of the loader,    *)
(* and the loader finds the partition at the offset shown.                 *)
LoaderPartition ==
  LET table_end == file.metadataOff + 2 * WORD_BYTESIZE
                     + WORD_BYTESIZE * WordAt(file.metadataOff + WORD_BYTESIZE)
  IN  CHOOSE i \in table_end .. (binary_size - 1) :
        /\ file.bytes[i + 1] # TEXT_ALIGNMENT_PADDING_VALUE
        /\ \A j \in table_end .. (i - 1) :
             file.bytes[j + 1] = TEXT_ALIGNMENT_PADDING_VALUE

SoundForLoader ==
  pc = "ok" =>
    /\ WordAt(file.metadataOff) = binary_size
    /\ Footer(FOOTER_MAGIC_NUMBER_AND_VERSION_OFFSET)
         = MAGIC_NUMBER_AND_VERSION
    /\ offset_to_partition = LoaderPartition

(* The tool ends, whatever is in the file: the loop over the padding stops *)
(* at the end of the file at the latest.                                   *)
Terminates == <>(pc \in Ends)

(***************************************************************************)
(* What the documentation says of the tool.                                *)
(***************************************************************************)

(* Each line of a hexdump begins where the line before it ends, so that    *)
(* all bytes are displayed, and none twice.                                *)
HexdumpLinesFollow ==
  \A i \in 1 .. Len(shown) :
    LET lines == shown[i].lines
    IN  \A k \in 1 .. (Len(lines) - 1) :
          lines[k + 1][1] = lines[k][1] + lines[k][2]

(* What is shown as the relocation table are its entries.                  *)
ShowsRelocations ==
  file.built =>
    \A i \in 1 .. Len(shown) :
      shown[i].name = "Relocation entries" =>
        \A k \in 1 .. Len(file.elf.rel) :
          WordAt(shown[i].start + WORD_BYTESIZE * (k - 1)) = file.elf.rel[k]

(* What is shown as .rom are the bytes of section .rom.                    *)
ShowsRomAsRom ==
  file.built =>
    \A i \in 1 .. Len(shown) :
      shown[i].name = ".rom" =>
        SubSeq(file.bytes, shown[i].start + 1, shown[i].end + 1) = file.elf.rom

(* A file is not sound when its sections reach into its footer.            *)
RefusesMalformed ==
  pc = "ok" =>
    \A i \in 1 .. Len(shown) : shown[i].end < binary_size - FOOTER_BYTESIZE
=============================================================================
