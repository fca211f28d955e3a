---------------------------- MODULE ReadFaeProofs ----------------------------
(***************************************************************************)
(* Proofs about the inspection tool, for every set of files, every set of  *)
(* argument lists and every base of a byte:                                *)
(*                                                                         *)
(*   TypeCorrect   every reachable state is well typed,                    *)
(*   SoundIsSound  a file that is judged sound is one the loader accepts;  *)
(*                                                                         *)
(* and, for files that build_fae.py wrote, by what ImageProofs says of     *)
(* their layout:                                                           *)
(*                                                                         *)
(*   BuiltIsAccepted  such a file is never judged malformed,               *)
(*   BuiltIsTiled     the sections shown tile its partition.               *)
(***************************************************************************)
EXTENDS ReadFae, ImageProofs

-----------------------------------------------------------------------------
(***************************************************************************)
(* Types.                                                                  *)
(***************************************************************************)

(* The chunks that may be shown have bytes.                                *)
Dumps == {HexdumpLines(n) : n \in Nat} \cup {<< >>}

SectionNames == {"CRT0", "Relocation entries", ".rom.ram", ".rom", ".got"}

ShownChunks ==
  {c \in [name : SectionNames, start : Nat, end : Int, lines : Dumps] :
     c.start <= c.end}

(* TypeOK, with what makes it inductive.                                   *)
TInv ==
  /\ file \in Files
  /\ options \subseteq CLI_OPTIONS \ {CLI_OPTION_VERBOSE}
  /\ pc \in Ends \cup {"arguments", "file", "crt0", "binary_size",
                       "relocations", "text_alignment", "entrypoint",
                       "rom_ram", "rom", "got", "ram"}
  /\ iterator \in Nat
  /\ rom_end \in Nat \cup {None}
  /\ offset_to_partition \in Nat \cup {None}
  /\ shown \in Seq(ShownChunks)

(* A word of the file is a word, wherever it is read.                      *)
LEMMA WordAtType ==
  ASSUME file \in Files, NEW i \in Int
  PROVE  WordAt(i) \in Word
<1> DEFINE byte(j) == IF j + 1 \in 1 .. binary_size THEN file.bytes[j + 1] ELSE 0
<1>1. \A j \in Int : byte(j) \in Byte
  <2>1. file.bytes \in Seq(Byte)
    BY ReadFilesAssumption
  <2>2. 0 \in Byte
    BY ByteBaseAssumption DEF Byte
  <2> QED
    BY <2>1, <2>2 DEF binary_size
<1>2. byte(i) \in Byte /\ byte(i + 1) \in Byte /\ byte(i + 2) \in Byte
        /\ byte(i + 3) \in Byte
  BY <1>1
<1> HIDE DEF byte
<1>3. from_bytes(byte(i), byte(i + 1), byte(i + 2), byte(i + 3)) \in Word
  BY <1>2, FromBytesType
<1> QED
  BY <1>3 DEF WordAt, byte

(* The sizes that the tool reads are natural numbers.                      *)
LEMMA ReadTypes ==
  ASSUME file \in Files
  PROVE  /\ binary_size \in Nat
         /\ crt0_size \in Nat /\ entrypoint \in Nat /\ rom_ram_size \in Nat
         /\ rom_size \in Nat /\ got_size \in Nat
         /\ relocation_entries_start \in Nat
         /\ relocation_entries_size \in Nat
<1>1. binary_size \in Nat
  BY ReadFilesAssumption DEF binary_size
<1>2. \A i \in Int : WordAt(i) \in Nat
  BY WordAtType, WordModFacts DEF Word
<1>3. \A k \in Int : Footer(k) \in Nat
  BY <1>1, <1>2 DEF Footer
<1>4. /\ crt0_size \in Nat /\ entrypoint \in Nat /\ rom_ram_size \in Nat
      /\ rom_size \in Nat /\ got_size \in Nat
  BY <1>3 DEF crt0_size, entrypoint, rom_ram_size, rom_size, got_size,
     FOOTER_CRT0_OFFSET, FOOTER_ENTRYPOINT_OFFSET, FOOTER_ROM_RAM_SIZE_OFFSET,
     FOOTER_ROM_SIZE_OFFSET, FOOTER_GOT_SIZE_OFFSET
<1>5. relocation_entries_start \in Nat
  BY <1>4 DEF relocation_entries_start, WORD_BYTESIZE
<1>6. WordAt(relocation_entries_start) \in Nat
  BY <1>2, <1>5
<1> QED
  BY <1>1, <1>4, <1>5, <1>6 DEF relocation_entries_size, WORD_BYTESIZE

(* A chunk with bytes is one that may be shown.                            *)
LEMMA ChunkType ==
  ASSUME TInv, NEW name \in SectionNames, NEW start \in Nat, NEW size \in Nat, NEW hex,
         size > 0
  PROVE  Chunk(name, start, size, hex) \in ShownChunks
<1>1. Sliced(start, size) \in Nat
  BY ReadTypes DEF Sliced, TInv
<1> DEFINE l == IF hex \in options THEN HexdumpLines(Sliced(start, size)) ELSE << >>
<1>2. l \in Dumps
  BY <1>1 DEF Dumps
<1> HIDE DEF l
<1>3. [name |-> name, start |-> start, end |-> start + size - 1, lines |-> l]
        \in ShownChunks
  BY <1>2 DEF ShownChunks
<1> QED
  BY <1>3 DEF Chunk, l

(* What is shown stays a sequence of chunks with bytes.                    *)
LEMMA ShowType ==
  ASSUME TInv, NEW name \in SectionNames, NEW start \in Nat, NEW size \in Nat, NEW hex
  PROVE  Show(name, start, size, hex) => shown' \in Seq(ShownChunks)
BY ChunkType DEF Show, TInv

(* The initial state is well typed.                                        *)
LEMMA InitType == Init => TInv
BY DEF Init, TInv, None

(* Every step keeps the types.                                             *)
LEMMA StepType == TInv /\ [Next]_vars => TInv'
<1> SUFFICES ASSUME TInv, [Next]_vars
             PROVE  TInv'
  OBVIOUS
<1>0. file \in Files
  BY DEF TInv
<1>i. iterator \in Nat /\ shown \in Seq(ShownChunks)
  BY DEF TInv
<1>t. /\ binary_size \in Nat
      /\ crt0_size \in Nat /\ entrypoint \in Nat /\ rom_ram_size \in Nat
      /\ rom_size \in Nat /\ got_size \in Nat
      /\ relocation_entries_start \in Nat
      /\ relocation_entries_size \in Nat
  BY <1>0, ReadTypes
<1>1. CASE ParseOptions
  <2>1. options' \subseteq CLI_OPTIONS \ {CLI_OPTION_VERBOSE}
    BY <1>1 DEF TInv, ParseOptions
  <2> QED
    BY <1>1, <2>1 DEF TInv, ParseOptions, Ends
<1>2. CASE CheckFile
  BY <1>2 DEF TInv, CheckFile, Ends
<1>3. CASE ShowCrt0
  <2>1. shown' \in Seq(ShownChunks)
    <3>1. Show("CRT0", 0, crt0_size, "--Hcrt0")
            => shown' \in Seq(ShownChunks)
      BY <1>t, <1>i, ShowType DEF SectionNames
    <3> QED
      BY <1>3, <3>1 DEF ShowCrt0, TInv
  <2> QED
    BY <1>3, <2>1 DEF TInv, ShowCrt0, Disassembled, Ends
<1>4. CASE CheckBinarySize
  BY <1>4 DEF TInv, CheckBinarySize, Ends
<1>5. CASE ShowRelocations
  <2>1. shown' \in Seq(ShownChunks)
    <3>1. Show("Relocation entries", relocation_entries_start, relocation_entries_size, "--Hreloc")
            => shown' \in Seq(ShownChunks)
      BY <1>t, <1>i, ShowType DEF SectionNames
    <3> QED
      BY <1>5, <3>1 DEF ShowRelocations, TInv
  <2>2. iterator' \in Nat
    <3>1. relocation_entries_start + WORD_BYTESIZE + relocation_entries_size \in Nat
      BY <1>t DEF WORD_BYTESIZE
    <3> HIDE DEF WORD_BYTESIZE
    <3> QED
      BY <1>5, <1>i, <3>1 DEF ShowRelocations
  <2> QED
    BY <1>5, <2>1, <2>2 DEF TInv, ShowRelocations, Ends
<1>6. CASE SkipTextAlignment
  BY <1>6 DEF TInv, SkipTextAlignment, PastPadding, Ends
<1>7. CASE CheckEntrypoint
  BY <1>7 DEF TInv, CheckEntrypoint, Ends
<1>8. CASE ShowRomRam
  <2>1. shown' \in Seq(ShownChunks)
    <3>1. Show(".rom.ram", iterator, rom_ram_size, "--Hromram")
            => shown' \in Seq(ShownChunks)
      BY <1>t, <1>i, ShowType DEF SectionNames
    <3> QED
      BY <1>8, <3>1 DEF ShowRomRam, TInv
  <2> QED
    BY <1>t, <1>8, <2>1 DEF TInv, ShowRomRam, Ends
<1>9. CASE ShowRom
  <2>1. shown' \in Seq(ShownChunks)
    <3>1. Show(".rom", iterator, rom_size, "--Hrom")
            => shown' \in Seq(ShownChunks)
      BY <1>t, <1>i, ShowType DEF SectionNames
    <3> QED
      BY <1>9, <3>1 DEF ShowRom, TInv
  <2>2. iterator' \in Nat /\ rom_end' \in Nat \cup {None}
    BY <1>t, <1>9 DEF TInv, ShowRom
  <2> QED
    BY <1>9, <2>1, <2>2 DEF TInv, ShowRom, Disassembled, Ends
<1>10. CASE ShowGot
  <2>1. ASSUME rom_end # None
        PROVE  got_start \in Nat
    BY <2>1 DEF got_start, TInv
  <2>2. shown' \in Seq(ShownChunks)
    <3>1. ASSUME rom_end # None
          PROVE  Show(".got", got_start, got_size, "--Hgot")
                   => shown' \in Seq(ShownChunks)
      BY <1>t, <2>1, <3>1, ShowType DEF SectionNames
    <3> QED
      BY <1>10, <3>1 DEF ShowGot, TInv
  <2> QED
    BY <1>10, <2>2 DEF TInv, ShowGot, Ends
<1>11. CASE ShowRam
  BY <1>11 DEF TInv, ShowRam, Ends
<1>12. CASE UNCHANGED vars
  BY <1>12 DEF TInv, vars
<1> QED
  BY <1>1, <1>2, <1>3, <1>4, <1>5, <1>6, <1>7, <1>8, <1>9, <1>10, <1>11, <1>12
     DEF Next

(* The invariant has the type invariant of the tool as a consequence.      *)
LEMMA TypesSuffice == TInv => TypeOK
<1> SUFFICES ASSUME TInv
             PROVE  \A i \in 1 .. Len(shown) :
                      shown[i].start \in Nat /\ shown[i].end - shown[i].start \in Nat
  BY DEF TInv, TypeOK
<1>1. TAKE i \in 1 .. Len(shown)
<1>2. shown[i] \in ShownChunks
  BY <1>1 DEF TInv
<1> QED
  BY <1>2 DEF ShownChunks

(* The state of read_fae.py is well typed at each step, and what it shows  *)
(* of a file, damaged or not, are chunks of at least one byte.             *)
THEOREM TypeCorrect == Spec => []TypeOK
<1>1. Init => TInv
  BY InitType
<1>2. TInv /\ [Next]_vars => TInv'
  BY StepType
<1>3. TInv => TypeOK
  BY TypesSuffice
<1> QED
  BY <1>1, <1>2, <1>3, PTL DEF Spec

-----------------------------------------------------------------------------
(***************************************************************************)
(* What is judged sound.                                                   *)
(***************************************************************************)

(* Where the relocation table ends, as the tool reads it.                  *)
TableEnd == relocation_entries_start + WORD_BYTESIZE + relocation_entries_size

(* The bytes from the end of the table to position n are padding.          *)
PaddingUpTo(n) ==
  /\ TableEnd <= n
  /\ \A j \in TableEnd .. (n - 1) : file.bytes[j + 1] = TEXT_ALIGNMENT_PADDING_VALUE

(* The partition begins at the first byte behind the table that is not     *)
(* padding.                                                                *)
PartitionAt(n) ==
  /\ n \in TableEnd .. (binary_size - 1)
  /\ file.bytes[n + 1] # TEXT_ALIGNMENT_PADDING_VALUE
  /\ PaddingUpTo(n)

PastPartition == {"entrypoint", "rom_ram", "rom", "got", "ram", "ok"}

PastSize == {"relocations", "text_alignment"} \cup PastPartition

PastFile == {"crt0", "binary_size"} \cup PastSize

(* What the checks that were passed established stays.                     *)
SoundInv ==
  /\ pc \in PastFile => IsFae
  /\ pc \in PastSize => WordAt(crt0_size) = binary_size
  /\ pc = "text_alignment" => PaddingUpTo(iterator)
  /\ pc \in PastPartition => PartitionAt(offset_to_partition)

(* Nothing is established before the first check.                          *)
LEMMA InitSound == Init => SoundInv
BY DEF Init, SoundInv, PastFile, PastSize, PastPartition

(* The file is read and not written.                                       *)
LEMMA FileStays ==
  ASSUME file' = file
  PROVE  /\ IsFae' <=> IsFae
         /\ WordAt(crt0_size)' = WordAt(crt0_size)
         /\ binary_size' = binary_size
         /\ TableEnd' = TableEnd
<1>1. binary_size' = binary_size /\ crt0_size' = crt0_size
  BY DEF binary_size, crt0_size, Footer, WordAt
<1>2. WordAt(crt0_size)' = WordAt(crt0_size)
  BY <1>1 DEF WordAt
<1>3. TableEnd' = TableEnd
  BY DEF TableEnd, WordAt, crt0_size, binary_size, relocation_entries_start,
         relocation_entries_size, Footer, TooLarge
<1>4. IsFae' <=> IsFae
  BY DEF IsFae, WordAt, crt0_size, binary_size, relocation_entries_start,
         relocation_entries_size, Footer, TooLarge
<1> QED
  BY <1>1, <1>2, <1>3, <1>4

(* No step reads another file.                                             *)
LEMMA SameFile == [Next]_vars => file' = file
BY DEF vars, Next, ParseOptions, CheckFile, ShowCrt0, CheckBinarySize,
   ShowRelocations, SkipTextAlignment, CheckEntrypoint, ShowRomRam, ShowRom,
   ShowGot, ShowRam

(* Every step keeps what was established.                                  *)
LEMMA StepSound == TInv /\ SoundInv /\ [Next]_vars => SoundInv'
<1> SUFFICES ASSUME TInv, SoundInv, [Next]_vars
             PROVE  SoundInv'
  OBVIOUS
<1>f. file' = file
  BY SameFile
<1>s. /\ IsFae' <=> IsFae
      /\ WordAt(crt0_size)' = WordAt(crt0_size)
      /\ binary_size' = binary_size
      /\ TableEnd' = TableEnd
  BY <1>f, FileStays
<1>p. \A n : (PaddingUpTo(n))' <=> PaddingUpTo(n)
  BY <1>f, <1>s DEF PaddingUpTo
<1>t. TableEnd \in Nat /\ binary_size \in Nat
  BY ReadTypes DEF TInv, TableEnd, WORD_BYTESIZE
<1>n. \A n : (PartitionAt(n))' <=> PartitionAt(n)
  BY <1>f, <1>s, <1>p DEF PartitionAt
<1> DEFINE Kept(p) ==
      /\ p \in PastFile => IsFae
      /\ p \in PastSize => WordAt(crt0_size) = binary_size
<1>k. ASSUME Kept(pc'),
             pc' = "text_alignment" => PaddingUpTo(iterator'),
             pc' \in PastPartition => PartitionAt(offset_to_partition')
      PROVE  SoundInv'
  BY <1>f, <1>s, <1>k DEF SoundInv, PaddingUpTo, PartitionAt
<1> USE DEF PastFile, PastSize, PastPartition
<1>1. CASE ParseOptions
  BY <1>1, <1>k DEF ParseOptions
<1>2. CASE CheckFile
  BY <1>2, <1>k DEF CheckFile
<1>3. CASE ShowCrt0
  BY <1>3, <1>k DEF ShowCrt0, Disassembled, SoundInv
<1>4. CASE CheckBinarySize
  BY <1>4, <1>k DEF CheckBinarySize, SoundInv
<1>5. CASE ShowRelocations
  <2>1. PaddingUpTo(TableEnd)
    BY <1>t DEF PaddingUpTo
  <2>2. pc' = "text_alignment" => iterator' = TableEnd
    BY <1>5 DEF ShowRelocations, TableEnd
  <2> QED
    BY <1>5, <1>k, <2>1, <2>2 DEF ShowRelocations, SoundInv
<1>6. CASE SkipTextAlignment
  <2>1. PaddingUpTo(iterator) /\ iterator \in Nat
    BY <1>6 DEF SkipTextAlignment, SoundInv, TInv
  <2>2. Kept(pc')
    BY <1>6 DEF SkipTextAlignment, SoundInv
  <2>3. ASSUME pc' = "text_alignment"
        PROVE  PaddingUpTo(iterator')
    <3>1. /\ file.bytes[iterator + 1] = TEXT_ALIGNMENT_PADDING_VALUE
          /\ iterator' = iterator + 1
      BY <1>6, <2>3 DEF SkipTextAlignment, PastPadding
    <3> QED
      BY <1>t, <2>1, <3>1 DEF PaddingUpTo
  <2>4. ASSUME pc' \in PastPartition
        PROVE  PartitionAt(offset_to_partition')
    <3>1. /\ iterator < binary_size
          /\ file.bytes[iterator + 1] # TEXT_ALIGNMENT_PADDING_VALUE
          /\ offset_to_partition' = iterator
      BY <1>6, <2>4 DEF SkipTextAlignment
    <3>2. iterator \in TableEnd .. (binary_size - 1)
      BY <1>t, <2>1, <3>1 DEF PaddingUpTo
    <3> QED
      BY <2>1, <3>1, <3>2 DEF PartitionAt
  <2> QED
    BY <1>k, <2>2, <2>3, <2>4
<1>7. CASE CheckEntrypoint
  BY <1>7, <1>k DEF CheckEntrypoint, SoundInv
<1>8. CASE ShowRomRam
  BY <1>8, <1>k DEF ShowRomRam, SoundInv
<1>9. CASE ShowRom
  BY <1>9, <1>k DEF ShowRom, Disassembled, SoundInv
<1>10. CASE ShowGot
  BY <1>10, <1>k DEF ShowGot, SoundInv
<1>11. CASE ShowRam
  BY <1>11, <1>k DEF ShowRam, SoundInv
<1>12. CASE UNCHANGED vars
  BY <1>12, <1>k DEF vars, SoundInv
<1> QED
  BY <1>1, <1>2, <1>3, <1>4, <1>5, <1>6, <1>7, <1>8, <1>9, <1>10, <1>11, <1>12
     DEF Next

(* The footer tells the size of CRT0 as the linker computed it.            *)
TrueCrt0Size == crt0_size = file.metadataOff

(* The tool and the loader look for the same first byte.                   *)
LEMMA SamePartition ==
  ASSUME TInv, TrueCrt0Size, PartitionAt(offset_to_partition)
  PROVE  offset_to_partition = LoaderPartition
<1> DEFINE table_end == file.metadataOff + 2 * WORD_BYTESIZE
                          + WORD_BYTESIZE * WordAt(file.metadataOff + WORD_BYTESIZE)
           First(i) == /\ file.bytes[i + 1] # TEXT_ALIGNMENT_PADDING_VALUE
                       /\ \A j \in table_end .. (i - 1) :
                            file.bytes[j + 1] = TEXT_ALIGNMENT_PADDING_VALUE
<1>1. /\ crt0_size \in Nat /\ relocation_entries_start \in Nat
      /\ relocation_entries_size \in Nat /\ binary_size \in Nat
  BY ReadTypes DEF TInv
<1>2. WordAt(file.metadataOff + WORD_BYTESIZE) \in Nat
  <2>1. file.metadataOff + WORD_BYTESIZE \in Int /\ file \in Files
    BY <1>1 DEF TrueCrt0Size, TInv, WORD_BYTESIZE
  <2> QED
    BY <2>1, WordAtType, WordModFacts DEF Word
<1>3. table_end = TableEnd
  BY <1>1, <1>2 DEF TableEnd, relocation_entries_start, relocation_entries_size,
     TrueCrt0Size, WORD_BYTESIZE
<1>4. table_end \in Nat
  BY <1>1, <1>2 DEF TrueCrt0Size, WORD_BYTESIZE
<1> HIDE DEF table_end
<1>5. offset_to_partition \in table_end .. (binary_size - 1)
        /\ First(offset_to_partition)
  BY <1>3 DEF PartitionAt, PaddingUpTo
<1>6. ASSUME NEW i \in table_end .. (binary_size - 1), First(i)
      PROVE  i = offset_to_partition
  <2>1. ~ (i < offset_to_partition) /\ ~ (offset_to_partition < i)
    BY <1>1, <1>4, <1>5, <1>6
  <2> QED
    BY <1>1, <1>4, <1>5, <2>1
<1> HIDE DEF First
<1>7. (CHOOSE i \in table_end .. (binary_size - 1) : First(i)) = offset_to_partition
  BY <1>5, <1>6
<1> QED
  BY <1>7 DEF LoaderPartition, table_end, First

(* A file that read_fae.py ends well on, however damaged, is one that the  *)
(* loader can rely on, as long as its footer tells the size of CRT0 truly: *)
(* the tool then reads the binary size and the relocation table where the  *)
(* loader does, and both scans find the same partition.                    *)
THEOREM SoundIsSound == Spec => [](TrueCrt0Size => SoundForLoader)
<1>1. Init => TInv /\ SoundInv
  BY InitType, InitSound
<1>2. TInv /\ SoundInv /\ [Next]_vars => (TInv /\ SoundInv)'
  BY StepType, StepSound
<1>3. TInv /\ SoundInv => (TrueCrt0Size => SoundForLoader)
  <2> SUFFICES ASSUME TInv, SoundInv, TrueCrt0Size, pc = "ok"
               PROVE  /\ WordAt(file.metadataOff) = binary_size
                      /\ Footer(FOOTER_MAGIC_NUMBER_AND_VERSION_OFFSET)
                           = MAGIC_NUMBER_AND_VERSION
                      /\ offset_to_partition = LoaderPartition
    BY DEF SoundForLoader
  <2>1. /\ IsFae
        /\ WordAt(crt0_size) = binary_size
        /\ PartitionAt(offset_to_partition)
    BY DEF SoundInv, PastFile, PastSize, PastPartition
  <2>2. WordAt(file.metadataOff) = binary_size
    BY <2>1 DEF TrueCrt0Size
  <2> QED
    BY <2>1, <2>2, SamePartition DEF IsFae
<1> QED
  BY <1>1, <1>2, <1>3, PTL DEF Spec

-----------------------------------------------------------------------------
(***************************************************************************)
(* Files that build_fae.py wrote.                                          *)
(***************************************************************************)
WrittenFrom(f, a) ==
  /\ ElfTyped(f.elf)
  /\ f.bytes = concatenate_and_pad(f.elf, a)
  /\ f.partition = metadata_size(f.elf, a)

(* What a FAE program is: it has a loader, and code that does not begin    *)
(* with a zero byte and in which it starts; and the file fits in a word.   *)
Proper(f) ==
  /\ f.elf.crt0 # << >>
  /\ f.elf.rom # << >> /\ f.elf.rom[1] # TEXT_ALIGNMENT_PADDING_VALUE
  /\ f.elf.start <= Len(f.elf.rom)
  /\ f.elf.magic = MAGIC_NUMBER_AND_VERSION
  /\ Len(f.bytes) < WordMod

BuiltProperly ==
  \A f \in Files : f.built => Proper(f) /\ \E a \in Nat : WrittenFrom(f, a)

header_size == compute_header_size(file.elf)

(* A word in the file is read as what it was written for.                  *)
LEMMA WordThere ==
  ASSUME file \in Files, NEW k, NEW x \in Word,
         HasAt(file.bytes, k, to_word(x))
  PROVE  WordAt(k) = x
<1> DEFINE b == file.bytes
           byte(j) == IF j + 1 \in 1 .. binary_size THEN b[j + 1] ELSE 0
<1>1. Len(b) \in Nat /\ binary_size = Len(b)
  BY ReadFilesAssumption DEF binary_size
<1>2. k \in Nat /\ k + 4 <= Len(b)
  BY ToWordType DEF HasAt
<1>3. /\ byte(k) = b[k + 1] /\ byte(k + 1) = b[k + 2]
      /\ byte(k + 2) = b[k + 3] /\ byte(k + 3) = b[k + 4]
  <2>1. /\ k + 1 \in 1 .. binary_size /\ (k + 1) + 1 \in 1 .. binary_size
        /\ (k + 2) + 1 \in 1 .. binary_size /\ (k + 3) + 1 \in 1 .. binary_size
        /\ (k + 1) + 1 = k + 2 /\ (k + 2) + 1 = k + 3 /\ (k + 3) + 1 = k + 4
    BY <1>1, <1>2
  <2> QED
    BY <2>1
<1>4. from_bytes(b[k + 1], b[k + 2], b[k + 3], b[k + 4]) = x
  BY <1>2, ReadsWord
<1> HIDE DEF byte, b
<1>5. WordAt(k) = from_bytes(byte(k), byte(k + 1), byte(k + 2), byte(k + 3))
  BY DEF WordAt, byte, b
<1> QED
  BY <1>3, <1>4, <1>5

(* The tool reads what build_fae.py wrote.                                 *)
LEMMA ToolReads ==
  ASSUME BuiltProperly, file \in Files, file.built
  PROVE  /\ crt0_size = Len(file.elf.crt0) /\ entrypoint = file.elf.start
         /\ rom_size = Len(file.elf.rom) /\ got_size = Len(file.elf.got)
         /\ rom_ram_size = Len(file.elf.rom_ram)
         /\ Footer(FOOTER_MAGIC_NUMBER_AND_VERSION_OFFSET)
              = MAGIC_NUMBER_AND_VERSION
         /\ WordAt(crt0_size) = binary_size
         /\ relocation_entries_start + WORD_BYTESIZE + relocation_entries_size
              = header_size
         /\ relocation_entries_size = WORD_BYTESIZE * Len(file.elf.rel)
         /\ relocation_entries_start = Len(file.elf.crt0) + WORD_BYTESIZE
         /\ header_size = Len(file.elf.crt0) + 8 + 4 * Len(file.elf.rel)
         /\ header_size \in Nat /\ file.partition \in Nat
         /\ header_size <= file.partition
         /\ file.partition + PartitionSize + FOOTER_BYTESIZE <= binary_size
         /\ binary_size = Len(file.bytes)
         /\ \A i \in header_size .. file.partition :
              file.bytes[i + 1] = TEXT_ALIGNMENT_PADDING_VALUE
                <=> i # file.partition
<1>1. PICK a \in Nat : WrittenFrom(file, a)
  BY DEF BuiltProperly
<1> DEFINE e == file.elf
           b == file.bytes
           c == Len(e.crt0)
           n == Len(e.rel)
           o == Len(e.rom)
           g == Len(e.got)
           d == Len(e.rom_ram)
           h == compute_header_size(e)
           t == compute_text_alignment(e, a)
           m == metadata_size(e, a)
           raw == raw_binary_size(e, a)
           L == file_size(e, a)
           p == padding_size(raw)
<1>2. /\ ElfTyped(e) /\ b = concatenate_and_pad(e, a) /\ file.partition = m
      /\ Proper(file)
  BY <1>1 DEF WrittenFrom, BuiltProperly
<1>3. /\ b \in Seq(Byte) /\ Len(b) = L
      /\ Metadata(b, e, a) /\ Partition(b, e, a) /\ FooterAt(b, e, a)
  BY <1>2, Layout
<1>4. /\ c \in Nat /\ n \in Nat /\ o \in Nat /\ g \in Nat /\ d \in Nat
      /\ e.rel \in Seq(Word) /\ e.rom \in Seq(Byte)
      /\ e.start \in Word /\ e.magic \in Word
  <2>1. /\ e.crt0 \in Seq(Byte) /\ e.rel \in Seq(Word) /\ e.rom \in Seq(Byte)
        /\ e.got \in Seq(Byte) /\ e.rom_ram \in Seq(Byte)
        /\ e.start \in Word /\ e.magic \in Word
    BY <1>2 DEF ElfTyped
  <2> HIDE DEF e
  <2> QED
    BY <2>1
<1>5. /\ h = c + 8 + 4 * n /\ h \in Nat /\ t \in Nat /\ m = h + t /\ m \in Nat
      /\ raw \in Nat /\ p \in 0 .. 31 /\ L = raw + p + 28
  BY <1>2, Sizes
<1>6. raw = m + o + g + d
  BY DEF raw_binary_size
<1>7. /\ HasAt(b, c, to_word(L)) /\ HasAt(b, c + 4, to_word(n))
      /\ HasAt(b, h, Filler(t, 0)) /\ HasAt(b, m, e.rom)
  BY <1>3, Zenon DEF Metadata, Partition
<1>8. /\ HasAt(b, L - 24, to_word(g)) /\ HasAt(b, L - 20, to_word(o))
      /\ HasAt(b, L - 16, to_word(d)) /\ HasAt(b, L - 12, to_word(e.start))
      /\ HasAt(b, L - 8, to_word(c)) /\ HasAt(b, L - 4, to_word(e.magic))
  BY <1>3, Zenon DEF FooterAt
<1>9. e.rom # << >> /\ e.rom[1] # 0 /\ e.magic = MAGIC_NUMBER_AND_VERSION
      /\ L < WordMod
  BY <1>2, <1>3 DEF Proper, TEXT_ALIGNMENT_PADDING_VALUE
<1>10. binary_size = L
  BY <1>3 DEF binary_size
<1> DEFINE Scan == \A i \in h .. m : b[i + 1] = 0 <=> i # m
<1>11. Scan
  <2>1. o >= 1 /\ b[m + 1] = e.rom[1]
    <3>1. 1 \in 1 .. Len(e.rom)
      BY <1>4, <1>9
    <3> QED
      BY <1>4, <1>7, <3>1 DEF HasAt
  <2>2. ASSUME NEW i \in h .. m, i # m
        PROVE  b[i + 1] = 0
    <3> DEFINE f == Filler(t, 0)
               j == i - h + 1
    <3>1. f = [k \in 1 .. t |-> 0]
      BY DEF Filler
    <3>2. Len(f) = t
      BY <1>5, FillerType, ByteBaseAssumption DEF Byte
    <3> HIDE DEF f, c, n, o, g, d, h, t, m, raw, L, p
    <3>3. j \in 1 .. t /\ h + j = i + 1
      BY <1>5, <2>2
    <3> HIDE DEF j
    <3>4. b[h + j] = f[j]
      BY <1>7, <3>2, <3>3 DEF HasAt, f
    <3> QED
      BY <3>1, <3>3, <3>4
  <2> HIDE DEF b, h, m, t
  <2> QED
    BY <1>5, <1>9, <2>1, <2>2
<1> HIDE DEF Scan
<1>12. c \in Word /\ n \in Word /\ o \in Word /\ g \in Word /\ d \in Word
       /\ L \in Word
  <2> HIDE DEF c, n, o, g, d, h, t, m, raw, L, p
  <2>1. /\ c \in 0 .. L /\ n \in 0 .. L /\ o \in 0 .. L /\ g \in 0 .. L
        /\ d \in 0 .. L /\ L \in Nat
    <3>1. c \in Nat /\ n \in Nat /\ o \in Nat /\ g \in Nat /\ d \in Nat
      BY <1>4, Zenon
    <3>a. t \in Nat /\ p \in 0 .. 31
      BY <1>5, Zenon
    <3>b. p \in Nat
      BY <3>a
    <3>2. L = c + 8 + 4 * n + t + o + g + d + p + 28
      BY <1>5, <1>6, <3>1, <3>a
    <3> QED
      BY <3>1, <3>a, <3>b, <3>2
  <2>2. L < WordMod
    BY <1>9
  <2> QED
    BY <2>1, <2>2, WordModFacts DEF Word
<1>13. /\ Footer(-24) = g /\ Footer(-20) = o /\ Footer(-16) = d
       /\ Footer(-12) = e.start /\ Footer(-8) = c /\ Footer(-4) = e.magic
  <2>1. /\ L + (-24) = L - 24 /\ L + (-20) = L - 20 /\ L + (-16) = L - 16
        /\ L + (-12) = L - 12 /\ L + (-8) = L - 8 /\ L + (-4) = L - 4
    <3> HIDE DEF L
    <3> QED
      BY <1>12, WordModFacts DEF Word
  <2> HIDE DEF c, n, o, g, d, h, t, m, raw, L, p
  <2> QED
    BY <1>4, <1>8, <1>10, <1>12, <2>1, WordThere DEF Footer, b
<1>14. WordAt(c) = L /\ WordAt(c + 4) = n
  <2> HIDE DEF c, n, o, g, d, h, t, m, raw, L, p
  <2> QED
    BY <1>7, <1>12, WordThere DEF b
<1>15. /\ crt0_size = c /\ entrypoint = e.start /\ rom_size = o /\ got_size = g
       /\ rom_ram_size = d
       /\ Footer(FOOTER_MAGIC_NUMBER_AND_VERSION_OFFSET)
            = MAGIC_NUMBER_AND_VERSION
  <2> HIDE DEF c, n, o, g, d, h, t, m, raw, L, p
  <2> QED
    BY <1>9, <1>13
       DEF crt0_size, entrypoint, rom_size, got_size, rom_ram_size,
           FOOTER_CRT0_OFFSET, FOOTER_ENTRYPOINT_OFFSET,
           FOOTER_ROM_RAM_SIZE_OFFSET, FOOTER_ROM_SIZE_OFFSET,
           FOOTER_GOT_SIZE_OFFSET, FOOTER_MAGIC_NUMBER_AND_VERSION_OFFSET
<1>16. relocation_entries_start = c + 4 /\ relocation_entries_size = 4 * n
  BY <1>14, <1>15
     DEF relocation_entries_start, relocation_entries_size, WORD_BYTESIZE
<1>17. /\ (c + 4) + 4 + 4 * n = h /\ h <= m
       /\ m + (o + g + d) + 28 <= L
  <2> HIDE DEF c, n, o, g, d, h, t, m, raw, L, p
  <2> QED
    BY <1>4, <1>5, <1>6
<1>18. PartitionSize = o + g + d
  BY DEF PartitionSize
<1>19. header_size = h
  BY DEF header_size
<1> QED
  BY <1>2, <1>3, <1>5, <1>10, <1>11, <1>14, <1>15, <1>16, <1>17, <1>18, <1>19
     DEF WORD_BYTESIZE, FOOTER_BYTESIZE, TEXT_ALIGNMENT_PADDING_VALUE, Scan

-----------------------------------------------------------------------------
(***************************************************************************)
(* What is shown of such a file.                                           *)
(*                                                                         *)
(* The tool is at a place it can name as long as the file is what          *)
(* build_fae.py wrote: the invariant says where, and which bytes of the    *)
(* partition the sections shown so far are.                                *)
(***************************************************************************)
BeforePartition == {"arguments", "file", "crt0", "binary_size", "relocations",
                    "text_alignment", "entrypoint", "rom_ram"}

RomStart == file.partition + Len(file.elf.rom_ram)
GotStart == RomStart + Len(file.elf.rom)

ReadInv ==
  file.built =>
    /\ pc \notin {"invalid", "raised"}
    /\ pc = "text_alignment" => iterator \in header_size .. file.partition
    /\ pc \in PastPartition => offset_to_partition = file.partition
    /\ pc \in {"entrypoint", "rom_ram"} => iterator = file.partition
    /\ pc = "rom" => iterator = RomStart
    /\ pc = "got" => rom_end = GotStart - 1
    /\ pc \in BeforePartition => Tiled(shown, file.partition, file.partition)
    /\ pc = "rom" => Tiled(shown, file.partition, RomStart)
    /\ pc = "got" => Tiled(shown, file.partition, GotStart)
    /\ pc \in {"ram", "ok"} =>
         Tiled(shown, file.partition, file.partition + PartitionSize)

(* Nothing shown is nothing of the partition.                              *)
LEMMA NothingTiled == \A p \in Nat : Tiled(<< >>, p, p)
BY DEF Tiled

(* One more chunk, of another part of the file.                            *)
LEMMA OtherChunk ==
  ASSUME NEW chunks \in Seq(ShownChunks), NEW from \in Nat, NEW to \in Nat,
         Tiled(chunks, from, to), NEW c \in ShownChunks, c.name \notin Sections
  PROVE  Tiled(Append(chunks, c), from, to)
<1> DEFINE n    == Len(chunks)
           more == Append(chunks, c)
           S(s) == {i \in 1 .. Len(s) : s[i].name \in Sections}
<1>1. n \in Nat /\ Len(more) = n + 1 /\ more[n + 1] = c
      /\ \A i \in 1 .. n : more[i] = chunks[i]
  OBVIOUS
<1> HIDE DEF more
<1>2. S(more) = S(chunks)
  BY <1>1
<1>3. \A i \in S(chunks) : more[i] = chunks[i]
  BY <1>1
<1>4. /\ \A i, j \in S(chunks) : i < j => chunks[i].end < chunks[j].start
      /\ UNION {chunks[i].start .. chunks[i].end : i \in S(chunks)}
           = from .. (to - 1)
  BY DEF Tiled
<1> HIDE DEF S
<1>5. UNION {more[i].start .. more[i].end : i \in S(more)}
        = UNION {chunks[i].start .. chunks[i].end : i \in S(chunks)}
  BY <1>2, <1>3
<1>6. \A i, j \in S(more) : i < j => more[i].end < more[j].start
  BY <1>2, <1>3, <1>4
<1> QED
  BY <1>4, <1>5, <1>6 DEF Tiled, more, S

(* One more section, behind the others.                                    *)
LEMMA NextSection ==
  ASSUME NEW chunks \in Seq(ShownChunks), NEW from \in Nat, NEW to \in Nat,
         from <= to, Tiled(chunks, from, to),
         NEW c \in ShownChunks, c.name \in Sections,
         NEW size \in Nat, c.start = to, c.end = to + size - 1
  PROVE  Tiled(Append(chunks, c), from, to + size)
<1> DEFINE n    == Len(chunks)
           more == Append(chunks, c)
           S(s) == {i \in 1 .. Len(s) : s[i].name \in Sections}
           Bytes(s) == UNION {s[i].start .. s[i].end : i \in S(s)}
<1>1. n \in Nat /\ Len(more) = n + 1 /\ more[n + 1] = c
      /\ \A i \in 1 .. n : more[i] = chunks[i]
  OBVIOUS
<1> HIDE DEF more
<1>2. S(more) = S(chunks) \cup {n + 1}
  BY <1>1
<1>3. \A i \in S(chunks) : more[i] = chunks[i] /\ i \in 1 .. n
  BY <1>1
<1>4. /\ \A i, j \in S(chunks) : i < j => chunks[i].end < chunks[j].start
      /\ Bytes(chunks) = from .. (to - 1)
  BY DEF Tiled
<1>5. ASSUME NEW i \in S(chunks)
      PROVE  chunks[i].end < to
  <2>1. chunks[i] \in ShownChunks
    BY <1>1
  <2>2. chunks[i].start \in Nat /\ chunks[i].end \in Int
        /\ chunks[i].start <= chunks[i].end
    BY <2>1 DEF ShownChunks
  <2>3. chunks[i].end \in chunks[i].start .. chunks[i].end
    BY <2>2
  <2>4. chunks[i].end \in Bytes(chunks)
    BY <2>3
  <2>5. chunks[i].end \in from .. (to - 1)
    BY <1>4, <2>4
  <2> HIDE DEF S, Bytes
  <2> QED
    BY <2>5
<1>6. Bytes(more) = Bytes(chunks) \cup (c.start .. c.end)
  <2> HIDE DEF S
  <2> QED
    BY <1>1, <1>2, <1>3
<1>7. Bytes(more) = from .. (to + size - 1)
  <2> HIDE DEF Bytes
  <2> QED
    BY <1>4, <1>6
<1>8. ASSUME NEW i \in S(more), NEW j \in S(more), i < j
      PROVE  more[i].end < more[j].start
  <2>1. i \in S(chunks)
    <3> HIDE DEF S
    <3>1. S(chunks) \subseteq 1 .. n
      BY <1>3
    <3> QED
      BY <1>1, <1>2, <1>8, <3>1
  <2>2. CASE j \in S(chunks)
    <3> HIDE DEF S
    <3> QED
      BY <1>3, <1>4, <1>8, <2>1, <2>2
  <2>3. CASE j = n + 1
    <3> HIDE DEF S
    <3> QED
      BY <1>1, <1>3, <1>5, <2>1, <2>3
  <2> HIDE DEF S
  <2> QED
    BY <1>2, <2>2, <2>3
<1> QED
  BY <1>7, <1>8 DEF Tiled, more

(* What showing a part of the file does to the sections shown.             *)
LEMMA ShowOther ==
  ASSUME TInv, NEW name \in SectionNames \ Sections, NEW start \in Nat,
         NEW size \in Nat, NEW hex, Show(name, start, size, hex),
         NEW from \in Nat, NEW to \in Nat, Tiled(shown, from, to)
  PROVE  Tiled(shown', from, to)
<1>1. CASE size > 0
  <2> DEFINE c == Chunk(name, start, size, hex)
  <2>1. c \in ShownChunks
    BY <1>1, ChunkType
  <2>2. c.name = name
    BY DEF Chunk
  <2>3. shown' = Append(shown, c)
    BY <1>1 DEF Show
  <2> HIDE DEF c
  <2> QED
    BY <2>1, <2>2, <2>3, OtherChunk DEF TInv
<1>2. CASE ~(size > 0)
  BY <1>2 DEF Show
<1> QED
  BY <1>1, <1>2

LEMMA ShowSection ==
  ASSUME TInv, NEW name \in Sections, NEW from \in Nat, NEW to \in Nat,
         from <= to, Tiled(shown, from, to),
         NEW size \in Nat, NEW hex, Show(name, to, size, hex)
  PROVE  Tiled(shown', from, to + size)
<1>1. CASE size > 0
  <2> DEFINE c == Chunk(name, to, size, hex)
  <2>1. c \in ShownChunks
    BY <1>1, ChunkType DEF SectionNames, Sections
  <2>2. c.name = name /\ c.start = to /\ c.end = to + size - 1
    BY DEF Chunk
  <2>3. shown' = Append(shown, c)
    BY <1>1 DEF Show
  <2> HIDE DEF c
  <2> QED
    BY <2>1, <2>2, <2>3, NextSection DEF TInv
<1>2. CASE ~(size > 0)
  <2>1. to + size = to
    BY <1>2
  <2> QED
    BY <1>2, <2>1 DEF Show
<1> QED
  BY <1>1, <1>2

LEMMA InitRead == BuiltProperly /\ Init => ReadInv
<1> SUFFICES ASSUME BuiltProperly, Init, file.built PROVE ReadInv
  BY DEF ReadInv
<1>1. file.partition \in Nat
  BY ToolReads DEF Init
<1> QED
  BY <1>1, NothingTiled DEF Init, ReadInv, PastPartition

LEMMA StepRead ==
  ASSUME BuiltProperly
  PROVE  TInv /\ ReadInv /\ [Next]_vars => ReadInv'
<1> SUFFICES ASSUME TInv, ReadInv, [Next]_vars, file'.built
             PROVE  ReadInv'
  BY DEF ReadInv
<1>f. file' = file /\ file \in Files /\ file.built
  BY SameFile DEF TInv
<1> DEFINE m  == file.partition
           pe == m + PartitionSize
<1>t. /\ binary_size \in Nat /\ crt0_size \in Nat /\ entrypoint \in Nat
      /\ rom_ram_size \in Nat /\ rom_size \in Nat /\ got_size \in Nat
      /\ relocation_entries_start \in Nat /\ relocation_entries_size \in Nat
      /\ iterator \in Nat /\ shown \in Seq(ShownChunks)
  BY <1>f, ReadTypes DEF TInv
<1>1. /\ m \in Nat /\ header_size \in Nat /\ header_size <= m
      /\ RomStart = m + rom_ram_size /\ GotStart = RomStart + rom_size
      /\ pe = GotStart + got_size
      /\ pe + 28 <= binary_size
      /\ header_size = crt0_size + 8 + relocation_entries_size
      /\ header_size = relocation_entries_start + WORD_BYTESIZE
                         + relocation_entries_size
      /\ crt0_size > 0 /\ rom_size > 0 /\ entrypoint <= rom_size
  <2> DEFINE c == Len(file.elf.crt0)
             n == Len(file.elf.rel)
             o == Len(file.elf.rom)
             g == Len(file.elf.got)
             d == Len(file.elf.rom_ram)
             h == header_size
  <2>1. /\ crt0_size = c /\ rom_size = o /\ got_size = g /\ rom_ram_size = d
        /\ relocation_entries_size = 4 * n /\ h = c + 8 + 4 * n
        /\ h = relocation_entries_start + WORD_BYTESIZE
                 + relocation_entries_size
        /\ entrypoint = file.elf.start
        /\ h \in Nat /\ m \in Nat /\ h <= m
        /\ pe + 28 <= binary_size
    BY <1>f, ToolReads DEF WORD_BYTESIZE, FOOTER_BYTESIZE
  <2>2. PartitionSize = o + g + d /\ RomStart = m + d /\ GotStart = m + d + o
    BY DEF PartitionSize, RomStart, GotStart
  <2>3. Proper(file) /\ ElfTyped(file.elf)
    BY <1>f DEF BuiltProperly, WrittenFrom
  <2>4. c # 0 /\ o # 0 /\ file.elf.start <= o
    <3>1. /\ file.elf.crt0 \in Seq(Byte) /\ file.elf.crt0 # << >>
          /\ file.elf.rom \in Seq(Byte) /\ file.elf.rom # << >>
          /\ file.elf.start <= o
      BY <2>3 DEF ElfTyped, Proper
    <3> QED
      BY <3>1
  <2> HIDE DEF c, n, o, g, d, h, m
  <2>5. /\ m \in Nat /\ d \in Nat /\ o \in Nat /\ g \in Nat /\ c \in Nat
    BY <1>t, <2>1
  <2>6. pe = GotStart + got_size
    BY <2>1, <2>2, <2>5
  <2>7. h = crt0_size + 8 + relocation_entries_size
    BY <2>1
  <2> QED
    BY <1>t, <2>1, <2>2, <2>4, <2>5, <2>6, <2>7 DEF h, m
<1>2. /\ Footer(FOOTER_MAGIC_NUMBER_AND_VERSION_OFFSET)
           = MAGIC_NUMBER_AND_VERSION
      /\ WordAt(crt0_size) = binary_size
      /\ \A i \in header_size .. m :
           file.bytes[i + 1] = TEXT_ALIGNMENT_PADDING_VALUE <=> i # m
  BY <1>f, ToolReads
<1>4. /\ header_size' = header_size /\ PartitionSize' = PartitionSize
      /\ RomStart' = RomStart /\ GotStart' = GotStart /\ file'.partition = m
  BY <1>f DEF header_size, PartitionSize, RomStart, GotStart
<1> USE DEF PastPartition, BeforePartition
<1> DEFINE Read(p, it, off, re, sh) ==
      /\ p \notin {"invalid", "raised"}
      /\ p = "text_alignment" => it \in header_size .. m
      /\ p \in PastPartition => off = m
      /\ p \in {"entrypoint", "rom_ram"} => it = m
      /\ p = "rom" => it = RomStart
      /\ p = "got" => re = GotStart - 1
      /\ p \in BeforePartition => Tiled(sh, m, m)
      /\ p = "rom" => Tiled(sh, m, RomStart)
      /\ p = "got" => Tiled(sh, m, GotStart)
      /\ p \in {"ram", "ok"} => Tiled(sh, m, pe)
<1>6. Read(pc, iterator, offset_to_partition, rom_end, shown)
  BY <1>f DEF ReadInv
<1>7. SUFFICES Read(pc', iterator', offset_to_partition', rom_end', shown')
  BY <1>4 DEF ReadInv
<1> HIDE DEF m, pe
<1>8. /\ ~TooLarge(crt0_size) /\ ~TooLarge(relocation_entries_size)
      /\ ~TooLarge(entrypoint) /\ ~TooLarge(rom_ram_size)
      /\ ~TooLarge(rom_size) /\ ~TooLarge(got_size)
      /\ m < binary_size /\ binary_size > 36
  BY <1>t, <1>1 DEF TooLarge
<1>9. CASE ParseOptions
  BY <1>6, <1>9 DEF ParseOptions
<1>10. CASE CheckFile
  <2>1. IsFae
    BY <1>t, <1>1, <1>2, <1>8
       DEF IsFae, MINIMAL_BYTESIZE, WORD_BYTESIZE, FOOTER_BYTESIZE
  <2> QED
    BY <1>6, <1>10, <2>1 DEF CheckFile
<1>11. CASE ShowCrt0
  <2>1. Tiled(shown', m, m)
    <3>1. pc = "crt0" /\ Show("CRT0", 0, crt0_size, "--Hcrt0")
      BY <1>11 DEF ShowCrt0
    <3>2. Tiled(shown, m, m) /\ m \in Nat
      BY <1>1, <1>6, <3>1
    <3> QED
      BY <1>t, <3>1, <3>2, ShowOther DEF SectionNames, Sections
  <2> QED
    BY <1>11, <2>1 DEF ShowCrt0, Disassembled
<1>12. CASE CheckBinarySize
  BY <1>2, <1>6, <1>12 DEF CheckBinarySize
<1>13. CASE ShowRelocations
  <2>1. /\ pc = "relocations" /\ pc' = "text_alignment"
        /\ iterator' = relocation_entries_start + WORD_BYTESIZE
                         + relocation_entries_size
        /\ Show("Relocation entries", relocation_entries_start,
                relocation_entries_size, "--Hreloc")
    BY <1>8, <1>13 DEF ShowRelocations
  <2>2. iterator' \in header_size .. m
    <3>1. iterator' = header_size
      BY <1>1, <2>1, Zenon
    <3> QED
      BY <1>1, <3>1
  <2>3. Tiled(shown', m, m)
    <3>1. Tiled(shown, m, m) /\ m \in Nat
      BY <1>1, <1>6, <2>1
    <3> QED
      BY <1>t, <2>1, <3>1, ShowOther DEF SectionNames, Sections
  <2> QED
    BY <2>1, <2>2, <2>3
<1>14. CASE SkipTextAlignment
  <2>1. pc = "text_alignment" /\ iterator \in header_size .. m
        /\ Tiled(shown, m, m) /\ shown' = shown
    BY <1>6, <1>14 DEF SkipTextAlignment
  <2>2. iterator < binary_size
    BY <1>t, <1>1, <1>8, <2>1
  <2>3. file.bytes[iterator + 1] = TEXT_ALIGNMENT_PADDING_VALUE
          <=> iterator # m
    BY <1>2, <2>1
  <2>s. \/ /\ iterator >= binary_size
           /\ pc' = "raised"
        \/ /\ file.bytes[iterator + 1] = TEXT_ALIGNMENT_PADDING_VALUE
           /\ iterator' = iterator + 1 /\ pc' = pc
        \/ /\ file.bytes[iterator + 1] # TEXT_ALIGNMENT_PADDING_VALUE
           /\ offset_to_partition' = iterator
           /\ pc' = "entrypoint" /\ iterator' = iterator
    BY <1>14 DEF SkipTextAlignment, PastPadding
  <2> HIDE DEF Read
  <2> USE <1>t
  <2>4. CASE iterator = m
    <3>1. /\ pc' = "entrypoint" /\ iterator' = iterator
          /\ offset_to_partition' = iterator
      BY <2>2, <2>3, <2>4, <2>s
    <3> QED
      BY <2>1, <2>4, <3>1 DEF Read
  <2>5. CASE iterator # m
    <3>1. pc' = pc /\ iterator' = iterator + 1
      BY <2>2, <2>3, <2>5, <2>s
    <3>2. iterator' \in header_size .. m
      BY <1>1, <2>1, <2>5, <3>1
    <3> QED
      BY <2>1, <3>1, <3>2 DEF Read
  <2> QED
    BY <2>4, <2>5
<1>15. CASE CheckEntrypoint
  BY <1>6, <1>8, <1>15 DEF CheckEntrypoint
<1>16. CASE ShowRomRam
  <2>1. /\ pc = "rom_ram" /\ pc' = "rom" /\ iterator' = iterator + rom_ram_size
        /\ Show(".rom.ram", iterator, rom_ram_size, "--Hromram")
        /\ offset_to_partition' = offset_to_partition
    BY <1>8, <1>16 DEF ShowRomRam
  <2>2. iterator = m /\ offset_to_partition = m /\ Tiled(shown, m, m)
    BY <1>6, <2>1
  <2>3. Tiled(shown', m, RomStart)
    <3>1. Tiled(shown', m, m + rom_ram_size)
      BY <1>t, <1>1, <2>1, <2>2, ShowSection DEF Sections
    <3> QED
      BY <1>1, <3>1
  <2> QED
    BY <1>1, <2>1, <2>2, <2>3
<1>17. CASE ShowRom
  <2>1. /\ pc = "rom" /\ Show(".rom", iterator, rom_size, "--Hrom")
        /\ rom_end' = iterator + rom_size - 1
        /\ pc' \in {"got", "failed"}
        /\ offset_to_partition' = offset_to_partition
    BY <1>1, <1>8, <1>17 DEF ShowRom, Disassembled, EntrypointInRom
  <2>2. iterator = RomStart /\ offset_to_partition = m /\ Tiled(shown, m, RomStart)
    BY <1>6, <2>1
  <2>3. Tiled(shown', m, GotStart)
    <3>1. RomStart \in Nat /\ m <= RomStart
      BY <1>t, <1>1
    <3>2. Tiled(shown', m, RomStart + rom_size)
      BY <1>t, <1>1, <2>1, <2>2, <3>1, ShowSection DEF Sections
    <3> QED
      BY <1>1, <3>2
  <2>4. rom_end' = GotStart - 1
    BY <1>t, <1>1, <2>1, <2>2
  <2> QED
    BY <2>1, <2>2, <2>3, <2>4
<1>18. CASE ShowGot
  <2>1. pc = "got" /\ rom_end = GotStart - 1 /\ Tiled(shown, m, GotStart)
        /\ offset_to_partition = m
    BY <1>6, <1>18 DEF ShowGot
  <2>2. rom_end # None /\ got_start = GotStart /\ GotStart \in Nat
        /\ m <= GotStart
    BY <1>t, <1>1, <2>1 DEF None, got_start
  <2>3. /\ Show(".got", GotStart, got_size, "--Hgot") /\ pc' = "ram"
        /\ offset_to_partition' = offset_to_partition
    BY <1>8, <1>18, <2>2 DEF ShowGot
  <2>4. Tiled(shown', m, GotStart + got_size)
    BY <1>t, <1>1, <2>1, <2>2, <2>3, ShowSection DEF Sections
  <2> QED
    BY <1>1, <2>1, <2>3, <2>4
<1>19. CASE ShowRam
  BY <1>6, <1>19 DEF ShowRam
<1>20. CASE UNCHANGED vars
  BY <1>6, <1>20 DEF vars
<1> QED
  BY <1>9, <1>10, <1>11, <1>12, <1>13, <1>14, <1>15, <1>16, <1>17, <1>18,
     <1>19, <1>20 DEF Next

LEMMA ReadAlways ==
  ASSUME BuiltProperly
  PROVE  Spec => []ReadInv
<1>1. Init => TInv /\ ReadInv
  BY InitType, InitRead
<1>2. TInv /\ ReadInv /\ [Next]_vars => (TInv /\ ReadInv)'
  BY StepType, StepRead
<1> QED
  BY <1>1, <1>2, PTL DEF Spec

(* What build_fae.py writes of a proper program, read_fae.py accepts,      *)
(* whatever the sizes of its parts, the padding and the options.           *)
THEOREM BuiltIsAccepted ==
  ASSUME BuiltProperly
  PROVE  Spec => []AcceptsBuilt
<1>1. ReadInv => AcceptsBuilt
  BY DEF ReadInv, AcceptsBuilt
<1> QED
  BY <1>1, ReadAlways, PTL

(* Of such a file the sections shown are the partition, all of it and      *)
(* nothing else.                                                           *)
THEOREM BuiltIsTiled ==
  ASSUME BuiltProperly
  PROVE  Spec => []SectionsTilePartition
<1>1. ReadInv => SectionsTilePartition
  BY DEF ReadInv, SectionsTilePartition, PastPartition
<1> QED
  BY <1>1, ReadAlways, PTL
=============================================================================
