----------------------------- MODULE Crt0Proofs ------------------------------
(***************************************************************************)
(* Proofs about the loader, for every base of a byte, every set of files   *)
(* and every set of contexts:                                              *)
(*                                                                         *)
(*   TypeCorrect     every reachable state is well typed,                  *)
(*   StoresInBounds  nothing is stored outside of the RAM that was given,  *)
(*   HandsBackUnused what the loader hands back as unused is unused,       *)
(*   PatchingKeepsGot  patched pointers leave the relocated GOT alone;     *)
(*                                                                         *)
(* and, for files that build_fae.py wrote, by what ImageProofs says of     *)
(* their layout:                                                           *)
(*                                                                         *)
(*   SkipsThePadding  no byte of .rom is taken for padding,                *)
(*   LoadsAligned     .rom is aligned as build_fae.py was told,            *)
(*   GdbIsTold        gdb looks for the sections where the loader does,    *)
(*   CopiesAligned    memcpy() makes no access that faults,                *)
(*   ZeroedStaysZero  .ram stays zero, but for the relocations in it,      *)
(*   LoadImplemented  the loader implements Load: a program is started with*)
(*                    its whole block in place, or refused for the first   *)
(*                    of its defects.                                      *)
(***************************************************************************)
EXTENDS Crt0, ImageProofs

-----------------------------------------------------------------------------
(***************************************************************************)
(* Memory.                                                                 *)
(***************************************************************************)

(* The addresses of a store that does not wrap around are consecutive.     *)
LEMMA SpanInRange ==
  ASSUME NEW a \in Word, NEW n \in Nat, a + n <= WordMod
  PROVE  Span(a, n) = a .. (a + n - 1)
<1>1. \A j \in 0 .. (n - 1) : Add(a, j) = a + j
  BY WordModFacts DEF Add, Word
<1>2. Span(a, n) \subseteq a .. (a + n - 1)
  BY <1>1, WordModFacts DEF Span, Word
<1>3. ASSUME NEW x \in a .. (a + n - 1)
      PROVE  x \in Span(a, n)
  <2>1. x - a \in 0 .. (n - 1) /\ a + (x - a) = x
    BY WordModFacts DEF Word
  <2> QED
    BY <1>1, <2>1 DEF Span
<1> QED
  BY <1>2, <1>3

(* The addresses of a store are words, even if it wraps around.            *)
LEMMA SpanType ==
  ASSUME NEW a \in Word, NEW n \in Nat, n <= WordMod
  PROVE  Span(a, n) \subseteq Word
BY WordModFacts DEF Span, Add, Word

(* A store keeps the memory a partial function from addresses to bytes.    *)
LEMMA StoreType ==
  ASSUME NEW m, DOMAIN m \subseteq Word, m \in [DOMAIN m -> Byte],
         NEW a \in Word, NEW s \in Seq(Byte), Len(s) <= WordMod
  PROVE  /\ DOMAIN Store(m, a, s) = DOMAIN m \cup Span(a, Len(s))
         /\ DOMAIN Store(m, a, s) \subseteq Word
         /\ Store(m, a, s) \in [DOMAIN Store(m, a, s) -> Byte]
<1>1. Len(s) \in Nat
  OBVIOUS
<1>2. Span(a, Len(s)) \subseteq Word
  BY <1>1, SpanType
<1>3. ASSUME NEW x \in Span(a, Len(s))
      PROVE  s[Distance(a, x) + 1] \in Byte
  <2>1. PICK j \in 0 .. (Len(s) - 1) : x = Add(a, j)
    BY DEF Span
  <2>2. Distance(a, x) = j
    BY <1>1, <2>1, WordModFacts DEF Distance, Add, Word
  <2> QED
    BY <1>1, <2>2
<1>4. DOMAIN Store(m, a, s) = DOMAIN m \cup Span(a, Len(s))
  BY DEF Store
<1>5. ASSUME NEW x \in DOMAIN m \cup Span(a, Len(s))
      PROVE  Store(m, a, s)[x] \in Byte
  <2>1. CASE x \in Span(a, Len(s))
    BY <1>3, <2>1 DEF Store
  <2>2. CASE x \notin Span(a, Len(s))
    BY <2>2 DEF Store
  <2> QED
    BY <2>1, <2>2
<1>6. Store(m, a, s) \in [DOMAIN m \cup Span(a, Len(s)) -> Byte]
  BY <1>5 DEF Store
<1> QED
  BY <1>2, <1>4, <1>6

(* What the loader reads in flash are bytes and words.                     *)
FlashTyped ==
  /\ file.bytes \in Seq(Byte) /\ file.metadataOff \in Word
  /\ ctx \in [bin_base : Word, ram_start : Word, ram_end : Word,
              nvm_start : Word]

(* Inside and outside of the file, flash holds bytes.                      *)
LEMMA FlashByteType ==
  ASSUME FlashTyped, NEW a \in Int
  PROVE  FlashByte(a) \in Byte
<1>1. PADDING_VALUE \in Byte
  BY ByteBaseAssumption DEF PADDING_VALUE, Byte
<1>2. ctx.bin_base \in Int
  BY WordModFacts DEF FlashTyped, Word
<1> QED
  BY <1>1, <1>2 DEF FlashByte, FlashTyped

(* Four bytes of flash make a word.                                        *)
LEMMA FlashWordType ==
  ASSUME FlashTyped, NEW a \in Int
  PROVE  FlashWord(a) \in Word
BY FlashByteType, FromBytesType DEF FlashWord

(* The metadata and the footer that _start() reads are words, and so are   *)
(* the addresses it finds them at.                                         *)
LEMMA MetadataType ==
  ASSUME FlashTyped
  PROVE  /\ metadata \in Word
         /\ end_of_binary \in Word
         /\ \A offset \in Int : Footer(offset) \in Word
         /\ FooterSizes \in [rom : Word, got : Word, rom_ram : Word, ram : Word]
         /\ entry_number \in Word
         /\ \A i \in Word : EntryAddr(i) \in Word
<1>0. Word \subseteq Int /\ 4 \in Word /\ 8 \in Word
  BY WordModFacts DEF Word
<1>1. metadata \in Word
  BY AddType DEF metadata, FlashTyped
<1>2. binary_size \in Word
  BY <1>0, <1>1, FlashWordType DEF binary_size
<1>3. end_of_binary \in Word
  BY <1>2, AddType DEF end_of_binary, FlashTyped
<1>4. ASSUME NEW offset \in Int
      PROVE  Footer(offset) \in Word
  <2>1. end_of_binary + offset \in Int
    BY <1>0, <1>3
  <2> QED
    BY <2>1, FlashWordType DEF Footer
<1>5. FooterSizes \in [rom : Word, got : Word, rom_ram : Word, ram : Word]
  BY <1>4 DEF FooterSizes, FOOTER_ROM_SIZE_OFFSET, FOOTER_GOT_SIZE_OFFSET,
              FOOTER_ROM_RAM_SIZE_OFFSET, FOOTER_RAM_SIZE_OFFSET
<1>6. Add(metadata, WORD_BYTESIZE) \in Word /\ Add(metadata, 2 * WORD_BYTESIZE) \in Word
  BY <1>0, <1>1, AddType DEF WORD_BYTESIZE
<1>7. entry_number \in Word
  BY <1>0, <1>6, FlashWordType DEF entry_number
<1>8. ASSUME NEW i \in Word
      PROVE  EntryAddr(i) \in Word
  <2>1. Twice(i) \in Word
    BY AddType DEF Twice
  <2>2. Twice(Twice(i)) \in Word
    BY <2>1, AddType DEF Twice
  <2> QED
    BY <1>6, <2>2, AddType DEF EntryAddr
<1> QED
  BY <1>1, <1>3, <1>4, <1>5, <1>7, <1>8

-----------------------------------------------------------------------------
(***************************************************************************)
(* Sections.                                                               *)
(***************************************************************************)
SizesTyped ==
  /\ size \in [rom : Word, got : Word, rom_ram : Word, ram : Word]
  /\ rom_sec_addr \in Word
  /\ rel_got_sec_addr \in Word

(* The sizes and addresses of the sections are words.                      *)
LEMMA SectionTypes ==
  ASSUME SizesTyped
  PROVE  /\ rom_sec_size \in Word /\ got_sec_size \in Word
         /\ rom_ram_sec_size \in Word /\ ram_sec_size \in Word
         /\ got_sec_addr \in Word /\ rom_ram_sec_addr \in Word
         /\ rel_rom_ram_sec_addr \in Word /\ rel_ram_sec_addr \in Word
         /\ rel_ram_sec_end \in Word
<1>1. /\ rom_sec_size \in Word /\ got_sec_size \in Word
      /\ rom_ram_sec_size \in Word /\ ram_sec_size \in Word
  BY DEF SizesTyped, rom_sec_size, got_sec_size, rom_ram_sec_size, ram_sec_size
<1>2. got_sec_addr \in Word
  BY <1>1, AddType DEF SizesTyped, got_sec_addr
<1>3. rom_ram_sec_addr \in Word
  BY <1>1, <1>2, AddType DEF rom_ram_sec_addr
<1>4. rel_rom_ram_sec_addr \in Word
  BY <1>1, AddType DEF SizesTyped, rel_rom_ram_sec_addr
<1>5. rel_ram_sec_addr \in Word
  BY <1>1, <1>4, AddType DEF rel_ram_sec_addr
<1>6. rel_ram_sec_end \in Word
  BY <1>1, <1>5, AddType DEF rel_ram_sec_end
<1> QED
  BY <1>1, <1>2, <1>3, <1>4, <1>5, <1>6

(* The address of an offset is a word.                                     *)
LEMMA AddressType ==
  ASSUME SizesTyped, NEW off \in Word, ~OutOfBounds(off)
  PROVE  Address(off) \in Word
<1>1. \A n \in Word : 0 .. (n - 1) \subseteq Word
  BY WordModFacts DEF Word
<1>2. CASE InRom(off)
  <2>1. Address(off) = Add(rom_sec_addr, off)
    BY <1>2 DEF Address, InRom, InGot, InRomRam, InRam
  <2> QED
    BY <2>1, AddType DEF SizesTyped
<1>3. CASE InGot(off) /\ ~InRom(off)
  <2>1. Address(off) = Add(rel_got_sec_addr, off - rom_sec_size)
    BY <1>3, SectionTypes, WordModFacts
       DEF Address, InRom, InGot, InRomRam, InRam, Word
  <2>2. off - rom_sec_size \in Word
    BY <1>1, <1>3, SectionTypes DEF InGot
  <2> QED
    BY <2>1, <2>2, AddType DEF SizesTyped
<1>4. CASE InRomRam(off) /\ ~InRom(off) /\ ~InGot(off)
  <2>1. Address(off) = Add(rel_rom_ram_sec_addr,
                           off - rom_sec_size - got_sec_size)
    BY <1>4, SectionTypes, WordModFacts
       DEF Address, InRom, InGot, InRomRam, InRam, Word
  <2>2. off - rom_sec_size - got_sec_size \in Word
    BY <1>1, <1>4, SectionTypes DEF InRomRam
  <2> QED
    BY <2>1, <2>2, SectionTypes, AddType
<1>5. CASE InRam(off) /\ ~InRom(off) /\ ~InGot(off) /\ ~InRomRam(off)
  <2>1. Address(off) = Add(rel_ram_sec_addr,
                           off - rom_sec_size - got_sec_size
                             - rom_ram_sec_size)
    BY <1>5, SectionTypes, WordModFacts
       DEF Address, InRom, InGot, InRomRam, InRam, Word
  <2>2. off - rom_sec_size - got_sec_size - rom_ram_sec_size \in Word
    BY <1>1, <1>5, SectionTypes DEF InRam
  <2> QED
    BY <2>1, <2>2, SectionTypes, AddType
<1> QED
  BY <1>2, <1>3, <1>4, <1>5 DEF OutOfBounds

(* memcpy() moves at least one byte and never more than what is left.      *)
LEMMA ChunkSizeBounds ==
  ASSUME NEW n \in Nat, n > 0
  PROVE  ChunkSize(n) \in 1 .. n
<1>1. \E k \in Chunks : k <= n /\ \A l \in Chunks : l <= n => l <= k
  <2>1. CASE n >= 48
    BY <2>1 DEF Chunks
  <2>2. CASE n < 48 /\ n >= 8
    BY <2>2 DEF Chunks
  <2>3. CASE n < 8 /\ n >= 4
    BY <2>3 DEF Chunks
  <2>4. CASE n < 4
    BY <2>4 DEF Chunks
  <2> QED
    BY <2>1, <2>2, <2>3, <2>4
<1>2. ChunkSize(n) \in Chunks /\ ChunkSize(n) <= n
  BY <1>1 DEF ChunkSize
<1> QED
  BY <1>2 DEF Chunks

(* A pointer that can be patched and its target are in bounds.             *)
LEMMA PatchErrorNone ==
  ASSUME NEW ptr_off, NEW off, PatchError(ptr_off, off) = None
  PROVE  /\ InRomRam(ptr_off) \/ InRam(ptr_off)
         /\ ~InRom(ptr_off) /\ ~InGot(ptr_off)
         /\ ~OutOfBounds(ptr_off) /\ ~OutOfBounds(off)
<1>1. PlaceError(ptr_off) = None /\ TargetError(off) = None
  BY DEF PatchError
<1>2. ~InRom(ptr_off) /\ ~InGot(ptr_off) /\ ~OutOfBounds(ptr_off)
  BY <1>1 DEF PlaceError, None
<1>3. ~OutOfBounds(off)
  BY <1>1 DEF TargetError, None
<1> QED
  BY <1>2, <1>3 DEF OutOfBounds

(* die() is called with one of the five identifiers of err_msg_id_t.       *)
LEMMA PatchErrorType ==
  ASSUME NEW ptr_off, NEW off, PatchError(ptr_off, off) # None
  PROVE  PatchError(ptr_off, off) \in 0 .. 4
BY DEF PatchError, PlaceError, TargetError, None

-----------------------------------------------------------------------------
(***************************************************************************)
(* Type correctness.                                                       *)
(***************************************************************************)
(* The two parts of the type invariant that the lemmas above need.         *)
LEMMA ReadTypes ==
  ASSUME TypeOK
  PROVE  FlashTyped /\ SizesTyped
BY DEF TypeOK, FlashTyped, SizesTyped

(* The loader starts well typed.                                           *)
LEMMA InitType == Init => TypeOK
<1> SUFFICES ASSUME Init PROVE TypeOK
  OBVIOUS
<1>1. file.bytes \in Seq(Byte) /\ file.metadataOff \in Word
  BY FilesAssumption DEF Init
<1>2. ctx \in [bin_base : Word, ram_start : Word, ram_end : Word,
              nvm_start : Word]
  BY ContextsAssumption DEF Init
<1>3. 0 \in Word
  BY WordModFacts DEF Word
<1>4. DOMAIN ram = {} /\ ram \in [DOMAIN ram -> Byte]
  BY DEF Init
<1>5. size \in [rom : Word, got : Word, rom_ram : Word, ram : Word]
  BY <1>3 DEF Init
<1> QED
  BY <1>1, <1>2, <1>3, <1>4, <1>5 DEF Init, TypeOK, None, Loading, Loops

(* Every statement of _start() keeps the state well typed.                 *)
LEMMA StepType == TypeOK /\ [Next]_vars => TypeOK'
<1> SUFFICES ASSUME TypeOK, [Next]_vars PROVE TypeOK'
  OBVIOUS
<1> USE DEF Loading, Loops
<1>0. /\ FlashTyped /\ SizesTyped
      /\ Word \subseteq Nat /\ Word \subseteq Int
      /\ 0 \in Word /\ 1 \in Word /\ 4 \in Word
      /\ 4 <= WordMod
  BY ReadTypes, WordModFacts DEF Word
<1>a. DOMAIN ram \subseteq Word /\ ram \in [DOMAIN ram -> Byte]
  BY DEF TypeOK
<1>1. CASE CheckVersion
  <2>1. size' \in [rom : Word, got : Word, rom_ram : Word, ram : Word]
    BY <1>0, <1>1, MetadataType DEF CheckVersion, TypeOK
  <2>2. rom_sec_addr' \in Word
    BY <1>0, <1>1, MetadataType DEF CheckVersion, TypeOK
  <2>3. /\ pc' \in {"skip_padding", "dead"}
        /\ done' \in Word
        /\ err' # None => err' \in 0 .. 4
    BY <1>0, <1>1 DEF CheckVersion, TypeOK, Goto, Die
  <2> QED
    BY <1>1, <2>1, <2>2, <2>3 DEF CheckVersion, TypeOK
<1>2. CASE SkipPadding
  <2>1. rom_sec_addr' \in Word
    BY <1>0, <1>2, AddType DEF SkipPadding, TypeOK
  <2> QED
    BY <1>2, <2>1 DEF SkipPadding, TypeOK
<1>3. CASE LayOut
  <2>1. ctx.ram_start \in Word
    BY DEF TypeOK
  <2> QED
    BY <1>0, <1>3, <2>1 DEF LayOut, TypeOK, Goto
<1>4. CASE CheckRam
  <2>1. ROUND(end_of_binary, PADDING_MPU_ALIGNMENT) \in Word
    <3>1. end_of_binary \in Word
      BY <1>0, MetadataType
    <3>2. round(end_of_binary, 32) \in Nat /\ round(end_of_binary, 32) < WordMod + 32
      BY <3>1, WordModFacts DEF round, Word
    <3> QED
      BY <3>2, WordModFacts DEF ROUND, Add, Word, PADDING_MPU_ALIGNMENT
  <2>2. FreedCtx \in [bin_base : Word, ram_start : Word, ram_end : Word,
                     nvm_start : Word]
    BY <1>0, <2>1, SectionTypes DEF FreedCtx, TypeOK
  <2>3. rom_ram_sec_size \in Nat
    BY <1>0, SectionTypes
  <2>4. rom_ram_sec_size' = rom_ram_sec_size
    BY <1>4 DEF CheckRam, rom_ram_sec_size
  <2>5. /\ pc' \in {"copy_rom_ram", "dead"}
        /\ done' \in Word
        /\ pc' = "copy_rom_ram" => done' = 0
        /\ err' # None => err' \in 0 .. 4
    BY <1>0, <1>4 DEF CheckRam, TypeOK, Goto, Die
  <2>6. ctx' \in [bin_base : Word, ram_start : Word, ram_end : Word,
                 nvm_start : Word]
    BY <1>4, <2>2 DEF CheckRam, TypeOK
  <2> QED
    BY <1>4, <2>3, <2>4, <2>5, <2>6 DEF CheckRam, TypeOK
<1>5. CASE CopyRomRam
  <2>1. CASE done < rom_ram_sec_size
    <3> DEFINE n   == ChunkSize(rom_ram_sec_size - done)
               src == Add(rom_ram_sec_addr, done)
               s   == [j \in 1 .. n |-> FlashByte(Add(src, j - 1))]
    <3>1. rom_ram_sec_size \in Word /\ done \in Word
      BY <1>0, SectionTypes DEF TypeOK
    <3>2. n \in 1 .. (rom_ram_sec_size - done)
      BY <1>0, <2>1, <3>1, ChunkSizeBounds
    <3> HIDE DEF n
    <3>3. src \in Word
      BY <1>0, <3>1, SectionTypes, AddType
    <3> HIDE DEF src
    <3>4. n \in Nat /\ n <= WordMod
      BY <3>1, <3>2, WordModFacts DEF Word
    <3>5. ASSUME NEW j \in 1 .. n
          PROVE  FlashByte(Add(src, j - 1)) \in Byte
      <4>1. j - 1 \in Word
        BY <3>4, WordModFacts DEF Word
      <4>2. Add(src, j - 1) \in Int
        BY <1>0, <3>3, <4>1, AddType
      <4> QED
        BY <1>0, <4>2, FlashByteType
    <3>6. s \in Seq(Byte) /\ Len(s) = n
      BY <3>4, <3>5
    <3> HIDE DEF s
    <3>7. Add(rel_rom_ram_sec_addr, done) \in Word
      BY <1>0, <3>1, SectionTypes, AddType
    <3>8. ram' = Store(ram, Add(rel_rom_ram_sec_addr, done), s)
      BY <1>5, <2>1, <3>1, WordModFacts DEF CopyRomRam, n, s, src, Word
    <3>9. DOMAIN ram' \subseteq Word /\ ram' \in [DOMAIN ram' -> Byte]
      BY <3>4, <3>6, <3>7, <3>8, <1>a, StoreType
    <3>10. done' = done + n /\ UNCHANGED pc
      BY <1>5, <2>1, <3>1, WordModFacts DEF CopyRomRam, n, Word
    <3>11. done' \in Word /\ done' <= rom_ram_sec_size
      BY <3>1, <3>2, <3>10, WordModFacts DEF Word
    <3>12. rom_ram_sec_size' = rom_ram_sec_size
      BY <1>5 DEF CopyRomRam, rom_ram_sec_size
    <3> QED
      BY <1>5, <3>9, <3>10, <3>11, <3>12 DEF CopyRomRam, TypeOK
  <2>2. CASE ~(done < rom_ram_sec_size)
    BY <1>0, <1>5, <2>2 DEF CopyRomRam, TypeOK, Goto
  <2> QED
    BY <2>1, <2>2
<1>6. CASE ZeroRam
  <2>1. CASE MoreRam
    <3>1. Add(rel_ram_sec_addr, done) \in Word /\ NextWord \in Word
      BY <1>0, SectionTypes, AddType DEF TypeOK, NextWord, WORD_BYTESIZE
    <3>2. to_word(0) \in Seq(Byte) /\ Len(to_word(0)) = 4
      BY <1>0, ToWordType
    <3>3. ram' = Store(ram, Add(rel_ram_sec_addr, done), to_word(0))
      BY <1>6, <2>1 DEF ZeroRam
    <3>4. DOMAIN ram' \subseteq Word /\ ram' \in [DOMAIN ram' -> Byte]
      BY <3>1, <3>2, <3>3, <1>0, <1>a, StoreType
    <3> QED
      BY <1>6, <2>1, <3>1, <3>4 DEF ZeroRam, TypeOK
  <2>2. CASE ~MoreRam
    BY <1>0, <1>6, <2>2 DEF ZeroRam, TypeOK, Goto
  <2> QED
    BY <2>1, <2>2
<1>7. CASE RelocateGot
  <2>1. Add(got_sec_addr, done) \in Word
    BY <1>0, SectionTypes, AddType DEF TypeOK
  <2>2. PICK off \in Word :
          \/ /\ ~OutOfBounds(off)
             /\ ram' = Store(ram, Add(rel_got_sec_addr, done),
                             to_word(Address(off)))
             /\ done' = NextWord
             /\ UNCHANGED <<pc, err>>
          \/ Die(2) /\ UNCHANGED ram
          \/ Goto("patch_pointers") /\ UNCHANGED <<ram, err>>
    BY <1>0, <1>7, <2>1, FlashWordType DEF RelocateGot
  <2>3. CASE /\ ~OutOfBounds(off)
             /\ ram' = Store(ram, Add(rel_got_sec_addr, done),
                             to_word(Address(off)))
             /\ done' = NextWord
             /\ UNCHANGED <<pc, err>>
    <3>1. Add(rel_got_sec_addr, done) \in Word /\ NextWord \in Word
      BY <1>0, AddType DEF TypeOK, NextWord, WORD_BYTESIZE
    <3>2. /\ to_word(Address(off)) \in Seq(Byte)
          /\ Len(to_word(Address(off))) = 4
      BY <1>0, <2>3, AddressType, ToWordType
    <3>3. DOMAIN ram' \subseteq Word /\ ram' \in [DOMAIN ram' -> Byte]
      BY <2>3, <3>1, <3>2, <1>0, <1>a, StoreType
    <3> QED
      BY <1>7, <2>3, <3>1, <3>3 DEF RelocateGot, TypeOK
  <2>4. CASE Die(2) /\ UNCHANGED ram
    BY <1>7, <2>4 DEF RelocateGot, TypeOK, Die, None
  <2>5. CASE Goto("patch_pointers") /\ UNCHANGED <<ram, err>>
    BY <1>0, <1>7, <2>5 DEF RelocateGot, TypeOK, Goto
  <2> QED
    BY <2>2, <2>3, <2>4, <2>5
<1>8. CASE PatchPointers
  <2>1. EntryAddr(done) \in Word
    BY <1>0, MetadataType DEF TypeOK
  <2>2. PICK ptr_off \in Word, off \in Word :
          \/ /\ PatchError(ptr_off, off) = None
             /\ ram' = Store(ram, Address(ptr_off), to_word(Address(off)))
             /\ done' = Add(done, 1)
             /\ UNCHANGED <<pc, err>>
          \/ /\ PatchError(ptr_off, off) # None
             /\ Die(PatchError(ptr_off, off))
             /\ UNCHANGED ram
          \/ Goto("branch") /\ UNCHANGED <<ram, err>>
    <3>1. FlashWord(EntryAddr(done)) \in Word
      BY <1>0, <2>1, FlashWordType
    <3>2. Add(rom_sec_addr, FlashWord(EntryAddr(done))) \in Word
      BY <3>1, AddType DEF TypeOK
    <3>3. FlashWord(Add(rom_sec_addr, FlashWord(EntryAddr(done)))) \in Word
      BY <1>0, <3>2, FlashWordType
    <3> QED
      BY <1>8, <3>1, <3>3 DEF PatchPointers
  <2>3. CASE /\ PatchError(ptr_off, off) = None
             /\ ram' = Store(ram, Address(ptr_off), to_word(Address(off)))
             /\ done' = Add(done, 1)
             /\ UNCHANGED <<pc, err>>
    <3>1. Address(ptr_off) \in Word /\ Address(off) \in Word
      BY <1>0, <2>3, PatchErrorNone, AddressType
    <3>2. done' \in Word
      BY <1>0, <2>3, AddType DEF TypeOK
    <3>3. /\ to_word(Address(off)) \in Seq(Byte)
          /\ Len(to_word(Address(off))) = 4
      BY <3>1, ToWordType
    <3>4. DOMAIN ram' \subseteq Word /\ ram' \in [DOMAIN ram' -> Byte]
      BY <2>3, <3>1, <3>3, <1>0, <1>a, StoreType
    <3> QED
      BY <1>8, <2>3, <3>2, <3>4 DEF PatchPointers, TypeOK
  <2>4. CASE /\ PatchError(ptr_off, off) # None
             /\ Die(PatchError(ptr_off, off))
             /\ UNCHANGED ram
    <3>1. PatchError(ptr_off, off) \in 0 .. 4
      BY <2>4, PatchErrorType
    <3> QED
      BY <1>8, <2>4, <3>1 DEF PatchPointers, TypeOK, Die
  <2>5. CASE Goto("branch") /\ UNCHANGED <<ram, err>>
    BY <1>0, <1>8, <2>5 DEF PatchPointers, TypeOK, Goto
  <2> QED
    BY <2>2, <2>3, <2>4, <2>5
<1>9. CASE Branch
  <2>1. entry_point_addr \in Word
    <3>1. entry_point_offset \in Word
      BY <1>0, MetadataType DEF entry_point_offset, FOOTER_ENTRYPOINT_OFFSET
    <3>2. Add(rom_sec_addr, entry_point_offset) \in Word
      BY <3>1, AddType DEF TypeOK
    <3> QED
      BY <3>2, WordModFacts DEF entry_point_addr, THUMB_ADDRESS, Word
  <2> QED
    BY <1>9, <2>1 DEF Branch, TypeOK
<1>10. CASE UNCHANGED vars
  BY <1>10 DEF vars, TypeOK, rom_ram_sec_size
<1> QED
  BY <1>1, <1>2, <1>3, <1>4, <1>5, <1>6, <1>7, <1>8, <1>9, <1>10 DEF Next

(* Every reachable state of the loader is well typed, whatever file it     *)
(* finds itself in and whatever context it is given: all values computed   *)
(* by _start() are words, and memcpy() stays within .rom.ram.              *)
THEOREM TypeCorrect == Spec => []TypeOK
<1>1. Init => TypeOK
  BY InitType
<1>2. TypeOK /\ [Next]_vars => TypeOK'
  BY StepType
<1> QED
  BY <1>1, <1>2, PTL DEF Spec

-----------------------------------------------------------------------------
(***************************************************************************)
(* The loader stores nothing outside of the RAM it was given.              *)
(*                                                                         *)
(* The property alone is not inductive: that a store of a loop is in       *)
(* bounds follows from the check made before the first loop, which the     *)
(* invariant carries along, and, for the loops over words, from the        *)
(* progress being a number of words.                                       *)
(***************************************************************************)
BeforeLoading == {"check_version", "skip_padding", "check_ram"}

(* All stores go to the block of the sections that move to RAM.            *)
WritesWithinBlock ==
  WellSized => DOMAIN ram \subseteq rel_got_sec_addr .. (rel_ram_sec_end - 1)

HandedBack ==
  /\ ctx.ram_start = rel_ram_sec_end
  /\ ctx.nvm_start = ROUND(end_of_binary, PADDING_MPU_ALIGNMENT)

RamInv ==
  /\ TypeOK
  /\ pc \in BeforeLoading => DOMAIN ram = {}
  /\ pc \in Loading \/ DOMAIN ram # {} => EnoughRam
  /\ pc \in {"zero_ram", "relocate_got"} => done % WORD_BYTESIZE = 0
  /\ WritesWithinBlock
  /\ pc \in Loading => HandedBack

(* Under WellSized, the sections that move to RAM are one block.           *)
LEMMA Unwrapped ==
  ASSUME SizesTyped, WellSized
  PROVE  /\ rel_got_sec_addr \in Nat
         /\ rom_sec_size \in Nat /\ got_sec_size \in Nat
         /\ rom_ram_sec_size \in Nat /\ ram_sec_size \in Nat
         /\ rel_rom_ram_sec_addr = rel_got_sec_addr + got_sec_size
         /\ rel_ram_sec_addr
              = rel_got_sec_addr + got_sec_size + rom_ram_sec_size
         /\ rel_ram_sec_end = rel_got_sec_addr + RamSize
         /\ rel_got_sec_addr + RamSize < WordMod
         /\ RamSize = got_sec_size + rom_ram_sec_size + ram_sec_size
<1>1. /\ rom_sec_size \in Nat /\ got_sec_size \in Nat
      /\ rom_ram_sec_size \in Nat /\ ram_sec_size \in Nat
      /\ rel_got_sec_addr \in Nat
  BY SectionTypes, WordModFacts DEF SizesTyped, Word
<1>2. rel_got_sec_addr + (got_sec_size + rom_ram_sec_size + ram_sec_size)
        < WordMod
  BY DEF WellSized, RamSize
<1>3. rel_rom_ram_sec_addr = rel_got_sec_addr + got_sec_size
  BY <1>1, <1>2, WordModFacts DEF rel_rom_ram_sec_addr, Add
<1>4. rel_ram_sec_addr = rel_got_sec_addr + got_sec_size + rom_ram_sec_size
  BY <1>1, <1>2, <1>3, WordModFacts DEF rel_ram_sec_addr, Add
<1>5. rel_ram_sec_end
        = rel_got_sec_addr + (got_sec_size + rom_ram_sec_size + ram_sec_size)
  BY <1>1, <1>2, <1>4, WordModFacts DEF rel_ram_sec_end, Add
<1> QED
  BY <1>1, <1>2, <1>3, <1>4, <1>5 DEF RamSize

(* A pointer to patch lies in the block, where its offset says.            *)
LEMMA PlaceInBlock ==
  ASSUME SizesTyped, WellSized, NEW p \in Word,
         ~InRom(p), ~InGot(p), InRomRam(p) \/ InRam(p)
  PROVE  /\ p - rom_sec_size \in 0 .. (RamSize - 1)
         /\ Address(p) = rel_got_sec_addr + (p - rom_sec_size)
<1>1. p \in Nat
  BY WordModFacts DEF Word
<1>2. CASE InRomRam(p)
  <2>1. p - rom_sec_size - got_sec_size \in 0 .. (rom_ram_sec_size - 1)
    BY <1>2 DEF InRomRam
  <2>2. Address(p)
          = Add(rel_rom_ram_sec_addr, p - rom_sec_size - got_sec_size)
    BY <1>2 DEF Address
  <2>3. Address(p) = rel_got_sec_addr + (p - rom_sec_size)
    BY <1>1, <2>1, <2>2, Unwrapped, WordModFacts DEF Add
  <2> QED
    BY <1>1, <2>1, <2>3, Unwrapped
<1>3. CASE InRam(p) /\ ~InRomRam(p)
  <2>1. p - rom_sec_size - got_sec_size - rom_ram_sec_size
          \in 0 .. (ram_sec_size - 1)
    BY <1>3 DEF InRam
  <2>2. Address(p)
          = Add(rel_ram_sec_addr,
                p - rom_sec_size - got_sec_size - rom_ram_sec_size)
    BY <1>3 DEF Address
  <2>3. Address(p) = rel_got_sec_addr + (p - rom_sec_size)
    BY <1>1, <2>1, <2>2, Unwrapped, WordModFacts DEF Add
  <2> QED
    BY <1>1, <2>1, <2>3, Unwrapped
<1> QED
  BY <1>2, <1>3

(* A store in the block keeps the stores within the RAM.                   *)
LEMMA StoreInBlock ==
  ASSUME SizesTyped, WellSized,
         DOMAIN ram \subseteq rel_got_sec_addr .. (rel_ram_sec_end - 1),
         NEW k \in Nat, NEW n \in Nat, k + n <= RamSize,
         NEW s, Len(s) = n
  PROVE  DOMAIN Store(ram, rel_got_sec_addr + k, s)
           \subseteq rel_got_sec_addr .. (rel_ram_sec_end - 1)
<1> DEFINE a == rel_got_sec_addr + k
<1>1. RamSize \in Nat /\ rel_got_sec_addr \in Nat
  BY Unwrapped
<1>2. rel_ram_sec_end = rel_got_sec_addr + RamSize
  BY Unwrapped
<1>3. a \in Word /\ a + n <= WordMod
  BY <1>1, Unwrapped, WordModFacts DEF Word
<1>4. a >= rel_got_sec_addr /\ a + n <= rel_ram_sec_end
  BY <1>1, <1>2
<1>5. DOMAIN Store(ram, a, s) = DOMAIN ram \cup Span(a, n)
  BY DEF Store
<1>6. Span(a, n) = a .. (a + n - 1)
  BY <1>3, SpanInRange
<1> HIDE DEF a
<1>7. a \in Nat
  BY <1>3, WordModFacts DEF Word
<1>8. Span(a, n) \subseteq rel_got_sec_addr .. (rel_ram_sec_end - 1)
  BY <1>1, <1>2, <1>4, <1>6, <1>7
<1> QED
  BY <1>5, <1>8 DEF a

(* A step that patches a pointer stores one word in the block, behind the  *)
(* GOT.                                                                    *)
LEMMA PatchBehindGot ==
  ASSUME TypeOK, WellSized, PatchPointers
  PROVE  \/ UNCHANGED ram
         \/ \E k \in Nat : \E x :
              /\ got_sec_size <= k /\ k + 4 <= RamSize
              /\ ram' = Store(ram, rel_got_sec_addr + k, to_word(x))
<1> DEFINE p == FlashWord(EntryAddr(done))
<1>1. SUFFICES ASSUME MorePointers,
                      \E off \in {FlashWord(Add(rom_sec_addr, p))} :
                        /\ PatchError(p, off) = None
                        /\ ram' = Store(ram, Address(p), to_word(Address(off)))
               PROVE  \E k \in Nat : \E x :
                        /\ got_sec_size <= k /\ k + 4 <= RamSize
                        /\ ram' = Store(ram, rel_got_sec_addr + k, to_word(x))
  BY DEF PatchPointers
<1>2. SizesTyped
  BY ReadTypes
<1>3. done \in Word /\ EntryAddr(done) \in Word /\ entry_number \in Word
  BY ReadTypes, MetadataType DEF TypeOK
<1>4. p \in Word
  <2>1. EntryAddr(done) \in Int
    BY <1>3, WordModFacts DEF Word
  <2> QED
    BY ReadTypes, <2>1, FlashWordType
<1>5. PointerFits(p)
  <2>1. done \in 0 .. (entry_number - 1)
    BY <1>1, <1>3, WordModFacts DEF MorePointers, Word
  <2> QED
    BY <2>1 DEF WellSized
<1> HIDE DEF p
<1>6. PICK off : /\ PatchError(p, off) = None
                 /\ ram' = Store(ram, Address(p), to_word(Address(off)))
  BY <1>1
<1> DEFINE k == p - rom_sec_size
<1>7. ~InRom(p) /\ ~InGot(p) /\ (InRomRam(p) \/ InRam(p))
  BY <1>2, <1>4, <1>6, PatchErrorNone
<1>8. k \in 0 .. (RamSize - 1) /\ Address(p) = rel_got_sec_addr + k
  BY <1>2, <1>4, <1>7, PlaceInBlock
<1>9. k + 4 <= RamSize
  BY <1>5, <1>8 DEF PointerFits, WORD_BYTESIZE
<1>10. k \notin 0 .. (got_sec_size - 1)
  BY <1>7 DEF InGot
<1> HIDE DEF k
<1>11. k \in Nat /\ got_sec_size <= k
  BY <1>2, <1>8, <1>10, Unwrapped
<1> QED
  BY <1>6, <1>8, <1>9, <1>11

(* What the loops look at, and leave alone.                                *)
LEMMA LoopsKeepLayout ==
  ASSUME UNCHANGED <<file, ctx, size, rel_got_sec_addr>>
  PROVE  /\ WellSized' <=> WellSized
         /\ EnoughRam' <=> EnoughRam
         /\ rel_ram_sec_end' = rel_ram_sec_end
         /\ HandedBack' <=> HandedBack
<1>1. WellSized' <=> WellSized
  BY DEF WellSized, PointerFits, RamSize, got_sec_size, rom_sec_size,
         rom_ram_sec_size, ram_sec_size, entry_number, FlashWord, FlashByte,
         EntryAddr, metadata
<1>2. EnoughRam' <=> EnoughRam
  BY DEF EnoughRam, rel_rom_ram_sec_addr, rel_ram_sec_addr, rel_ram_sec_end,
         got_sec_size, rom_ram_sec_size, ram_sec_size
<1>3. rel_ram_sec_end' = rel_ram_sec_end
  BY DEF rel_rom_ram_sec_addr, rel_ram_sec_addr, rel_ram_sec_end,
         got_sec_size, rom_ram_sec_size, ram_sec_size
<1>4. HandedBack' <=> HandedBack
  BY <1>3 DEF HandedBack, end_of_binary, binary_size, metadata, FlashWord, FlashByte
<1> QED
  BY <1>1, <1>2, <1>3, <1>4

(* The loader starts with nothing stored.                                  *)
LEMMA InitRam == Init => RamInv
<1> SUFFICES ASSUME Init PROVE RamInv
  OBVIOUS
<1>1. DOMAIN ram = {} /\ pc = "check_version"
  BY DEF Init
<1> QED
  BY <1>1, InitType
     DEF RamInv, BeforeLoading, Loading, Loops, WritesWithinBlock

(* Every statement of _start() keeps the stores within the RAM.            *)
LEMMA StepRam == RamInv /\ [Next]_vars => RamInv'
<1> SUFFICES ASSUME RamInv, [Next]_vars PROVE RamInv'
  OBVIOUS
<1> USE DEF BeforeLoading, Loading, Loops
<1>0. /\ TypeOK /\ TypeOK' /\ SizesTyped /\ FlashTyped
      /\ done \in Nat /\ ctx.ram_end \in Word
      /\ WORD_BYTESIZE = 4
  <2>1. TypeOK /\ TypeOK'
    BY StepType DEF RamInv
  <2>2. done \in Word /\ ctx.ram_end \in Word
    BY <2>1 DEF TypeOK
  <2> QED
    BY <2>1, <2>2, ReadTypes, WordModFacts DEF Word, WORD_BYTESIZE
<1>1. CASE CheckVersion
  BY <1>0, <1>1 DEF CheckVersion, Goto, Die, RamInv, WritesWithinBlock
<1>2. CASE SkipPadding
  BY <1>0, <1>2 DEF SkipPadding, RamInv, WritesWithinBlock
<1>3. CASE LayOut
  BY <1>0, <1>3 DEF LayOut, Goto, RamInv, WritesWithinBlock
<1>4. CASE CheckRam
  <2>1. DOMAIN ram' = {}
    BY <1>4 DEF CheckRam, RamInv
  <2>2. ctx'.ram_end = ctx.ram_end
    BY <1>0, <1>4 DEF CheckRam, FreedCtx, TypeOK
  <2>3. EnoughRam' <=> EnoughRam
    BY <1>4, <2>2
       DEF CheckRam, EnoughRam, rel_rom_ram_sec_addr, rel_ram_sec_addr,
           rel_ram_sec_end, got_sec_size, rom_ram_sec_size, ram_sec_size
  <2>4. pc' \in Loading => pc' = "copy_rom_ram" /\ EnoughRam
    BY <1>4 DEF CheckRam, Goto, Die
  <2>5. pc' \in {"copy_rom_ram", "dead"}
    BY <1>4 DEF CheckRam, Goto, Die
  <2>6. rel_ram_sec_end' = rel_ram_sec_end
    BY <1>4 DEF CheckRam, rel_rom_ram_sec_addr, rel_ram_sec_addr, rel_ram_sec_end,
                got_sec_size, rom_ram_sec_size, ram_sec_size
  <2>7. ASSUME pc' \in Loading
        PROVE  HandedBack'
    <3>1. ctx' = FreedCtx /\ file' = file
      BY <1>4, <2>7 DEF CheckRam, Die
    <3>2. ctx'.bin_base = ctx.bin_base
      BY <1>0, <3>1 DEF FreedCtx, TypeOK
    <3>3. end_of_binary' = end_of_binary
      BY <3>1, <3>2
         DEF end_of_binary, binary_size, metadata, FlashWord, FlashByte
    <3>4. /\ ctx'.ram_start = rel_ram_sec_end
          /\ ctx'.nvm_start = ROUND(end_of_binary, PADDING_MPU_ALIGNMENT)
      BY <1>0, <3>1 DEF FreedCtx, TypeOK
    <3> QED
      BY <2>6, <3>3, <3>4 DEF HandedBack
  <2> QED
    BY <1>0, <2>1, <2>3, <2>4, <2>5, <2>7 DEF RamInv, WritesWithinBlock
<1>5. ASSUME CopyRomRam \/ ZeroRam \/ RelocateGot \/ PatchPointers
      PROVE  /\ EnoughRam /\ EnoughRam'
             /\ WellSized' <=> WellSized
             /\ WellSized =>
                  DOMAIN ram \subseteq rel_got_sec_addr .. (rel_ram_sec_end - 1)
             /\ UNCHANGED <<file, ctx, size, rel_got_sec_addr>>
             /\ pc' \in Loading \cup {"dead"}
             /\ rel_ram_sec_end' = rel_ram_sec_end
             /\ HandedBack'
  <2>1. pc \in Loading
    BY <1>5 DEF CopyRomRam, ZeroRam, RelocateGot, PatchPointers
  <2>2. UNCHANGED <<file, ctx, size, rel_got_sec_addr>>
    BY <1>5 DEF CopyRomRam, ZeroRam, RelocateGot, PatchPointers
  <2>3. pc' \in Loading \cup {"dead"}
    BY <1>5, <2>1
       DEF CopyRomRam, ZeroRam, RelocateGot, PatchPointers, Goto, Die
  <2> HIDE DEF Loading, Loops
  <2> QED
    BY <2>1, <2>2, <2>3, LoopsKeepLayout DEF RamInv, WritesWithinBlock
<1>6. CASE CopyRomRam
  <2>1. pc' \in {"copy_rom_ram", "zero_ram"} /\ (pc' = "zero_ram" => done' = 0)
    BY <1>6 DEF CopyRomRam, Goto
  <2>2. ASSUME WellSized
        PROVE  DOMAIN ram' \subseteq rel_got_sec_addr .. (rel_ram_sec_end - 1)
    <3>1. CASE done < rom_ram_sec_size
      <4> DEFINE n   == ChunkSize(rom_ram_sec_size - done)
                 src == Add(rom_ram_sec_addr, done)
                 s   == [j \in 1 .. n |-> FlashByte(Add(src, j - 1))]
      <4>1. ram' = Store(ram, Add(rel_rom_ram_sec_addr, done), s)
        BY <1>0, <1>6, <2>2, <3>1, Unwrapped DEF CopyRomRam
      <4>2. n \in 1 .. (rom_ram_sec_size - done)
        BY <1>0, <2>2, <3>1, Unwrapped, ChunkSizeBounds
      <4> HIDE DEF n
      <4>3. n \in Nat /\ Len(s) = n
        BY <4>2
      <4> HIDE DEF s
      <4>4. Add(rel_rom_ram_sec_addr, done)
              = rel_got_sec_addr + (got_sec_size + done)
        BY <1>0, <2>2, <3>1, Unwrapped, WordModFacts DEF Add
      <4>5. got_sec_size + done \in Nat /\ (got_sec_size + done) + n <= RamSize
        BY <1>0, <2>2, <4>2, Unwrapped
      <4> QED
        BY <1>0, <1>5, <1>6, <2>2, <4>1, <4>3, <4>4, <4>5, StoreInBlock
    <3>2. CASE ~(done < rom_ram_sec_size)
      BY <1>5, <1>6, <2>2, <3>2 DEF CopyRomRam
    <3> QED
      BY <3>1, <3>2
  <2> QED
    BY <1>0, <1>5, <1>6, <2>1, <2>2 DEF RamInv, WritesWithinBlock
<1>7. CASE ZeroRam
  <2>1. done % 4 = 0
    BY <1>0, <1>7 DEF ZeroRam, RamInv
  <2>2. pc' \in {"zero_ram", "relocate_got"} /\ done' % 4 = 0
    BY <1>0, <1>7, <2>1, WordModFacts
       DEF ZeroRam, Goto, NextWord, Add
  <2>3. ASSUME WellSized
        PROVE  DOMAIN ram' \subseteq rel_got_sec_addr .. (rel_ram_sec_end - 1)
    <3>1. CASE MoreRam
      <4>1. ram' = Store(ram, Add(rel_ram_sec_addr, done), to_word(0))
        BY <1>7, <3>1 DEF ZeroRam
      <4>2. Len(to_word(0)) = 4
        BY DEF to_word
      <4>3. done + 4 <= ram_sec_size
        BY <1>0, <2>1, <2>3, <3>1, Unwrapped DEF WellSized, MoreRam
      <4> DEFINE k == got_sec_size + rom_ram_sec_size + done
      <4>4. Add(rel_ram_sec_addr, done) = rel_got_sec_addr + k
        BY <1>0, <2>3, <4>3, Unwrapped, WordModFacts DEF Add
      <4>5. k \in Nat /\ k + 4 <= RamSize
        BY <1>0, <2>3, <4>3, Unwrapped
      <4> HIDE DEF k
      <4> QED
        BY <1>0, <1>5, <1>7, <2>3, <4>1, <4>2, <4>4, <4>5, StoreInBlock
    <3>2. CASE ~MoreRam
      BY <1>5, <1>7, <2>3, <3>2 DEF ZeroRam
    <3> QED
      BY <3>1, <3>2
  <2> QED
    BY <1>0, <1>5, <1>7, <2>2, <2>3 DEF RamInv, WritesWithinBlock
<1>8. CASE RelocateGot
  <2>1. done % 4 = 0
    BY <1>0, <1>8 DEF RelocateGot, RamInv
  <2>2. /\ pc' \in {"relocate_got", "patch_pointers", "dead"}
        /\ pc' = "relocate_got" => done' % 4 = 0
    BY <1>0, <1>8, <2>1, WordModFacts
       DEF RelocateGot, Goto, Die, NextWord, Add
  <2>3. ASSUME WellSized
        PROVE  DOMAIN ram' \subseteq rel_got_sec_addr .. (rel_ram_sec_end - 1)
    <3>1. \/ UNCHANGED ram
          \/ /\ done < got_sec_size
             /\ \E off \in {FlashWord(Add(got_sec_addr, done))} :
                  ram' = Store(ram, Add(rel_got_sec_addr, done),
                               to_word(Address(off)))
      BY <1>8 DEF RelocateGot
    <3>2. CASE UNCHANGED ram
      BY <1>5, <1>8, <2>3, <3>2
    <3>3. CASE /\ done < got_sec_size
               /\ \E off \in {FlashWord(Add(got_sec_addr, done))} :
                    ram' = Store(ram, Add(rel_got_sec_addr, done),
                                 to_word(Address(off)))
      <4>1. PICK off : ram' = Store(ram, Add(rel_got_sec_addr, done),
                                    to_word(Address(off)))
        BY <3>3
      <4>2. Len(to_word(Address(off))) = 4
        BY DEF to_word
      <4>3. done + 4 <= got_sec_size
        BY <1>0, <2>1, <2>3, <3>3, Unwrapped DEF WellSized
      <4>4. Add(rel_got_sec_addr, done) = rel_got_sec_addr + done
        BY <1>0, <2>3, <4>3, Unwrapped, WordModFacts DEF Add
      <4>5. done + 4 <= RamSize
        BY <1>0, <2>3, <4>3, Unwrapped
      <4> QED
        BY <1>0, <1>5, <1>8, <2>3, <4>1, <4>2, <4>4, <4>5, StoreInBlock
    <3> QED
      BY <3>1, <3>2, <3>3
  <2> QED
    BY <1>0, <1>5, <1>8, <2>2, <2>3 DEF RamInv, WritesWithinBlock
<1>9. CASE PatchPointers
  <2>1. pc' \in {"patch_pointers", "branch", "dead"}
    BY <1>9 DEF PatchPointers, Goto, Die
  <2>2. ASSUME WellSized
        PROVE  DOMAIN ram' \subseteq rel_got_sec_addr .. (rel_ram_sec_end - 1)
    <3>1. CASE UNCHANGED ram
      BY <1>5, <1>9, <2>2, <3>1
    <3>2. ASSUME NEW k \in Nat, NEW x, k + 4 <= RamSize,
                 ram' = Store(ram, rel_got_sec_addr + k, to_word(x))
          PROVE  DOMAIN ram' \subseteq rel_got_sec_addr .. (rel_ram_sec_end - 1)
      <4>1. Len(to_word(x)) = 4
        BY DEF to_word
      <4> QED
        BY <1>0, <1>5, <1>9, <2>2, <3>2, <4>1, StoreInBlock
    <3>3. TypeOK
      BY DEF RamInv
    <3> QED
      BY <1>9, <2>2, <3>1, <3>2, <3>3, PatchBehindGot
  <2> QED
    BY <1>0, <1>5, <1>9, <2>1, <2>2 DEF RamInv, WritesWithinBlock
<1>10. CASE Branch \/ UNCHANGED vars
  <2>1. UNCHANGED <<file, ctx, size, rel_got_sec_addr, ram, done>>
    BY <1>10 DEF Branch, vars
  <2>2. pc' = pc \/ (pc = "branch" /\ pc' = "started")
    BY <1>10 DEF Branch, vars
  <2>3. WritesWithinBlock'
    BY <2>1, LoopsKeepLayout DEF RamInv, WritesWithinBlock
  <2> QED
    BY <1>0, <2>1, <2>2, <2>3, LoopsKeepLayout DEF RamInv
<1> QED
  BY <1>1, <1>2, <1>3, <1>4, <1>6, <1>7, <1>8, <1>9, <1>10 DEF Next

(* A store happens only behind the check, which covers the block.          *)
LEMMA BlockWithinRam == RamInv => WritesWithinRam
<1> SUFFICES ASSUME RamInv, WellSized, NEW a \in DOMAIN ram
             PROVE  a \in rel_got_sec_addr .. (ctx.ram_end - 1)
  BY DEF WritesWithinRam
<1>1. TypeOK /\ EnoughRam /\ a \in rel_got_sec_addr .. (rel_ram_sec_end - 1)
  BY DEF RamInv, WritesWithinBlock
<1>2. SizesTyped /\ ctx.ram_end \in Nat
  <2>1. SizesTyped /\ ctx.ram_end \in Word
    BY <1>1, ReadTypes DEF TypeOK
  <2> QED
    BY <2>1, WordNat
<1>3. rel_got_sec_addr \in Nat /\ rel_ram_sec_end \in Nat
  BY <1>2, Unwrapped
<1> QED
  BY <1>1, <1>2, <1>3 DEF EnoughRam

(* The loader stores nothing outside of the RAM it was given, whatever     *)
(* file it finds itself in, sound or not, as long as the sizes in its      *)
(* footer are words and fit in the address space: one check before the     *)
(* loops of _start() covers all their stores.                              *)
THEOREM StoresInBounds == Spec => []WritesWithinRam
<1>1. Init => RamInv
  BY InitRam
<1>2. RamInv /\ [Next]_vars => RamInv'
  BY StepRam
<1>3. RamInv => WritesWithinRam
  BY BlockWithinRam
<1> QED
  BY <1>1, <1>2, <1>3, PTL DEF Spec

(* The first 32-byte boundary behind the file, where the size in the       *)
(* metadata is the size of the file.                                       *)
Truthful ==
  /\ binary_size = Len(file.bytes)
  /\ ctx.bin_base + Len(file.bytes) + PADDING_MPU_ALIGNMENT <= WordMod

LEMMA FilePlaced ==
  ASSUME TypeOK
  PROVE  Len(file.bytes) \in Nat /\ ctx.bin_base \in Nat
<1>1. file.bytes \in Seq(Byte) /\ ctx.bin_base \in Word
  BY DEF TypeOK
<1> QED
  BY <1>1, WordNat

LEMMA FlashBehindFile ==
  ASSUME TypeOK, Truthful
  PROVE  LET nvm == ROUND(end_of_binary, PADDING_MPU_ALIGNMENT)
         IN  /\ nvm % PADDING_MPU_ALIGNMENT = 0
             /\ nvm - (ctx.bin_base + Len(file.bytes))
                  \in 0 .. (PADDING_MPU_ALIGNMENT - 1)
<1> DEFINE e == ctx.bin_base + Len(file.bytes)
<1>1. e \in Nat /\ e + 32 <= WordMod
  <2>1. Len(file.bytes) \in Nat /\ ctx.bin_base \in Nat
    BY FilePlaced
  <2> QED
    BY <2>1 DEF Truthful, PADDING_MPU_ALIGNMENT
<1>2. end_of_binary = e
  BY <1>1, WordModFacts DEF end_of_binary, Truthful, Add
<1> HIDE DEF e
<1> DEFINE r == (e + 31) - ((e + 31) % 32)
<1>3. r \in e .. (e + 31) /\ r % 32 = 0
  BY <1>1
<1>4. round(e, 32) = r
  BY <1>1 DEF round
<1> HIDE DEF r
<1>5. ROUND(e, 32) = r
  BY <1>1, <1>3, <1>4, WordModFacts DEF ROUND, Add
<1>6. r % 32 = 0 /\ r - e \in 0 .. 31
  BY <1>1, <1>3
<1> QED
  BY <1>2, <1>5, <1>6 DEF PADDING_MPU_ALIGNMENT, e

(* What the context hands back is unused: whatever the file and the        *)
(* relocations in it, no byte behind the new ram_start was stored to, and  *)
(* the new nvm_start is the first boundary behind the file, as long as the *)
(* metadata tells the size of the file and it does not end at the end of   *)
(* the address space.                                                      *)
THEOREM HandsBackUnused == Spec => [](Truthful => FreeMemoryIsFree)
<1>1. Init => RamInv
  BY InitRam
<1>2. RamInv /\ [Next]_vars => RamInv'
  BY StepRam
<1>3. RamInv => (Truthful => FreeMemoryIsFree)
  <2> SUFFICES ASSUME RamInv, Truthful, pc \in Loading, WellSized
               PROVE  /\ \A a \in DOMAIN ram : a < ctx.ram_start
                      /\ ctx.ram_start <= ctx.ram_end
                      /\ ctx.nvm_start % PADDING_MPU_ALIGNMENT = 0
                      /\ ctx.nvm_start - (ctx.bin_base + Len(file.bytes))
                           \in 0 .. (PADDING_MPU_ALIGNMENT - 1)
    BY DEF FreeMemoryIsFree
  <2>1. TypeOK /\ EnoughRam /\ HandedBack
    BY DEF RamInv
  <2>2. SizesTyped
    BY <2>1, ReadTypes
  <2>3. rel_got_sec_addr \in Nat /\ rel_ram_sec_end \in Nat
    BY <2>2, Unwrapped
  <2>4. \A a \in DOMAIN ram : a < ctx.ram_start
    BY <2>1, <2>3 DEF RamInv, WritesWithinBlock, HandedBack
  <2> QED
    BY <2>1, <2>4, FlashBehindFile DEF EnoughRam, HandedBack
<1> QED
  BY <1>1, <1>2, <1>3, PTL DEF Spec

-----------------------------------------------------------------------------
(***************************************************************************)
(* Patching pointers leaves the relocated GOT alone.                       *)
(***************************************************************************)
LEMMA PatchKeepsGot ==
  ASSUME TypeOK, WellSized, PatchPointers,
         NEW a \in DOMAIN ram, a \in Span(rel_got_sec_addr, got_sec_size)
  PROVE  ram'[a] = ram[a]
<1>1. CASE UNCHANGED ram
  BY <1>1
<1>2. ASSUME NEW k \in Nat, NEW x, got_sec_size <= k, k + 4 <= RamSize,
             ram' = Store(ram, rel_got_sec_addr + k, to_word(x))
      PROVE  ram'[a] = ram[a]
  <2> DEFINE b == rel_got_sec_addr + k
  <2>1. SizesTyped
    BY ReadTypes
  <2>2. /\ rel_got_sec_addr \in Nat /\ got_sec_size \in Nat
        /\ RamSize \in Nat /\ rel_got_sec_addr + RamSize < WordMod
        /\ got_sec_size <= RamSize
    BY <2>1, Unwrapped
  <2>3. a \in rel_got_sec_addr .. (rel_got_sec_addr + got_sec_size - 1)
    <3>1. rel_got_sec_addr \in Word /\ rel_got_sec_addr + got_sec_size <= WordMod
      BY <2>2, WordModFacts DEF Word
    <3> QED
      BY <2>2, <3>1, SpanInRange
  <2>4. Span(b, 4) = b .. (b + 4 - 1)
    <3>1. b \in Word /\ b + 4 <= WordMod
      BY <1>2, <2>2, WordModFacts DEF Word
    <3> QED
      BY <3>1, SpanInRange
  <2>5. b \in Nat /\ b >= rel_got_sec_addr + got_sec_size
    BY <1>2, <2>2
  <2>6. Len(to_word(x)) = 4
    BY DEF to_word
  <2>7. ram' = Store(ram, b, to_word(x))
    BY <1>2
  <2> HIDE DEF b
  <2>8. a \notin Span(b, 4)
    BY <2>2, <2>3, <2>4, <2>5
  <2> QED
    BY <2>6, <2>7, <2>8 DEF Store
<1> QED
  BY <1>1, <1>2, PatchBehindGot

(* Whatever relocation table the loader finds, patching the pointers       *)
(* leaves alone every byte of the GOT that was relocated before.           *)
THEOREM PatchingKeepsGot == Spec => GotSettled
<1>1. TypeOK /\ [Next]_vars
        => [pc = "patch_pointers" /\ WellSized =>
              \A a \in DOMAIN ram :
                a \in Span(rel_got_sec_addr, got_sec_size)
                  => ram'[a] = ram[a]]_vars
  <2> SUFFICES ASSUME TypeOK, Next, pc = "patch_pointers", WellSized,
                      NEW a \in DOMAIN ram,
                      a \in Span(rel_got_sec_addr, got_sec_size)
               PROVE  ram'[a] = ram[a]
    OBVIOUS
  <2>1. PatchPointers
    BY DEF Next, CheckVersion, SkipPadding, LayOut, CheckRam, CopyRomRam,
           ZeroRam, RelocateGot, Branch
  <2> QED
    BY <2>1, PatchKeepsGot
<1> QED
  BY <1>1, TypeCorrect, PTL DEF Spec, GotSettled

-----------------------------------------------------------------------------
(***************************************************************************)
(* Files as build_fae.py writes them.                                      *)
(***************************************************************************)

(* What the file record says of a file that was built.                     *)
Built(f) ==
  /\ ElfTyped(f.elf) /\ f.align \in Nat
  /\ f.bytes = concatenate_and_pad(f.elf, f.align)
  /\ f.metadataOff = Len(f.elf.crt0)
  /\ f.partition = metadata_size(f.elf, f.align)
  /\ f.gdbinit = generate_gdbinit(f.elf, f.align)

(* The file does not reach the end of the address space.                   *)
BuiltFile ==
  /\ FlashTyped /\ file \in Files /\ Built(file)
  /\ ctx.bin_base + Len(file.bytes) < WordMod

(* The bytes of a part of the file are found in flash.                     *)
LEMMA FlashHas ==
  ASSUME FlashTyped, NEW k, NEW t \in Seq(Byte), HasAt(file.bytes, k, t),
         NEW i \in 1 .. Len(t)
  PROVE  FlashByte(ctx.bin_base + k + i - 1) = t[i]
<1> DEFINE base == ctx.bin_base
           b    == file.bytes
<1>1. base \in Nat /\ Len(b) \in Nat
  BY WordModFacts DEF FlashTyped, Word
<1>2. k \in Nat /\ k + Len(t) <= Len(b) /\ b[k + i] = t[i] /\ Len(t) \in Nat
  BY DEF HasAt
<1>3. (base + k + i - 1) - base + 1 = k + i /\ k + i \in 1 .. Len(b)
  <2> HIDE DEF base, b
  <2> QED
    BY <1>1, <1>2
<1> QED
  BY <1>2, <1>3 DEF FlashByte

(* So are the words.                                                       *)
LEMMA FlashReads ==
  ASSUME FlashTyped, NEW k, NEW x \in Word, HasAt(file.bytes, k, to_word(x))
  PROVE  FlashWord(ctx.bin_base + k) = x
<1> DEFINE a == ctx.bin_base + k
           w == to_word(x)
<1>1. w \in Seq(Byte) /\ Len(w) = 4
  BY ToWordType
<1>2. a \in Nat /\ k \in Nat
  <2>1. ctx.bin_base \in Nat /\ k \in Nat
    BY WordModFacts DEF FlashTyped, Word, HasAt
  <2> QED
    BY <2>1
<1>3. \A i \in 1 .. 4 : FlashByte(a + i - 1) = w[i]
  BY <1>1, FlashHas
<1> HIDE DEF a, w
<1>4. /\ FlashByte(a) = w[1] /\ FlashByte(a + 1) = w[2]
      /\ FlashByte(a + 2) = w[3] /\ FlashByte(a + 3) = w[4]
  <2>1. a + 1 - 1 = a /\ a + 2 - 1 = a + 1 /\ a + 3 - 1 = a + 2 /\ a + 4 - 1 = a + 3
    BY <1>2
  <2> QED
    BY <1>3, <2>1
<1>5. from_bytes(w[1], w[2], w[3], w[4]) = x
  BY WordSurvives DEF w
<1> QED
  BY <1>4, <1>5 DEF FlashWord, a

(* The loader reads what build_fae.py wrote.                               *)
LEMMA ReadsBuilt ==
  ASSUME BuiltFile
  PROVE  /\ metadata = ctx.bin_base + Len(file.elf.crt0)
         /\ end_of_binary = ctx.bin_base + Len(file.bytes)
         /\ binary_size = Len(file.bytes)
         /\ FooterSizes = [rom     |-> Len(file.elf.rom),
                           got     |-> Len(file.elf.got),
                           rom_ram |-> Len(file.elf.rom_ram),
                           ram     |-> file.elf.ram_size]
         /\ entry_point_offset = file.elf.start
         /\ Footer(FOOTER_MAGIC_NUMBER_AND_VERSION_OFFSET) = file.elf.magic
         /\ entry_number = Len(file.elf.rel)
         /\ \A i \in 0 .. (Len(file.elf.rel) - 1) :
              FlashWord(EntryAddr(i)) = file.elf.rel[i + 1]
         /\ EntryAddr(Len(file.elf.rel))
              = ctx.bin_base + compute_header_size(file.elf)
         /\ compute_header_size(file.elf) <= file.partition
         /\ file.partition + Len(file.elf.rom) + Len(file.elf.got)
              + Len(file.elf.rom_ram) <= Len(file.bytes)
         /\ file.partition \in Nat
<1> DEFINE e    == file.elf
           al   == file.align
           b    == file.bytes
           base == ctx.bin_base
           c    == Len(e.crt0)
           n    == Len(e.rel)
           o    == Len(e.rom)
           g    == Len(e.got)
           d    == Len(e.rom_ram)
           h    == compute_header_size(e)
           t    == compute_text_alignment(e, al)
           m    == metadata_size(e, al)
           raw  == raw_binary_size(e, al)
           p    == padding_size(raw)
           L    == file_size(e, al)
<1>1. /\ ElfTyped(e) /\ al \in Nat /\ b = concatenate_and_pad(e, al)
      /\ file.metadataOff = c /\ file.partition = m
  BY DEF BuiltFile, Built
<1>2. /\ Metadata(b, e, al) /\ Partition(b, e, al) /\ FooterAt(b, e, al)
      /\ Len(b) = L
  BY <1>1, Layout
<1>3. /\ c \in Nat /\ n \in Nat /\ o \in Nat /\ g \in Nat /\ d \in Nat
      /\ e.rel \in Seq(Word)
      /\ e.ram_size \in Word /\ e.start \in Word /\ e.magic \in Word
  BY <1>1 DEF ElfTyped
<1>4. /\ h = c + 8 + 4 * n /\ h \in Nat /\ t \in Nat /\ m = h + t
      /\ p \in 0 .. 31 /\ L = raw + p + 28
  BY <1>1, Sizes
<1>5. raw = m + o + g + d
  BY DEF raw_binary_size
<1>6. base \in Nat /\ base + L < WordMod /\ WordMod \in Nat
  BY <1>2, WordModFacts DEF BuiltFile, FlashTyped, Word
<1>7. /\ HasAt(b, c, to_word(L)) /\ HasAt(b, c + 4, to_word(n))
      /\ HasAt(b, c + 8, Concat(e.rel))
  BY <1>2, Zenon DEF Metadata
<1>8. /\ HasAt(b, L - 28, to_word(e.ram_size)) /\ HasAt(b, L - 24, to_word(g))
      /\ HasAt(b, L - 20, to_word(o)) /\ HasAt(b, L - 16, to_word(d))
      /\ HasAt(b, L - 12, to_word(e.start)) /\ HasAt(b, L - 4, to_word(e.magic))
  BY <1>2, Zenon DEF FooterAt
<1>9. \A i \in 1 .. n : HasAt(Concat(e.rel), 4 * (i - 1), to_word(e.rel[i]))
  BY <1>3, ConcatType
<1>10. Len(Concat(e.rel)) = 4 * n
  BY <1>3, ConcatType
<1>11. FlashTyped
  BY DEF BuiltFile
<1>12. ctx.bin_base = base /\ Len(file.bytes) = L /\ file.metadataOff = c
  BY <1>1, <1>2
<1> HIDE DEF c, n, o, g, d, h, t, m, p, raw, L, base
<1>13. /\ raw \in Nat /\ L \in Nat /\ h <= m /\ m + o + g + d <= L /\ m \in Nat
       /\ c \in Word /\ n \in Word /\ o \in Word /\ g \in Word /\ d \in Word
       /\ L \in Word /\ c + 8 + 4 * n <= L
  <2>1. m \in Nat /\ raw \in Nat /\ raw >= m /\ L >= raw + 28 /\ h <= m
    BY <1>3, <1>4, <1>5
  <2>2. L \in Nat /\ L < WordMod
    BY <1>4, <1>6, <2>1
  <2>3. c + 8 + 4 * n <= L /\ m + o + g + d <= L
    BY <1>3, <1>4, <1>5, <2>1, <2>2
  <2>4. \A x \in {c, n, o, g, d, L} : x \in Nat /\ x <= L
    BY <1>3, <2>1, <2>2, <2>3
  <2>5. \A x \in {c, n, o, g, d, L} : x \in Word
    BY <1>6, <2>2, <2>4, WordModFacts DEF Word
  <2> QED
    BY <2>1, <2>2, <2>3, <2>5
<1>14. metadata = base + c
  BY <1>3, <1>6, <1>12, <1>13 DEF metadata, Add
<1>15. binary_size = L
  BY <1>7, <1>11, <1>12, <1>13, <1>14, FlashReads DEF binary_size
<1>16. end_of_binary = base + L
  BY <1>6, <1>12, <1>13, <1>15 DEF end_of_binary, Add
<1>17. ASSUME NEW k, NEW x \in Word, HasAt(b, L - k, to_word(x)), k \in Nat
       PROVE  Footer(-k) = x
  <2>1. FlashWord(base + (L - k)) = x
    BY <1>11, <1>12, <1>17, FlashReads
  <2>2. base + L + (-k) = base + (L - k)
    BY <1>6, <1>13, <1>17
  <2> QED
    BY <1>16, <2>1, <2>2 DEF Footer
<1>18. /\ Footer(-28) = e.ram_size /\ Footer(-24) = g /\ Footer(-20) = o
       /\ Footer(-16) = d /\ Footer(-12) = e.start /\ Footer(-4) = e.magic
  BY <1>3, <1>8, <1>13, <1>17
<1>19. entry_number = n
  <2>1. Add(metadata, 4) = base + (c + 4)
    BY <1>3, <1>6, <1>13, <1>14 DEF Add
  <2> QED
    BY <1>7, <1>11, <1>12, <1>13, <2>1, FlashReads DEF entry_number, WORD_BYTESIZE
<1>20. ASSUME NEW i \in 0 .. n
       PROVE  EntryAddr(i) = base + (c + 8 + 4 * i)
  <2>1. i \in Nat /\ base + c + 8 + 4 * i < WordMod
    BY <1>3, <1>6, <1>13
  <2>2. Twice(i) = 2 * i
    BY <1>3, <1>6, <2>1 DEF Twice, Add
  <2>3. Twice(2 * i) = 4 * i
    BY <1>3, <1>6, <2>1 DEF Twice, Add
  <2>4. Add(metadata, 8) = base + c + 8
    BY <1>3, <1>6, <1>14, <2>1 DEF Add
  <2>5. Add(base + c + 8, 4 * i) = base + (c + 8 + 4 * i)
    BY <1>3, <1>6, <2>1 DEF Add
  <2> QED
    BY <2>2, <2>3, <2>4, <2>5 DEF EntryAddr, WORD_BYTESIZE
<1>21. ASSUME NEW i \in 0 .. (n - 1)
       PROVE  FlashWord(EntryAddr(i)) = e.rel[i + 1]
  <2> DEFINE w == to_word(e.rel[i + 1])
  <2>1. i + 1 \in 1 .. n /\ i \in 0 .. n /\ (i + 1) - 1 = i
    BY <1>3
  <2>2. e.rel[i + 1] \in Word
    BY <1>3, <2>1 DEF n
  <2>3. Len(w) = 4
    BY DEF to_word
  <2>4. HasAt(Concat(e.rel), 4 * i, w)
    BY <1>9, <2>1
  <2> HIDE DEF w
  <2>5. HasAt(b, (c + 8) + 4 * i, w)
    BY <1>7, <2>4, PartOfPart
  <2>6. FlashWord(base + (c + 8 + 4 * i)) = e.rel[i + 1]
    BY <1>11, <1>12, <2>2, <2>5, FlashReads DEF w
  <2> QED
    BY <1>20, <2>1, <2>6
<1>22. EntryAddr(n) = base + h
  BY <1>3, <1>4, <1>20
<1>23. /\ FooterSizes = [rom |-> o, got |-> g, rom_ram |-> d, ram |-> e.ram_size]
       /\ entry_point_offset = e.start
       /\ Footer(FOOTER_MAGIC_NUMBER_AND_VERSION_OFFSET) = e.magic
  BY <1>18
     DEF FooterSizes, entry_point_offset, FOOTER_ROM_SIZE_OFFSET,
         FOOTER_GOT_SIZE_OFFSET, FOOTER_ROM_RAM_SIZE_OFFSET,
         FOOTER_RAM_SIZE_OFFSET, FOOTER_ENTRYPOINT_OFFSET,
         FOOTER_MAGIC_NUMBER_AND_VERSION_OFFSET
<1>24. file.partition = m
  BY <1>1 DEF m
<1> QED
  BY <1>12, <1>13, <1>14, <1>15, <1>16, <1>19, <1>21, <1>22, <1>23, <1>24
     DEF c, n, o, g, d, h, base

-----------------------------------------------------------------------------
(***************************************************************************)
(* The layout of a built file, as the loader finds it.                     *)
(*                                                                         *)
(* The invariant says at which statement the loader knows what: the sizes  *)
(* from the check of the version on, the place of the block in RAM once    *)
(* the sections are laid out, and the start of .rom when it has skipped    *)
(* the padding, which is why the padding must end where .rom begins.       *)
(***************************************************************************)
BlockSize(e) == Len(e.got) + Len(e.rom_ram) + e.ram_size

(* Every file was built, and has room in the address space: in flash, and  *)
(* with its block in RAM.                                                  *)
AllBuilt == \A f \in Files : Built(f)

RoomForAll ==
  \A f \in Files, c \in Contexts :
    /\ c.bin_base + Len(f.bytes) < WordMod
    /\ c.ram_start + BlockSize(f.elf) < WordMod

(* The first byte of .rom does not look like padding.                      *)
TextBegins(e) == e.rom # << >> /\ e.rom[1] # TEXT_ALIGNMENT_PADDING_VALUE

BlockStart == IF current_got = None THEN ctx.ram_start ELSE current_got

Measured == pc \in Loading \cup {"skip_padding", "check_ram"} \/ err > 0
LaidOut  == pc \in Loading \cup {"check_ram"} \/ err > 0

MeasuredRight ==
  size = [rom     |-> Len(file.elf.rom),
          got     |-> Len(file.elf.got),
          rom_ram |-> Len(file.elf.rom_ram),
          ram     |-> file.elf.ram_size]

Text == ctx.bin_base + file.partition

BuiltInv ==
  /\ TypeOK
  /\ BuiltFile
  /\ BlockStart + BlockSize(file.elf) < WordMod
  /\ err # None => pc = "dead"
  /\ pc \in {"check_version", "skip_padding"} => current_got = None
  /\ Measured => MeasuredRight
  /\ LaidOut => current_got # None /\ rel_got_sec_addr = current_got
  /\ TextBegins(file.elf) /\ pc = "skip_padding" =>
       rom_sec_addr \in (ctx.bin_base + compute_header_size(file.elf)) .. Text
  /\ TextBegins(file.elf) /\ pc \in Loading \cup {"check_ram"} =>
       rom_sec_addr = Text

(* Until the padding is skipped, every byte is padding, and none is at the *)
(* start of .rom.                                                          *)
LEMMA PaddingEnds ==
  ASSUME BuiltFile, TextBegins(file.elf),
         NEW a \in (ctx.bin_base + compute_header_size(file.elf)) .. Text
  PROVE  FlashByte(a) = TEXT_ALIGNMENT_PADDING_VALUE <=> a # Text
<1> DEFINE e    == file.elf
           al   == file.align
           b    == file.bytes
           base == ctx.bin_base
           h    == compute_header_size(e)
           t    == compute_text_alignment(e, al)
           m    == file.partition
<1>1. /\ ElfTyped(e) /\ al \in Nat /\ b = concatenate_and_pad(e, al)
      /\ m = metadata_size(e, al) /\ FlashTyped
  BY DEF BuiltFile, Built
<1>2. HasAt(b, h, Filler(t, 0)) /\ HasAt(b, m, e.rom)
  <2>1. Metadata(b, e, al) /\ Partition(b, e, al)
    BY <1>1, Layout
  <2> QED
    BY <1>1, <2>1, Zenon DEF Metadata, Partition
<1>3. m = h + t /\ h \in Nat /\ t \in Nat
  BY <1>1, Sizes
<1>4. base \in Nat
  BY <1>1, WordModFacts DEF FlashTyped, Word
<1>5. CASE a = Text
  <2>1. e.rom \in Seq(Byte) /\ 1 \in 1 .. Len(e.rom) /\ e.rom[1] # 0
    BY <1>1 DEF ElfTyped, TextBegins, TEXT_ALIGNMENT_PADDING_VALUE
  <2>2. FlashByte(base + m + 1 - 1) = e.rom[1]
    BY <1>1, <1>2, <2>1, FlashHas
  <2>3. base + m + 1 - 1 = a
    BY <1>3, <1>4, <1>5 DEF Text
  <2> QED
    BY <1>5, <2>1, <2>2, <2>3 DEF TEXT_ALIGNMENT_PADDING_VALUE
<1>6. CASE a # Text
  <2> DEFINE i == a - base - h + 1
             f == Filler(t, 0)
  <2>1. a \in (base + h) .. (base + m)
    BY DEF Text
  <2>2. i \in 1 .. t /\ base + h + i - 1 = a
    <3> HIDE DEF base, h, t, m
    <3> QED
      BY <1>3, <1>4, <1>6, <2>1 DEF Text, m, base
  <2>3. f \in Seq(Byte) /\ Len(f) = t
    BY <1>3, FillerType, ByteBaseAssumption DEF Byte
  <2> HIDE DEF i
  <2>4. f[i] = 0
    BY <2>2 DEF Filler
  <2> HIDE DEF f
  <2>5. FlashByte(base + h + i - 1) = 0
    BY <1>1, <1>2, <2>2, <2>3, <2>4, FlashHas DEF f
  <2> QED
    BY <1>6, <2>2, <2>5 DEF TEXT_ALIGNMENT_PADDING_VALUE
<1> QED
  BY <1>5, <1>6

LEMMA InitBuilt == AllBuilt /\ RoomForAll /\ Init => BuiltInv
<1> SUFFICES ASSUME AllBuilt, RoomForAll, Init PROVE BuiltInv
  OBVIOUS
<1>1. TypeOK
  BY InitType
<1>2. FlashTyped
  BY <1>1, ReadTypes
<1>3. file \in Files /\ ctx \in Contexts /\ pc = "check_version"
      /\ current_got = None /\ err = None
  BY DEF Init
<1>4. BuiltFile /\ BlockStart + BlockSize(file.elf) < WordMod
  BY <1>2, <1>3 DEF AllBuilt, RoomForAll, BuiltFile, BlockStart
<1> QED
  BY <1>1, <1>3, <1>4 DEF BuiltInv, Measured, LaidOut, Loading, Loops, None

(* What the steps leave alone.                                             *)
LEMMA BuiltStays ==
  ASSUME BuiltFile, TypeOK, TypeOK', file' = file,
         ctx'.bin_base = ctx.bin_base
  PROVE  /\ BuiltFile' /\ Text' = Text
         /\ TextBegins(file.elf)' <=> TextBegins(file.elf)
         /\ BlockSize(file.elf)' = BlockSize(file.elf)
<1>1. FlashTyped'
  BY DEF TypeOK, FlashTyped
<1> QED
  BY <1>1 DEF BuiltFile, Built, Text, TextBegins, BlockSize

LEMMA StepBuilt == BuiltInv /\ [Next]_vars => BuiltInv'
<1> SUFFICES ASSUME BuiltInv, [Next]_vars PROVE BuiltInv'
  OBVIOUS
<1> USE DEF Loading, Loops
<1>0. TypeOK /\ TypeOK' /\ BuiltFile
  BY StepType DEF BuiltInv
<1>1. /\ ctx.bin_base \in Nat /\ file.partition \in Nat
      /\ compute_header_size(file.elf) \in Nat
      /\ compute_header_size(file.elf) <= file.partition
      /\ Text + Len(file.elf.rom) < WordMod /\ Len(file.elf.rom) \in Nat
      /\ Text \in Nat /\ Text < WordMod
  <2> DEFINE base == ctx.bin_base
             m    == file.partition
             o    == Len(file.elf.rom)
             g    == Len(file.elf.got)
             d    == Len(file.elf.rom_ram)
             h    == compute_header_size(file.elf)
             L    == Len(file.bytes)
  <2>1. /\ h <= m /\ m + o + g + d <= L /\ m \in Nat
    BY <1>0, ReadsBuilt
  <2>2. /\ o \in Nat /\ g \in Nat /\ d \in Nat /\ h \in Nat /\ L \in Nat
        /\ base \in Nat /\ base + L < WordMod
    <3>1. /\ ElfTyped(file.elf) /\ file.align \in Nat
          /\ ctx.bin_base \in Word /\ base + L < WordMod /\ file.bytes \in Seq(Byte)
      BY <1>0 DEF BuiltFile, Built, FlashTyped
    <3>2. h \in Nat
      BY <3>1, Sizes
    <3>a. L \in Nat
      <4>1. file.bytes \in Seq(Byte)
        BY <3>1
      <4> QED
        BY <4>1
    <3>3. o \in Nat /\ g \in Nat /\ d \in Nat /\ L \in Nat
      BY <3>1, <3>a, ElfNat, Zenon
    <3> QED
      BY <3>1, <3>2, <3>3, WordModFacts DEF Word
  <2>3. Text = base + m
    BY DEF Text
  <2> HIDE DEF base, m, o, g, d, h, L
  <2>4. Text + o < WordMod /\ Text \in Nat /\ Text < WordMod
    BY <2>1, <2>2, <2>3, WordModFacts
  <2> QED
    BY <2>1, <2>2, <2>4 DEF base, m, o, h
<1>2. CASE CheckVersion
  <2>1. file' = file /\ ctx' = ctx /\ current_got' = current_got
    BY <1>2 DEF CheckVersion
  <2>2. CASE pc' = "dead"
    BY <1>0, <1>2, <2>1, <2>2, BuiltStays
       DEF CheckVersion, Die, Goto, BuiltInv, BlockStart, Measured, LaidOut
  <2>3. CASE pc' # "dead"
    <3>1. /\ pc' = "skip_padding" /\ size' = FooterSizes /\ err' = err
          /\ rom_sec_addr' = EntryAddr(entry_number) /\ err = None
      BY <1>2, <2>3 DEF CheckVersion, Die, Goto, BuiltInv
    <3>2. rom_sec_addr' = ctx.bin_base + compute_header_size(file.elf)
      BY <1>0, <3>1, ReadsBuilt
    <3>3. rom_sec_addr' \in (ctx.bin_base + compute_header_size(file.elf)) .. Text
      BY <1>1, <3>2 DEF Text
    <3>4. MeasuredRight'
      BY <1>0, <2>1, <3>1, ReadsBuilt DEF MeasuredRight
    <3>5. BlockStart' = BlockStart /\ current_got' = None /\ ~ LaidOut'
      BY <1>2, <2>1, <3>1 DEF BlockStart, BuiltInv, CheckVersion, LaidOut, None
    <3> QED
      BY <1>0, <2>1, <3>1, <3>3, <3>4, <3>5, BuiltStays DEF BuiltInv
  <2> QED
    BY <2>2, <2>3
<1>3. CASE SkipPadding
  <2>1. UNCHANGED <<file, ctx, current_got, pc, size, rel_got_sec_addr, err>>
    BY <1>3 DEF SkipPadding
  <2>2. ASSUME TextBegins(file.elf)
        PROVE  rom_sec_addr'
                 \in (ctx.bin_base + compute_header_size(file.elf)) .. Text
    <3>1. rom_sec_addr \in (ctx.bin_base + compute_header_size(file.elf)) .. Text
          /\ FlashByte(rom_sec_addr) = TEXT_ALIGNMENT_PADDING_VALUE
      BY <1>3, <2>2 DEF SkipPadding, AtPadding, BuiltInv
    <3>2. rom_sec_addr # Text
      BY <1>0, <2>2, <3>1, PaddingEnds
    <3>3. rom_sec_addr' = rom_sec_addr + 1
      <4>1. rom_sec_addr \in Nat /\ rom_sec_addr + 1 < WordMod
        <5> DEFINE k == ctx.bin_base + compute_header_size(file.elf)
        <5>1. k \in Nat /\ rom_sec_addr \in k .. Text
          BY <1>1, <3>1
        <5> HIDE DEF k
        <5> QED
          BY <1>1, <3>2, <5>1, WordModFacts
      <4> QED
        BY <1>3, <4>1 DEF SkipPadding, Add
    <3> DEFINE k == ctx.bin_base + compute_header_size(file.elf)
    <3>4. k \in Nat /\ rom_sec_addr \in k .. Text
      BY <1>1, <3>1
    <3> HIDE DEF k
    <3>5. rom_sec_addr + 1 \in k .. Text
      BY <1>1, <3>2, <3>4
    <3> QED
      BY <3>3, <3>5 DEF k
  <2>3. pc = "skip_padding"
    BY <1>3 DEF SkipPadding
  <2>4. BlockStart' = BlockStart /\ (MeasuredRight' <=> MeasuredRight)
        /\ (Measured' <=> Measured) /\ (LaidOut' <=> LaidOut)
    BY <2>1 DEF BlockStart, MeasuredRight, Measured, LaidOut
  <2> QED
    BY <1>0, <2>1, <2>2, <2>3, <2>4, BuiltStays DEF BuiltInv
<1>4. CASE LayOut
  <2>1. /\ UNCHANGED <<file, ctx, size, rom_sec_addr, err>>
        /\ pc = "skip_padding" /\ pc' = "check_ram"
        /\ current_got' = ctx.ram_start /\ rel_got_sec_addr' = ctx.ram_start
    BY <1>4 DEF LayOut, Goto
  <2>2. ctx.ram_start # None
    BY <1>0, WordModFacts DEF TypeOK, None, Word
  <2>3. BlockStart' = BlockStart
    BY <2>1, <2>2 DEF BlockStart, BuiltInv
  <2>4. TextBegins(file.elf) => rom_sec_addr = Text
    BY <1>0, <1>4, <2>1, PaddingEnds DEF LayOut, AtPadding, BuiltInv
  <2>5. MeasuredRight'
    BY <2>1 DEF MeasuredRight, BuiltInv, Measured
  <2> QED
    BY <1>0, <2>1, <2>2, <2>3, <2>4, <2>5, BuiltStays DEF BuiltInv
<1>5. CASE CheckRam
  <2>1. /\ UNCHANGED <<file, size, rom_sec_addr, current_got, rel_got_sec_addr>>
        /\ pc = "check_ram" /\ pc' \in {"copy_rom_ram", "dead"}
        /\ ctx'.bin_base = ctx.bin_base
        /\ pc' = "copy_rom_ram" => err' = err
    BY <1>0, <1>5 DEF CheckRam, Goto, Die, FreedCtx, TypeOK
  <2>2. current_got # None /\ rel_got_sec_addr = current_got /\ MeasuredRight
    BY <2>1 DEF BuiltInv, LaidOut, Measured
  <2>3. BlockStart' = BlockStart
    BY <2>1, <2>2 DEF BlockStart
  <2>4. MeasuredRight'
    BY <2>1, <2>2 DEF MeasuredRight
  <2> QED
    BY <1>0, <2>1, <2>2, <2>3, <2>4, BuiltStays DEF BuiltInv
<1>6. CASE CopyRomRam \/ ZeroRam \/ RelocateGot \/ PatchPointers \/ Branch
  <2>1. UNCHANGED <<file, ctx, current_got, size, rom_sec_addr, rel_got_sec_addr>>
    BY <1>6 DEF CopyRomRam, ZeroRam, RelocateGot, PatchPointers, Branch
  <2>2. pc \in Loading /\ pc' \in Loading \cup {"dead"}
        /\ (pc' # "dead" => err' = err)
    BY <1>6 DEF CopyRomRam, ZeroRam, RelocateGot, PatchPointers, Branch, Goto, Die
  <2> HIDE DEF Loading, Loops
  <2>3. current_got # None /\ rel_got_sec_addr = current_got /\ MeasuredRight
    BY <2>2 DEF BuiltInv, LaidOut, Measured
  <2>4. BlockStart' = BlockStart /\ MeasuredRight'
    BY <2>1, <2>3 DEF BlockStart, MeasuredRight
  <2>5. pc \notin {"check_version", "skip_padding", "dead"}
        /\ pc' \notin {"check_version", "skip_padding"}
    BY <2>2 DEF Loading, Loops
  <2>6. err' # None => pc' = "dead"
    BY <2>2, <2>5 DEF BuiltInv
  <2> QED
    BY <1>0, <2>1, <2>2, <2>3, <2>4, <2>5, <2>6, BuiltStays DEF BuiltInv
<1>7. CASE UNCHANGED vars
  BY <1>0, <1>7, BuiltStays
     DEF vars, BuiltInv, BlockStart, Measured, LaidOut, MeasuredRight
<1> QED
  BY <1>2, <1>3, <1>4, <1>5, <1>6, <1>7 DEF Next

(* What every reachable state has to do with the file that was built.      *)
LEMMA BuiltAlways ==
  ASSUME AllBuilt, RoomForAll
  PROVE  Spec => []BuiltInv
<1>1. Init => BuiltInv
  BY InitBuilt
<1>2. BuiltInv /\ [Next]_vars => BuiltInv'
  BY StepBuilt
<1> QED
  BY <1>1, <1>2, PTL DEF Spec

(* What the loader skips is the padding of build_fae.py and nothing else,  *)
(* for every built file whose .rom does not begin with a zero byte: the    *)
(* condition that the run on leading zeros breaks is the only one needed.  *)
THEOREM SkipsThePadding ==
  ASSUME AllBuilt, RoomForAll, \A f \in Files : TextBegins(f.elf)
  PROVE  Spec => []SkipsOnlyPadding
<1>1. BuiltInv => SkipsOnlyPadding
  BY DEF BuiltInv, BuiltFile, SkipsOnlyPadding, Text
<1> QED
  BY <1>1, BuiltAlways, PTL

(* With an alignment that is a power of two, and a file that is aligned in *)
(* flash, the loader takes .rom to be aligned: the mask of build_fae.py    *)
(* rounds the header up to it.                                             *)
THEOREM LoadsAligned ==
  ASSUME AllBuilt, RoomForAll, \A f \in Files : TextBegins(f.elf)
  PROVE  Spec => []TextAligned
<1>1. BuiltInv => TextAligned
  <2> SUFFICES ASSUME BuiltInv, pc \in Loading \cup {"check_ram"},
                      file.align \in PowersOfTwo,
                      ctx.bin_base % file.align = 0
               PROVE  rom_sec_addr % file.align = 0
    BY DEF TextAligned
  <2> DEFINE y    == file.align
             h    == compute_header_size(file.elf)
             base == ctx.bin_base
             m    == RoundBits(h, y)
  <2>1. BuiltFile /\ TextBegins(file.elf) /\ rom_sec_addr = base + file.partition
    BY DEF BuiltInv, BuiltFile, Text
  <2>2. /\ ElfTyped(file.elf) /\ y \in Nat
        /\ file.partition = metadata_size(file.elf, y) /\ base \in Nat
    BY <2>1, WordModFacts DEF BuiltFile, Built, FlashTyped, Word
  <2>3. y \in Nat \ {0}
    BY SMT DEF PowersOfTwo
  <2>4. h \in Nat
    BY <2>2, Sizes
  <2>5. m \in Nat /\ m % y = 0
    <3> HIDE DEF h, y
    <3>1. m \in h .. (h + y - 1)
      BY <2>3, <2>4, RoundsUp
    <3>2. m % y = 0
      BY <2>4, RoundsToMultiple DEF y
    <3> QED
      BY <2>3, <2>4, <3>1, <3>2
  <2>6. file.partition = m
    <3>1. file.partition = h + compute_text_alignment(file.elf, y)
      BY <2>2 DEF metadata_size
    <3>2. compute_text_alignment(file.elf, y) = m - h
      BY <2>3, Zenon DEF compute_text_alignment
    <3> HIDE DEF h, m
    <3> QED
      BY <2>4, <2>5, <3>1, <3>2
  <2>7. base % y = 0
    OBVIOUS
  <2> HIDE DEF y, m, base
  <2>8. (base + m) % y = 0
    BY <2>2, <2>3, <2>5, <2>7, SumOfMultiples
  <2> QED
    BY <2>1, <2>6, <2>8 DEF y
<1> QED
  BY <1>1, BuiltAlways, PTL

(* Where the loader takes the sections that move to RAM to be.             *)
LEMMA BlockFound ==
  ASSUME BuiltInv, LaidOut
  PROVE  LET g == Len(file.elf.got)
             d == Len(file.elf.rom_ram)
             s == file.elf.ram_size
         IN  /\ g \in Nat /\ d \in Nat /\ s \in Nat
             /\ got_sec_size = g /\ rom_ram_sec_size = d /\ ram_sec_size = s
             /\ BlockStart \in Nat /\ BlockStart = current_got
             /\ BlockStart + (g + d + s) < WordMod
             /\ rel_got_sec_addr = BlockStart
             /\ rel_rom_ram_sec_addr = BlockStart + g
             /\ rel_ram_sec_addr = BlockStart + (g + d)
             /\ rel_ram_sec_end = BlockStart + (g + d + s)
<1> DEFINE g     == Len(file.elf.got)
           d     == Len(file.elf.rom_ram)
           s     == file.elf.ram_size
           start == BlockStart
<1>1. /\ ElfTyped(file.elf) /\ MeasuredRight
      /\ current_got # None /\ rel_got_sec_addr = current_got
      /\ start + (g + d + s) < WordMod
  BY DEF BuiltInv, BuiltFile, Built, Measured, LaidOut, BlockSize
<1>2. got_sec_size = g /\ rom_ram_sec_size = d /\ ram_sec_size = s
  BY <1>1 DEF MeasuredRight, got_sec_size, rom_ram_sec_size, ram_sec_size
<1>3. start = current_got /\ start \in Nat
  BY <1>1, WordModFacts DEF BlockStart, BuiltInv, TypeOK, Word
<1>4. g \in Nat /\ d \in Nat /\ s \in Nat
  BY <1>1, WordModFacts DEF ElfTyped, Word
<1> HIDE DEF g, d, s, start
<1>5. rel_rom_ram_sec_addr = start + g
  BY <1>1, <1>2, <1>3, <1>4, WordModFacts DEF rel_rom_ram_sec_addr, Add
<1>6. rel_ram_sec_addr = start + (g + d)
  BY <1>1, <1>2, <1>3, <1>4, <1>5, WordModFacts DEF rel_ram_sec_addr, Add
<1>7. rel_ram_sec_end = start + (g + d + s)
  BY <1>1, <1>2, <1>3, <1>4, <1>6, WordModFacts DEF rel_ram_sec_end, Add
<1> QED
  BY <1>1, <1>2, <1>3, <1>4, <1>5, <1>6, <1>7 DEF g, d, s, start

(* Where it takes the sections of the partition to be in flash.            *)
LEMMA PartitionFound ==
  ASSUME BuiltInv, TextBegins(file.elf), pc \in Loading
  PROVE  LET o == Len(file.elf.rom)
             g == Len(file.elf.got)
             d == Len(file.elf.rom_ram)
         IN  /\ o \in Nat /\ g \in Nat /\ d \in Nat
             /\ file.partition \in Nat /\ ctx.bin_base \in Nat
             /\ ctx.bin_base + (file.partition + o + g + d) < WordMod
             /\ rom_sec_addr = ctx.bin_base + file.partition
             /\ got_sec_addr = ctx.bin_base + (file.partition + o)
             /\ rom_ram_sec_addr = ctx.bin_base + (file.partition + o + g)
             /\ rom_ram_sec_size = d
<1> DEFINE base == ctx.bin_base
           m    == file.partition
           o    == Len(file.elf.rom)
           g    == Len(file.elf.got)
           d    == Len(file.elf.rom_ram)
           L    == Len(file.bytes)
<1>1. /\ BuiltFile /\ MeasuredRight /\ rom_sec_addr = base + m
      /\ ElfTyped(file.elf) /\ base + L < WordMod
  BY DEF BuiltInv, BuiltFile, Built, Measured, Text
<1>2. rom_sec_size = o /\ got_sec_size = g /\ rom_ram_sec_size = d
  BY <1>1 DEF MeasuredRight, rom_sec_size, got_sec_size, rom_ram_sec_size
<1>3. base \in Nat /\ L \in Nat
  BY <1>1, WordModFacts DEF BuiltFile, FlashTyped, Word
<1>4. o \in Nat /\ g \in Nat /\ d \in Nat
  BY <1>1 DEF ElfTyped
<1>5. m + o + g + d <= L /\ m \in Nat
  BY <1>1, ReadsBuilt
<1> HIDE DEF base, m, o, g, d, L
<1>6. got_sec_addr = base + (m + o)
  BY <1>1, <1>2, <1>3, <1>4, <1>5, WordModFacts DEF got_sec_addr, Add
<1>7. rom_ram_sec_addr = base + (m + o + g)
  BY <1>1, <1>2, <1>3, <1>4, <1>5, <1>6, WordModFacts DEF rom_ram_sec_addr, Add
<1>8. base + (m + o + g + d) < WordMod
  BY <1>1, <1>3, <1>4, <1>5, WordModFacts
<1> QED
  BY <1>1, <1>2, <1>3, <1>4, <1>5, <1>6, <1>7, <1>8 DEF base, m, o, g, d

(* What build_fae.py tells gdb is where the loader takes the sections to   *)
(* be, in flash and in RAM, for every built file whose .rom does not begin *)
(* with a zero byte.                                                       *)
THEOREM GdbIsTold ==
  ASSUME AllBuilt, RoomForAll, \A f \in Files : TextBegins(f.elf)
  PROVE  Spec => []GdbAgrees
<1>1. BuiltInv /\ RamInv => GdbAgrees
  <2> SUFFICES ASSUME BuiltInv, RamInv, pc \in Loading
               PROVE  GdbAgrees
    BY DEF GdbAgrees
  <2> DEFINE e     == file.elf
             gdb   == file.gdbinit
             base  == ctx.bin_base
             start == BlockStart
             m     == file.partition
             o     == Len(e.rom)
             g     == Len(e.got)
             d     == Len(e.rom_ram)
             s     == e.ram_size
  <2>1. TextBegins(file.elf) /\ LaidOut /\ ctx.ram_start = rel_ram_sec_end
    BY DEF BuiltInv, BuiltFile, LaidOut, RamInv, HandedBack
  <2>2. m = metadata_size(e, file.align) /\ gdb = generate_gdbinit(e, file.align)
    BY DEF BuiltInv, BuiltFile, Built
  <2>3. /\ gdb.text = m /\ gdb.got = m + o /\ gdb.data = m + o + g
        /\ gdb.flash_end = m + o + g + d
        /\ gdb.rel_got = 0 /\ gdb.rel_data = g /\ gdb.bss = g + d
        /\ gdb.ram_end = g + d + s
    BY <2>2 DEF generate_gdbinit
  <2>4. /\ rom_sec_addr = base + m /\ got_sec_addr = base + (m + o)
        /\ rom_ram_sec_addr = base + (m + o + g) /\ rom_ram_sec_size = d
        /\ base + (m + o + g + d) < WordMod
        /\ base \in Nat /\ m \in Nat /\ o \in Nat /\ g \in Nat /\ d \in Nat
    BY <2>1, PartitionFound
  <2>5. /\ rel_got_sec_addr = start /\ rel_rom_ram_sec_addr = start + g
        /\ rel_ram_sec_addr = start + (g + d)
        /\ ctx.ram_start = start + (g + d + s)
        /\ start \in Nat /\ current_got = start
    BY <2>1, BlockFound
  <2> HIDE DEF gdb, base, start, m, o, g, d, s
  <2>6. Add(rom_ram_sec_addr, rom_ram_sec_size) = base + (m + o + g + d)
    BY <2>4, WordModFacts DEF Add
  <2>7. start + 0 = start
    BY <2>5
  <2> QED
    BY <2>3, <2>4, <2>5, <2>6, <2>7 DEF GdbAgrees, gdb, base
<1>2. Init => RamInv
  BY InitRam
<1>3. RamInv /\ [Next]_vars => RamInv'
  BY StepRam
<1>4. Spec => []RamInv
  BY <1>2, <1>3, PTL DEF Spec
<1> QED
  BY <1>1, <1>4, BuiltAlways, PTL

-----------------------------------------------------------------------------
(***************************************************************************)
(* memcpy() uses its long sequences of instructions only on words.         *)
(***************************************************************************)

(* The long sequences of memcpy() move words.                              *)
LEMMA ChunkOfWords ==
  ASSUME NEW n \in Nat, n >= 4
  PROVE  ChunkSize(n) \in Nat /\ ChunkSize(n) % 4 = 0
<1>1. \E k \in Chunks : k <= n /\ \A l \in Chunks : l <= n => l <= k
  <2>1. CASE n >= 48
    BY <2>1 DEF Chunks
  <2>2. CASE n < 48 /\ n >= 8
    BY <2>2 DEF Chunks
  <2>3. CASE n < 8
    BY <2>3 DEF Chunks
  <2> QED
    BY <2>1, <2>2, <2>3
<1>2. /\ ChunkSize(n) \in Chunks
      /\ \A l \in Chunks : l <= n => l <= ChunkSize(n)
  BY <1>1 DEF ChunkSize
<1>3. ChunkSize(n) \in {48, 8, 4}
  BY <1>2 DEF Chunks
<1> QED
  BY <1>3

(* The file and the place of its block never change.                       *)
LEMMA PlaceStays ==
  ASSUME BuiltInv, [Next]_vars
  PROVE  /\ file' = file /\ ctx'.bin_base = ctx.bin_base
         /\ BlockStart' = BlockStart
<1>0. TypeOK
  BY DEF BuiltInv
<1>1. CASE LayOut
  <2>1. current_got = None /\ current_got' = ctx.ram_start /\ ctx' = ctx
        /\ file' = file
    BY <1>1 DEF LayOut, BuiltInv
  <2>2. ctx.ram_start # None
    BY <1>0, WordModFacts DEF TypeOK, None, Word
  <2> QED
    BY <2>1, <2>2 DEF BlockStart
<1>2. CASE CheckRam
  <2>1. current_got # None
    BY <1>2 DEF CheckRam, BuiltInv, LaidOut
  <2>2. current_got' = current_got /\ file' = file
        /\ ctx'.bin_base = ctx.bin_base
    BY <1>0, <1>2 DEF CheckRam, FreedCtx, TypeOK
  <2> QED
    BY <2>1, <2>2 DEF BlockStart
<1>3. CASE UNCHANGED <<file, ctx, current_got>>
  BY <1>3 DEF BlockStart
<1> QED
  BY <1>1, <1>2, <1>3
     DEF Next, vars, CheckVersion, SkipPadding, CopyRomRam, ZeroRam,
         RelocateGot, PatchPointers, Branch

(* The sections and the memory are aligned by words.                       *)
AlignedByWords ==
  /\ \A f \in Files :
       /\ f.partition % WORD_BYTESIZE = 0
       /\ Len(f.elf.rom) % WORD_BYTESIZE = 0
       /\ Len(f.elf.got) % WORD_BYTESIZE = 0
  /\ \A c \in Contexts :
       c.bin_base % WORD_BYTESIZE = 0 /\ c.ram_start % WORD_BYTESIZE = 0

(* The copy has moved words as long as there is one left.                  *)
CopyInv ==
  /\ BuiltInv
  /\ ctx.bin_base % 4 = 0 /\ BlockStart % 4 = 0
  /\ pc = "copy_rom_ram" /\ rom_ram_sec_size - done >= 4 => done % 4 = 0

LEMMA StepCopy == CopyInv /\ [Next]_vars => CopyInv'
<1> SUFFICES ASSUME CopyInv, [Next]_vars PROVE CopyInv'
  OBVIOUS
<1>1. BuiltInv' /\ BuiltInv
  BY StepBuilt DEF CopyInv
<1>2. ctx'.bin_base % 4 = 0 /\ BlockStart' % 4 = 0
  BY <1>1, PlaceStays DEF CopyInv
<1>3. ASSUME pc' = "copy_rom_ram", (rom_ram_sec_size - done >= 4)'
      PROVE  done' % 4 = 0
  <2>1. CheckRam \/ CopyRomRam \/ UNCHANGED vars
    BY <1>3 DEF Next, CheckVersion, SkipPadding, LayOut, ZeroRam, RelocateGot,
                PatchPointers, Branch, Goto, Die
  <2>2. CASE CheckRam
    BY <1>3, <2>2 DEF CheckRam, Goto, Die
  <2>3. CASE CopyRomRam
    <3> DEFINE n == ChunkSize(rom_ram_sec_size - done)
               r == rom_ram_sec_size
    <3>1. /\ pc = "copy_rom_ram" /\ done < r /\ done' = done + n /\ size' = size
      BY <1>3, <2>3 DEF CopyRomRam, Goto
    <3>2. r' = r
      BY <3>1 DEF rom_ram_sec_size
    <3>a. TypeOK
      BY <1>1 DEF BuiltInv
    <3>b. r \in Word /\ done \in Word
      BY <3>a DEF TypeOK, rom_ram_sec_size
    <3>3. r \in Nat /\ done \in Nat
      BY <3>b, WordModFacts DEF Word
    <3>4. n \in 1 .. (r - done)
      BY <3>1, <3>3, ChunkSizeBounds
    <3>5. r - done >= 4
      <4> HIDE DEF n
      <4>1. r' - done' >= 4
        BY <1>3
      <4> HIDE DEF r
      <4> QED
        BY <3>1, <3>2, <3>3, <3>4, <4>1
    <3>6. done % 4 = 0
      BY <3>1, <3>5 DEF CopyInv
    <3>7. n % 4 = 0
      BY <3>3, <3>5, ChunkOfWords
    <3> HIDE DEF n, r
    <3> QED
      BY <3>1, <3>3, <3>4, <3>6, <3>7
  <2>4. CASE UNCHANGED vars
    BY <1>3, <2>4 DEF vars, CopyInv, rom_ram_sec_size
  <2> QED
    BY <2>1, <2>2, <2>3, <2>4
<1> QED
  BY <1>1, <1>2, <1>3 DEF CopyInv

(* memcpy() never uses an instruction that faults on an address that is    *)
(* not a multiple of four, whatever the size of .rom.ram, when the flash,  *)
(* the RAM and the sections before it are aligned by words.                *)
THEOREM CopiesAligned ==
  ASSUME AllBuilt, RoomForAll, AlignedByWords,
         \A f \in Files : TextBegins(f.elf)
  PROVE  Spec => []BurstsAligned
<1>1. Init => CopyInv
  <2> SUFFICES ASSUME Init PROVE CopyInv
    OBVIOUS
  <2>1. BuiltInv
    BY InitBuilt
  <2> QED
    BY <2>1 DEF Init, CopyInv, AlignedByWords, BlockStart, WORD_BYTESIZE
<1>2. CopyInv /\ [Next]_vars => CopyInv'
  BY StepCopy
<1>3. CopyInv => BurstsAligned
  <2> SUFFICES ASSUME CopyInv, pc = "copy_rom_ram", rom_ram_sec_size - done >= 8
               PROVE  /\ Add(rom_ram_sec_addr, done) % 4 = 0
                      /\ Add(rel_rom_ram_sec_addr, done) % 4 = 0
    BY DEF BurstsAligned, WORD_BYTESIZE
  <2> DEFINE base  == ctx.bin_base
             start == BlockStart
             m     == file.partition
             o     == Len(file.elf.rom)
             g     == Len(file.elf.got)
             d     == Len(file.elf.rom_ram)
             s     == file.elf.ram_size
  <2>1. BuiltInv /\ TextBegins(file.elf) /\ file \in Files
        /\ pc \in Loading /\ LaidOut
    BY DEF CopyInv, BuiltInv, BuiltFile, Loading, Loops, LaidOut
  <2>2. /\ base % 4 = 0 /\ start % 4 = 0 /\ m % 4 = 0 /\ o % 4 = 0 /\ g % 4 = 0
    BY <2>1 DEF CopyInv, AlignedByWords, WORD_BYTESIZE
  <2>3. /\ rom_ram_sec_addr = base + (m + o + g) /\ rom_ram_sec_size = d
        /\ base + (m + o + g + d) < WordMod
        /\ base \in Nat /\ m \in Nat /\ o \in Nat /\ g \in Nat /\ d \in Nat
    BY <2>1, PartitionFound
  <2>4. /\ rel_rom_ram_sec_addr = start + g /\ start + (g + d + s) < WordMod
        /\ start \in Nat /\ s \in Nat
    BY <2>1, BlockFound
  <2>5. done \in Nat
    BY <2>1, WordModFacts DEF BuiltInv, TypeOK, Word
  <2> HIDE DEF base, start, m, o, g, d, s
  <2>6. done % 4 = 0 /\ done <= d
    BY <2>3, <2>5 DEF CopyInv
  <2>7. Add(rom_ram_sec_addr, done) = base + (m + o + g) + done
    BY <2>3, <2>5, <2>6, WordModFacts DEF Add
  <2>8. Add(rel_rom_ram_sec_addr, done) = start + g + done
    BY <2>3, <2>4, <2>5, <2>6, WordModFacts DEF Add
  <2> QED
    BY <2>2, <2>3, <2>4, <2>5, <2>6, <2>7, <2>8
<1> QED
  BY <1>1, <1>2, <1>3, PTL DEF Spec

-----------------------------------------------------------------------------
(***************************************************************************)
(* .ram stays zero.                                                        *)
(*                                                                         *)
(* The loop that zeroes .ram is followed by two loops that store words.    *)
(* A word of the GOT does not reach into .ram, because there are only      *)
(* whole ones.  A pointer does when the relocation table has a place in    *)
(* .ram, or one that sticks out of .rom.ram, and then in the four bytes of *)
(* that place only.                                                        *)
(***************************************************************************)
WholeWords(e) == Len(e.got) % WORD_BYTESIZE = 0

(* No relocation of the table is of the byte at offset off.                *)
Unpatched(off) ==
  \A i \in 1 .. Len(file.elf.rel) :
    off \notin file.elf.rel[i] .. (file.elf.rel[i] + 3)

ZeroIn(m, a) == a \in DOMAIN m /\ m[a] = 0

(* The byte of .ram at offset j.                                           *)
Bss(j) == BlockStart + (Len(file.elf.got) + Len(file.elf.rom_ram)) + j

Zeroed ==
  pc \in {"relocate_got", "patch_pointers", "branch", "started"} \/ err > 1

(* The partition offset of that byte.                                      *)
BssOff(j) == Len(file.elf.rom) + (Len(file.elf.got) + Len(file.elf.rom_ram)) + j

RoomToPatch == BlockStart + BlockSize(file.elf) + WORD_BYTESIZE <= WordMod

ZeroInv ==
  /\ BuiltInv
  /\ WholeWords(file.elf)
  /\ RoomToPatch
  /\ pc \in {"zero_ram", "relocate_got"} => done % 4 = 0
  /\ pc = "zero_ram" =>
       \A j \in 0 .. (file.elf.ram_size - 1) : j < done => ZeroIn(ram, Bss(j))
  /\ Zeroed =>
       \A j \in 0 .. (file.elf.ram_size - 1) :
         Unpatched(BssOff(j)) => ZeroIn(ram, Bss(j))

(* A store of zeros leaves zeros where it stores, and where there were.    *)
LEMMA StoreZeros ==
  ASSUME NEW m, NEW a \in Word, NEW x,
         x \in Span(a, 4) \/ ZeroIn(m, x)
  PROVE  ZeroIn(Store(m, a, to_word(0)), x)
<1> DEFINE w == to_word(0)
<1>1. w = << 0, 0, 0, 0 >>
  <2> DEFINE b2 == ByteBase * ByteBase
             b3 == ByteBase * b2
  <2>1. ByteBase \in Nat /\ ByteBase > 0
    BY ByteBaseAssumption
  <2>2. b2 \in Nat /\ b2 > 0
    BY <2>1
  <2>3. b3 \in Nat /\ b3 > 0
    <3> HIDE DEF b2
    <3> QED
      BY <2>1, <2>2
  <2>4. w = << 0 % ByteBase, (0 \div ByteBase) % ByteBase,
               (0 \div b2) % ByteBase, (0 \div b3) % ByteBase >>
    BY DEF to_word
  <2> HIDE DEF b2, b3, w
  <2> QED
    BY <2>1, <2>2, <2>3, <2>4
<1>2. Len(w) = 4 /\ \A i \in 1 .. 4 : w[i] = 0
  <2> HIDE DEF w
  <2> QED
    BY <1>1
<1> HIDE DEF w
<1> SUFFICES ZeroIn(Store(m, a, w), x)
  BY DEF w
<1>3. CASE x \in Span(a, 4)
  <2>1. PICK j \in 0 .. 3 : x = Add(a, j)
    BY <1>3 DEF Span
  <2>2. Distance(a, x) = j
    BY <2>1, WordModFacts DEF Distance, Add, Word
  <2>3. w[Distance(a, x) + 1] = 0
    BY <1>2, <2>2
  <2> QED
    BY <1>2, <1>3, <2>3 DEF Store, ZeroIn
<1>4. CASE x \notin Span(a, 4) /\ ZeroIn(m, x)
  BY <1>2, <1>4 DEF Store, ZeroIn
<1> QED
  BY <1>3, <1>4

(* A word stored elsewhere leaves an address as it is.                     *)
LEMMA StoreElsewhere ==
  ASSUME NEW m, NEW a \in Nat, NEW y, NEW x \in Nat,
         a + 4 <= WordMod, x \notin a .. (a + 3), ZeroIn(m, x)
  PROVE  ZeroIn(Store(m, a, to_word(y)), x)
<1>1. Len(to_word(y)) = 4
  BY DEF to_word
<1>2. Span(a, 4) = a .. (a + 4 - 1)
  <2>1. a \in Word
    BY WordModFacts DEF Word
  <2> QED
    BY <2>1, SpanInRange
<1>3. x \notin Span(a, 4)
  BY <1>2
<1> QED
  BY <1>1, <1>3 DEF Store, ZeroIn

(* The steps that store to other bytes than those of .ram that are zero.   *)
LEMMA BesideZeros ==
  ASSUME ZeroInv, RelocateGot \/ PatchPointers,
         NEW j \in 0 .. (file.elf.ram_size - 1), Unpatched(BssOff(j))
  PROVE  ZeroIn(ram', Bss(j))
<1> DEFINE g     == Len(file.elf.got)
           d     == Len(file.elf.rom_ram)
           s     == file.elf.ram_size
           o     == Len(file.elf.rom)
           start == BlockStart
<1>1. pc \in Loading /\ LaidOut /\ Zeroed /\ BuiltInv /\ TypeOK /\ BuiltFile
  BY DEF RelocateGot, PatchPointers, Loading, Loops, LaidOut, Zeroed, ZeroInv,
         BuiltInv
<1>2. /\ g \in Nat /\ d \in Nat /\ s \in Nat
      /\ got_sec_size = g /\ rom_ram_sec_size = d /\ ram_sec_size = s
      /\ start \in Nat /\ start + (g + d + s) < WordMod
      /\ rel_got_sec_addr = start /\ rel_rom_ram_sec_addr = start + g
  BY <1>1, BlockFound
<1>3. rom_sec_size = o /\ o \in Nat
  <2>1. MeasuredRight
    BY <1>1 DEF BuiltInv, Measured
  <2>2. ElfTyped(file.elf)
    BY <1>1 DEF BuiltFile, Built
  <2> QED
    BY <2>1, <2>2 DEF MeasuredRight, rom_sec_size, ElfTyped
<1>4. Bss(j) = start + (g + d) + j /\ j \in 0 .. (s - 1)
  BY DEF Bss
<1>5. ZeroIn(ram, Bss(j))
  BY <1>1 DEF ZeroInv
<1>6. done \in Nat
  BY <1>1, WordModFacts DEF TypeOK, Word
<1>7. WholeWords(file.elf) /\ start + (g + d + s) + 4 <= WordMod
  BY DEF ZeroInv, RoomToPatch, BlockSize, WORD_BYTESIZE
<1>8. CASE RelocateGot
  <2>1. CASE ram' = ram
    BY <1>5, <2>1
  <2>2. CASE \E y : /\ done < got_sec_size
                    /\ ram' = Store(ram, Add(rel_got_sec_addr, done), to_word(y))
    <3>1. PICK y : ram' = Store(ram, Add(rel_got_sec_addr, done), to_word(y))
      BY <2>2
    <3>2. done < g /\ done % 4 = 0 /\ g % 4 = 0
      BY <1>2, <1>7, <1>8, <2>2
         DEF RelocateGot, ZeroInv, WholeWords, WORD_BYTESIZE
    <3> HIDE DEF g, d, s, o, start
    <3>3. done + 4 <= g
      BY <1>2, <1>6, <3>2
    <3>4. Add(rel_got_sec_addr, done) = start + done /\ start + done \in Nat
      BY <1>2, <1>6, <3>3, WordModFacts DEF Add
    <3>5. /\ Bss(j) \in Nat /\ (start + done) + 4 <= WordMod
          /\ Bss(j) \notin (start + done) .. (start + done + 3)
      BY <1>2, <1>4, <1>6, <3>3, WordModFacts
    <3> QED
      BY <1>5, <3>1, <3>4, <3>5, StoreElsewhere
  <2> QED
    BY <1>8, <2>1, <2>2 DEF RelocateGot
<1>9. CASE PatchPointers
  <2> DEFINE p == FlashWord(EntryAddr(done))
  <2>1. CASE ram' = ram
    BY <1>5, <2>1
  <2>2. CASE \E off : /\ MorePointers /\ PatchError(p, off) = None
                      /\ ram' = Store(ram, Address(p), to_word(Address(off)))
    <3>1. PICK off : /\ PatchError(p, off) = None
                     /\ ram' = Store(ram, Address(p), to_word(Address(off)))
      BY <2>2
    <3>2. done \in 0 .. (Len(file.elf.rel) - 1)
          /\ Len(file.elf.rel) \in Nat /\ file.elf.rel \in Seq(Word)
      <4>1. done < entry_number /\ entry_number = Len(file.elf.rel)
        BY <1>1, <2>2, ReadsBuilt DEF MorePointers
      <4>2. file.elf.rel \in Seq(Word)
        BY <1>1 DEF BuiltFile, Built, ElfTyped
      <4>3. Len(file.elf.rel) \in Nat
        BY <4>2
      <4> QED
        BY <1>6, <4>1, <4>2, <4>3
    <3> DEFINE n == Len(file.elf.rel)
               r == file.elf.rel
    <3>3. p = r[done + 1]
      BY <1>1, <3>2, ReadsBuilt
    <3>4. done + 1 \in 1 .. n
      <4> HIDE DEF n
      <4> QED
        BY <3>2 DEF n
    <3>5. p \in Nat
      <4>1. r[done + 1] \in Word
        BY <3>2, <3>4
      <4> QED
        BY <3>3, <4>1, WordModFacts DEF Word
    <3>6. BssOff(j) \notin p .. (p + 3) /\ BssOff(j) = o + (g + d) + j
      BY <3>3, <3>4 DEF Unpatched, BssOff
    <3>7. /\ InRomRam(p) \/ InRam(p)
          /\ ~InRom(p) /\ ~InGot(p)
      BY <3>1, PatchErrorNone
    <3>8. Address(p) = IF InRomRam(p)
                         THEN Add(rel_rom_ram_sec_addr, p - o - g)
                         ELSE Add(rel_ram_sec_addr, p - o - g - d)
      BY <1>2, <1>3, <3>7 DEF Address
    <3>9. InRomRam(p) <=> p - o - g \in 0 .. (d - 1)
      BY <1>2, <1>3 DEF InRomRam
    <3>10. InRam(p) <=> p - o - g - d \in 0 .. (s - 1)
      BY <1>2, <1>3 DEF InRam
    <3>11. rel_ram_sec_addr = start + (g + d)
      BY <1>1, BlockFound
    <3> DEFINE k == p - o - g
    <3> HIDE DEF g, d, s, o, start, p, n, r
    <3>12. k \in 0 .. (d + s - 1) /\ p = o + g + k
      BY <1>2, <1>3, <3>5, <3>7, <3>9, <3>10
    <3>13. Address(p) = IF InRomRam(p) THEN Add(start + g, k)
                                       ELSE Add(start + (g + d), k - d)
      BY <1>2, <3>8, <3>11
    <3>14. Address(p) = start + g + k
      <4>1. InRomRam(p) <=> k \in 0 .. (d - 1)
        BY <3>9
      <4> HIDE DEF k
      <4>2. ~InRomRam(p) => k - d \in Nat
        BY <1>2, <3>12, <4>1
      <4> QED
        BY <1>2, <3>12, <3>13, <4>1, <4>2, WordModFacts DEF Add
    <3> HIDE DEF k
    <3>15. /\ Bss(j) \in Nat /\ start + g + k \in Nat
           /\ (start + g + k) + 4 <= WordMod
           /\ Bss(j) \notin (start + g + k) .. (start + g + k + 3)
      <4>1. o + (g + d) + j \notin (o + g + k) .. (o + g + k + 3)
        BY <3>6, <3>12
      <4>2. d + j \notin k .. (k + 3)
        BY <1>2, <1>3, <1>4, <3>12, <4>1
      <4> QED
        BY <1>2, <1>4, <1>7, <3>12, <4>2, WordModFacts
    <3> QED
      BY <1>5, <3>1, <3>14, <3>15, StoreElsewhere
  <2> QED
    BY <1>9, <2>1, <2>2 DEF PatchPointers
<1> QED
  BY <1>8, <1>9

LEMMA StepZero == ZeroInv /\ [Next]_vars => ZeroInv'
<1> SUFFICES ASSUME ZeroInv, [Next]_vars PROVE ZeroInv'
  OBVIOUS
<1> USE DEF Loading, Loops
<1>0. /\ BuiltInv /\ BuiltInv' /\ TypeOK /\ TypeOK'
      /\ file' = file /\ BlockStart' = BlockStart
  BY StepBuilt, PlaceStays DEF ZeroInv, BuiltInv
<1>a. /\ WholeWords(file.elf)' /\ RoomToPatch'
      /\ \A j : Bss(j)' = Bss(j) /\ BssOff(j)' = BssOff(j)
      /\ \A off : Unpatched(off)' <=> Unpatched(off)
      /\ file'.elf.ram_size = file.elf.ram_size
  BY <1>0 DEF ZeroInv, WholeWords, RoomToPatch, BlockSize, Bss, BssOff, Unpatched
<1>b. done \in Nat /\ (err = None \/ err \in 0 .. 4)
  BY <1>0, WordModFacts DEF TypeOK, Word
<1>1. CASE CheckVersion \/ SkipPadding \/ LayOut \/ CheckRam
  <2>1. /\ pc' \in {"skip_padding", "check_ram", "copy_rom_ram", "dead"}
        /\ ~(err' > 1)
    <3>1. err = None
      BY <1>0, <1>1 DEF CheckVersion, SkipPadding, LayOut, CheckRam, BuiltInv
    <3>2. err' \in {None, 0, 1}
      BY <1>1, <3>1 DEF CheckVersion, SkipPadding, LayOut, CheckRam, Goto, Die
    <3>3. ~(err' > 1)
      BY <3>2 DEF None
    <3> QED
      BY <1>1, <3>3 DEF CheckVersion, SkipPadding, LayOut, CheckRam, Goto, Die
  <2> QED
    BY <1>0, <1>a, <2>1 DEF ZeroInv, Zeroed
<1>2. CASE CopyRomRam
  <2>1. pc' \in {"copy_rom_ram", "zero_ram"} /\ err' = err
        /\ (pc' = "zero_ram" => done' = 0) /\ err = None
    BY <1>0, <1>2 DEF CopyRomRam, Goto, BuiltInv
  <2>2. pc' = "zero_ram" => done' % 4 = 0
    BY <2>1
  <2>3. ~Zeroed'
    BY <2>1 DEF Zeroed, None
  <2>4. pc' = "zero_ram" => \A j \in Nat : ~(j < done')
    BY <2>1
  <2>5. \A j \in 0 .. (file.elf.ram_size - 1) : j \in Nat
    OBVIOUS
  <2> QED
    BY <1>0, <1>a, <2>1, <2>2, <2>3, <2>4, <2>5 DEF ZeroInv
<1>3. CASE ZeroRam
  <2> DEFINE g     == Len(file.elf.got)
             d     == Len(file.elf.rom_ram)
             s     == file.elf.ram_size
             start == BlockStart
  <2>1. /\ g \in Nat /\ d \in Nat /\ s \in Nat
        /\ ram_sec_size = s /\ start \in Nat /\ start + (g + d + s) < WordMod
        /\ rel_ram_sec_addr = start + (g + d)
    <3>1. LaidOut
      BY <1>3 DEF ZeroRam, LaidOut
    <3> QED
      BY <1>0, <3>1, BlockFound
  <2>2. pc = "zero_ram" /\ err' = err /\ err = None /\ done % 4 = 0
    BY <1>0, <1>3 DEF ZeroRam, BuiltInv, ZeroInv
  <2>3. \A j \in 0 .. (s - 1) : j < done => ZeroIn(ram, Bss(j))
    BY <2>2 DEF ZeroInv
  <2>4. \A j : Bss(j) = start + (g + d) + j
    BY DEF Bss
  <2>5. CASE MoreRam
    <3>1. /\ done < s /\ pc' = "zero_ram" /\ done' = Add(done, 4)
          /\ ram' = Store(ram, Add(rel_ram_sec_addr, done), to_word(0))
      BY <1>3, <2>1, <2>5 DEF ZeroRam, MoreRam, NextWord, WORD_BYTESIZE
    <3> HIDE DEF g, d, s, start
    <3>2. done' % 4 = 0 /\ done' <= done + 4 /\ done' \in Nat
      BY <1>b, <2>1, <2>2, <3>1, WordModFacts DEF Add
    <3> DEFINE a == start + (g + d) + done
    <3>3. a \in Word /\ Add(rel_ram_sec_addr, done) = a
      BY <1>b, <2>1, <3>1, WordModFacts DEF Add, Word
    <3>4. ASSUME NEW j \in 0 .. (s - 1), j < done'
          PROVE  ZeroIn(ram', Bss(j))
      <4>1. CASE j < done
        <5>1. ZeroIn(ram, Bss(j))
          BY <2>3, <4>1
        <5> QED
          BY <3>1, <3>3, <5>1, StoreZeros
      <4>2. CASE ~(j < done)
        <5>1. j - done \in 0 .. 3 /\ a + (j - done) = start + (g + d) + j
          BY <1>b, <2>1, <3>2, <3>4, <4>2
        <5>2. a + (j - done) < WordMod
          BY <2>1, <5>1, WordModFacts
        <5>3. Add(a, j - done) = Bss(j)
          BY <2>4, <5>1, <5>2 DEF Add
        <5>4. Bss(j) \in Span(a, 4)
          BY <5>1, <5>3 DEF Span
        <5> QED
          BY <3>1, <3>3, <5>4, StoreZeros
      <4> QED
        BY <4>1, <4>2
    <3>5. ~Zeroed'
      BY <2>2, <3>1 DEF Zeroed, None
    <3> QED
      BY <1>0, <1>a, <3>1, <3>2, <3>4, <3>5 DEF ZeroInv, s
  <2>6. CASE ~MoreRam
    <3>1. /\ ~(done < s) /\ pc' = "relocate_got" /\ done' = 0 /\ ram' = ram
      BY <1>3, <2>1, <2>6 DEF ZeroRam, MoreRam, Goto
    <3> HIDE DEF g, d, s, start
    <3>2. \A j \in 0 .. (s - 1) : j < done
      BY <1>b, <2>1, <3>1
    <3>3. \A j \in 0 .. (s - 1) : ZeroIn(ram', Bss(j))
      BY <2>3, <3>1, <3>2
    <3>4. done' % 4 = 0
      BY <3>1
    <3> QED
      BY <1>0, <1>a, <3>1, <3>3, <3>4 DEF ZeroInv, s
  <2> QED
    BY <2>5, <2>6
<1>4. CASE RelocateGot \/ PatchPointers
  <2>1. \A j \in 0 .. (file.elf.ram_size - 1) :
          Unpatched(BssOff(j)) => ZeroIn(ram', Bss(j))
    BY <1>4, BesideZeros
  <2>2. pc' # "zero_ram"
    BY <1>4 DEF RelocateGot, PatchPointers, Goto, Die
  <2>3. pc' = "relocate_got" => done' % 4 = 0
    <3>1. pc' = "relocate_got" => done' = Add(done, 4) /\ done % 4 = 0
      BY <1>4 DEF RelocateGot, PatchPointers, Goto, Die, NextWord, WORD_BYTESIZE,
                  ZeroInv
    <3> QED
      BY <1>b, <3>1, WordModFacts DEF Add
  <2> QED
    BY <1>0, <1>a, <2>1, <2>2, <2>3 DEF ZeroInv
<1>5. CASE Branch \/ UNCHANGED vars
  <2>1. /\ ram' = ram /\ (Zeroed' => Zeroed)
        /\ pc' \in {"zero_ram", "relocate_got"} => pc' = pc /\ done' = done
    BY <1>5 DEF Branch, vars, Zeroed
  <2> QED
    BY <1>0, <1>a, <2>1 DEF ZeroInv
<1> QED
  BY <1>1, <1>2, <1>3, <1>4, <1>5 DEF Next

(* There is room to round up: to the next boundary behind the file and its *)
(* .ram, were that there, and to the end of the last word that is stored.  *)
RoomToSpare ==
  \A f \in Files, c \in Contexts :
    /\ c.bin_base + Len(f.bytes) + f.elf.ram_size + PADDING_MPU_ALIGNMENT
         <= WordMod
    /\ c.ram_start + BlockSize(f.elf) + WORD_BYTESIZE <= WordMod

(* Once .ram is zeroed it stays so but for the words that the relocation   *)
(* table names, whatever table that is, when the GOT is made of words.     *)
THEOREM ZeroedStaysZero ==
  ASSUME AllBuilt, RoomForAll, RoomToSpare, \A f \in Files : WholeWords(f.elf)
  PROVE  Spec => []RamStaysZero
<1>1. Init => ZeroInv
  <2> SUFFICES ASSUME Init PROVE ZeroInv
    OBVIOUS
  <2>1. BuiltInv
    BY InitBuilt
  <2>2. /\ pc = "check_version" /\ err = None /\ current_got = None
        /\ file \in Files /\ ctx \in Contexts
    BY DEF Init
  <2>3. RoomToPatch
    BY <2>2 DEF RoomToSpare, RoomToPatch, BlockStart
  <2> QED
    BY <2>1, <2>2, <2>3 DEF ZeroInv, Zeroed, None
<1>2. ZeroInv /\ [Next]_vars => ZeroInv'
  BY StepZero
<1>3. ZeroInv => RamStaysZero
  <2> SUFFICES ASSUME ZeroInv, Zeroed,
                      NEW off \in Abs!BssOffset .. (Abs!EndOffset - 1),
                      Abs!Relocating(off) = {}
               PROVE  Holds(Abs!RunAddr(off), << 0 >>)
    BY DEF RamStaysZero, Zeroed
  <2> DEFINE g     == Len(file.elf.got)
             d     == Len(file.elf.rom_ram)
             s     == file.elf.ram_size
             o     == Len(file.elf.rom)
             start == BlockStart
             j     == off - (o + g + d)
  <2>1. Abs!BssOffset = o + g + d /\ Abs!EndOffset = o + g + d + s
        /\ Abs!GotOffset = o
    BY DEF Abs!EndOffset, Abs!BssOffset, Abs!DataOffset, Abs!GotOffset, Abs!elf
  <2>2. /\ ElfTyped(file.elf) /\ start \in Nat
    <3>1. LaidOut
      BY DEF LaidOut, Zeroed, Loading, Loops, ZeroInv, BuiltInv, TypeOK, None
    <3> QED
      BY <3>1, BlockFound DEF ZeroInv, BuiltInv, BuiltFile, Built
  <2>3. o \in Nat /\ g \in Nat /\ d \in Nat /\ s \in Nat
    BY <2>2, ElfNat
  <2>4. Abs!RunAddr(off) = IF off < o THEN ctx.bin_base + file.partition + off
                                      ELSE start + off - o
    BY <2>1 DEF Abs!RunAddr, BlockStart
  <2>5. ZeroIn(ram, Bss(j)) /\ Bss(j) = start + (g + d) + j
    <3>1. j \in 0 .. (s - 1)
      <4> HIDE DEF o, g, d, s
      <4> QED
        BY <2>1, <2>3
    <3>2. BssOff(j) = off
      <4>1. BssOff(j) = o + (g + d) + j
        BY DEF BssOff
      <4> HIDE DEF o, g, d, s
      <4> QED
        BY <2>1, <2>3, <4>1
    <3> HIDE DEF j
    <3>3. Unpatched(off)
      BY DEF Unpatched, Abs!Relocating, Abs!elf
    <3> QED
      BY <3>1, <3>2, <3>3 DEF ZeroInv, Bss
  <2> HIDE DEF o, g, d, s, start
  <2>6. Abs!RunAddr(off) = Bss(j) /\ Abs!RunAddr(off) \in Int
    BY <2>1, <2>2, <2>3, <2>4, <2>5
  <2> HIDE DEF j
  <2> QED
    BY <2>5, <2>6 DEF Holds, ZeroIn
<1> QED
  BY <1>1, <1>2, <1>3, PTL DEF Spec

-----------------------------------------------------------------------------
(***************************************************************************)
(* The loader implements Load.                                             *)
(*                                                                         *)
(* The names of Load say where things are: partition offsets, the run-time *)
(* address of each, and what each word of the program should hold.  The    *)
(* invariant, LoadInv, says how much of the promised block is in RAM at    *)
(* each statement: the bytes of .rom.ram copied so far, the GOT entries    *)
(* relocated by now, and the pointers of the relocation table up to an     *)
(* index.  A store of one keeps the others in place, but for what it       *)
(* overwrites of pointers before it in the table.  A target is read from   *)
(* flash, which no store changes, and is thus the target that is found     *)
(* there, whatever was relocated before.                                   *)
(***************************************************************************)

(* What the linker makes of a program: its code does not begin with a zero *)
(* byte, it starts in its code, and the GOT is made of words.  Nothing is  *)
(* said of GOT entries, relocations and their targets.                     *)
Linked(e) ==
  /\ TextBegins(e) /\ e.start < Len(e.rom)
  /\ WholeWords(e)

(* The address of partition offset off, behind .rom.                       *)
At(off) == BlockStart + (off - Abs!GotOffset)

Got  == Abs!GotOffset
Data == Abs!DataOffset
BssO == Abs!BssOffset
End  == Abs!EndOffset

(* The offsets are natural numbers, in order.                              *)
LEMMA Offsets ==
  ASSUME ElfTyped(file.elf)
  PROVE  /\ Got \in Nat /\ Data \in Nat /\ BssO \in Nat /\ End \in Nat
         /\ Got <= Data /\ Data <= BssO /\ BssO <= End
         /\ Len(file.elf.rom) = Got /\ Len(file.elf.got) = Data - Got
         /\ Len(file.elf.rom_ram) = BssO - Data
         /\ file.elf.ram_size = End - BssO
         /\ BlockSize(file.elf) = End - Got
<1> DEFINE o == Len(file.elf.rom)
           g == Len(file.elf.got)
           d == Len(file.elf.rom_ram)
           s == file.elf.ram_size
<1>1. o \in Nat /\ g \in Nat /\ d \in Nat /\ s \in Nat
  BY ElfNat
<1>2. Got = o /\ Data = o + g /\ BssO = o + g + d /\ End = o + g + d + s
  BY DEF Got, Data, BssO, End, Abs!EndOffset, Abs!BssOffset, Abs!DataOffset,
         Abs!GotOffset, Abs!elf
<1>3. BlockSize(file.elf) = g + d + s
  BY DEF BlockSize
<1> HIDE DEF o, g, d, s
<1>4. /\ Got \in Nat /\ Data \in Nat /\ BssO \in Nat /\ End \in Nat
      /\ Got <= Data /\ Data <= BssO /\ BssO <= End
      /\ o = Got /\ g = Data - Got /\ d = BssO - Data /\ s = End - BssO
      /\ BlockSize(file.elf) = End - Got
  BY <1>1, <1>2, <1>3
<1> QED
  BY <1>4 DEF o, g, d, s

(* Where the loader takes everything to be.                                *)
LEMMA Found ==
  ASSUME BuiltInv, LaidOut
  PROVE  /\ Got \in Nat /\ Data \in Nat /\ BssO \in Nat /\ End \in Nat
         /\ Got <= Data /\ Data <= BssO /\ BssO <= End
         /\ rom_sec_size = Got /\ got_sec_size = Data - Got
         /\ rom_ram_sec_size = BssO - Data /\ ram_sec_size = End - BssO
         /\ BlockStart \in Nat /\ Text \in Nat
         /\ rel_got_sec_addr = BlockStart
         /\ rel_rom_ram_sec_addr = BlockStart + (Data - Got)
         /\ rel_ram_sec_addr = BlockStart + (BssO - Got)
         /\ rel_ram_sec_end = BlockStart + (End - Got)
         /\ BlockStart + (End - Got) < WordMod
<1> DEFINE o == Len(file.elf.rom)
           g == Len(file.elf.got)
           d == Len(file.elf.rom_ram)
           s == file.elf.ram_size
<1>1. ElfTyped(file.elf) /\ MeasuredRight
  BY DEF BuiltInv, BuiltFile, Built, Measured, LaidOut
<1>2. /\ Got \in Nat /\ Data \in Nat /\ BssO \in Nat /\ End \in Nat
      /\ Got <= Data /\ Data <= BssO /\ BssO <= End
      /\ o = Got /\ g = Data - Got /\ d = BssO - Data /\ s = End - BssO
  BY <1>1, Offsets
<1>3. /\ got_sec_size = g /\ rom_ram_sec_size = d /\ ram_sec_size = s
      /\ BlockStart \in Nat
      /\ BlockStart + (g + d + s) < WordMod
      /\ rel_got_sec_addr = BlockStart /\ rel_rom_ram_sec_addr = BlockStart + g
      /\ rel_ram_sec_addr = BlockStart + (g + d)
      /\ rel_ram_sec_end = BlockStart + (g + d + s)
  BY BlockFound
<1>4. rom_sec_size = o
  BY <1>1 DEF MeasuredRight, rom_sec_size
<1>5. Text \in Nat
  <2>1. file.partition \in Nat /\ ctx.bin_base \in Nat
    BY ReadsBuilt, WordModFacts DEF BuiltInv, BuiltFile, FlashTyped, Word
  <2> QED
    BY <2>1 DEF Text
<1> HIDE DEF o, g, d, s
<1>6. g + d = BssO - Got /\ g + d + s = End - Got
  BY <1>2
<1> QED
  BY <1>2, <1>3, <1>4, <1>5, <1>6

(* The same in flash.                                                      *)
LEMMA FoundInFlash ==
  ASSUME BuiltInv, TextBegins(file.elf), pc \in Loading
  PROVE  /\ rom_sec_addr = Text
         /\ got_sec_addr = Text + Got
         /\ rom_ram_sec_addr = Text + Data
         /\ Text + BssO < WordMod
<1> DEFINE o == Len(file.elf.rom)
           g == Len(file.elf.got)
           d == Len(file.elf.rom_ram)
           m == file.partition
           base == ctx.bin_base
<1>1. LaidOut /\ ElfTyped(file.elf)
  BY DEF BuiltInv, BuiltFile, Built, LaidOut
<1>2. /\ Got \in Nat /\ Data \in Nat /\ BssO \in Nat
      /\ o = Got /\ g = Data - Got /\ d = BssO - Data
  BY <1>1, Offsets
<1>3. /\ m \in Nat /\ base \in Nat /\ o \in Nat /\ g \in Nat /\ d \in Nat
      /\ base + (m + o + g + d) < WordMod
      /\ rom_sec_addr = base + m
      /\ got_sec_addr = base + (m + o)
      /\ rom_ram_sec_addr = base + (m + o + g)
  BY PartitionFound
<1>4. Text = base + m
  BY DEF Text
<1> HIDE DEF o, g, d, m, base
<1> QED
  BY <1>2, <1>3, <1>4

(* Where Load takes an offset to be at run time.                           *)
LEMMA RunsAt ==
  ASSUME NEW off
  PROVE  Abs!RunAddr(off) = IF off < Got
                              THEN ctx.bin_base + file.partition + off
                              ELSE BlockStart + off - Got
BY DEF Abs!RunAddr, Got, BlockStart

(* The loader and Load agree on sections and addresses.                    *)
LEMMA SameAddress ==
  ASSUME BuiltInv, TextBegins(file.elf), pc \in Loading, NEW off \in Nat
  PROVE  /\ InRom(off) <=> off < Got
         /\ InGot(off) <=> off \in Got .. (Data - 1)
         /\ InRomRam(off) <=> off \in Data .. (BssO - 1)
         /\ InRam(off) <=> off \in BssO .. (End - 1)
         /\ OutOfBounds(off) <=> off >= End
         /\ ~OutOfBounds(off) => Address(off) = Abs!RunAddr(off)
<1>1. LaidOut
  BY DEF LaidOut
<1>2. /\ Got \in Nat /\ Data \in Nat /\ BssO \in Nat /\ End \in Nat
      /\ Got <= Data /\ Data <= BssO /\ BssO <= End
      /\ rom_sec_size = Got /\ got_sec_size = Data - Got
      /\ rom_ram_sec_size = BssO - Data /\ ram_sec_size = End - BssO
      /\ BlockStart \in Nat /\ Text \in Nat
      /\ rel_got_sec_addr = BlockStart
      /\ rel_rom_ram_sec_addr = BlockStart + (Data - Got)
      /\ rel_ram_sec_addr = BlockStart + (BssO - Got)
      /\ BlockStart + (End - Got) < WordMod
  BY <1>1, Found
<1>3. rom_sec_addr = Text /\ Text + BssO < WordMod
  BY FoundInFlash
<1>4. /\ InRom(off) <=> off < Got
      /\ InGot(off) <=> off \in Got .. (Data - 1)
      /\ InRomRam(off) <=> off \in Data .. (BssO - 1)
      /\ InRam(off) <=> off \in BssO .. (End - 1)
  BY <1>2 DEF InRom, InGot, InRomRam, InRam
<1>5. OutOfBounds(off) <=> off >= End
  BY <1>2, <1>4 DEF OutOfBounds
<1>6. Abs!RunAddr(off) = IF off < Got THEN Text + off ELSE BlockStart + off - Got
  BY RunsAt DEF Text
<1>7. ASSUME ~OutOfBounds(off)
      PROVE  Address(off) = Abs!RunAddr(off)
  <2>1. CASE off < Got
    <3>1. Address(off) = Add(Text, off)
      BY <1>3, <1>4, <2>1 DEF Address
    <3> QED
      BY <1>2, <1>3, <1>6, <2>1, <3>1, WordModFacts DEF Add
  <2>2. CASE off \in Got .. (Data - 1)
    <3>1. Address(off) = Add(BlockStart, off - Got)
      BY <1>2, <1>4, <2>2 DEF Address
    <3> QED
      BY <1>2, <1>6, <2>2, <3>1, WordModFacts DEF Add
  <2>3. CASE off \in Data .. (BssO - 1)
    <3>1. Address(off) = Add(BlockStart + (Data - Got), off - Got - (Data - Got))
      BY <1>2, <1>4, <2>3 DEF Address
    <3> QED
      BY <1>2, <1>6, <2>3, <3>1, WordModFacts DEF Add
  <2>4. CASE off \in BssO .. (End - 1)
    <3>1. Address(off) = Add(BlockStart + (BssO - Got),
                             off - Got - (Data - Got) - (BssO - Data))
      BY <1>2, <1>4, <2>4 DEF Address
    <3> QED
      BY <1>2, <1>6, <2>4, <3>1, WordModFacts DEF Add
  <2> QED
    BY <1>2, <1>5, <1>7, <2>1, <2>2, <2>3, <2>4
<1> QED
  BY <1>4, <1>5, <1>7

(* The second part of two sequences in a row.                              *)
LEMMA Second ==
  ASSUME NEW S, NEW x \in Seq(S), NEW y \in Seq(S), NEW j \in 1 .. Len(y)
  PROVE  (x \o y)[Len(x) + j] = y[j]
<1>1. Len(x) \in Nat /\ Len(y) \in Nat /\ j \in Nat
  OBVIOUS
<1>2. Len(x) + j \in 1 .. (Len(x) + Len(y)) /\ ~(Len(x) + j <= Len(x))
      /\ (Len(x) + j) - Len(x) = j
  BY <1>1
<1> QED
  BY <1>2

LEMMA First ==
  ASSUME NEW S, NEW x \in Seq(S), NEW y \in Seq(S), NEW j \in 1 .. Len(x)
  PROVE  (x \o y)[j] = x[j]
OBVIOUS

(* What the loader finds behind .rom in flash is what Load takes it to be. *)
LEMMA ContentsRead ==
  ASSUME BuiltInv, NEW off \in Nat, Got <= off
  PROVE  FlashByte(Text + off) = Abs!Contents(off)
<1> DEFINE e == file.elf
           s == e.got \o e.rom_ram
           m == file.partition
           base == ctx.bin_base
<1>1. /\ ElfTyped(e) /\ FlashTyped /\ file.align \in Nat
      /\ file.bytes = concatenate_and_pad(e, file.align)
      /\ m = metadata_size(e, file.align) /\ TypeOK
  BY DEF BuiltInv, BuiltFile, Built
<1>2. /\ Got \in Nat /\ Data \in Nat /\ BssO \in Nat /\ Got <= Data /\ Data <= BssO
      /\ Len(e.rom) = Got /\ Len(e.got) = Data - Got /\ Len(e.rom_ram) = BssO - Data
  BY <1>1, Offsets
<1>3. /\ HasAt(file.bytes, m + Got, e.got)
      /\ HasAt(file.bytes, m + Got + Len(e.got), e.rom_ram)
  <2>1. Partition(file.bytes, e, file.align)
    BY <1>1, Layout
  <2> QED
    BY <1>1, <1>2, <2>1 DEF Partition
<1>4. e.got \in Seq(Byte) /\ e.rom_ram \in Seq(Byte)
  BY <1>1 DEF ElfTyped
<1>5. m \in Nat /\ base \in Nat /\ Text = base + m
  <2>1. m \in Nat /\ base \in Nat
    BY ReadsBuilt, <1>1, WordModFacts DEF BuiltInv, FlashTyped, Word
  <2> QED
    BY <2>1 DEF Text
<1>6. ASSUME NEW i \in 1 .. (BssO - Got)
      PROVE  FlashByte(Text + Got + (i - 1)) = s[i]
  <2>1. CASE i <= Data - Got
    <3>1. i \in 1 .. Len(e.got)
      BY <1>2, <2>1
    <3> DEFINE n == m + Got
    <3>2. FlashByte(base + n + i - 1) = e.got[i]
      <4>1. HasAt(file.bytes, n, e.got)
        BY <1>3
      <4> HIDE DEF n
      <4> QED
        BY <1>1, <1>4, <3>1, <4>1, FlashHas
    <3>3. s[i] = e.got[i]
      BY <1>4, <3>1, First
    <3>4. base + n + i - 1 = Text + Got + (i - 1)
      <4> HIDE DEF base, m
      <4> QED
        BY <1>2, <1>5
    <3> QED
      BY <3>2, <3>3, <3>4
  <2>2. CASE i > Data - Got
    <3> DEFINE j == i - (Data - Got)
               n == m + Got + Len(e.got)
    <3>1. j \in 1 .. Len(e.rom_ram) /\ i = Len(e.got) + j
      BY <1>2, <2>2
    <3>2. FlashByte(base + n + j - 1) = e.rom_ram[j]
      <4> HIDE DEF j, n
      <4>1. HasAt(file.bytes, n, e.rom_ram)
        BY <1>3 DEF n
      <4> QED
        BY <1>1, <1>4, <3>1, <4>1, FlashHas
    <3>3. s[i] = e.rom_ram[j]
      <4>1. s[Len(e.got) + j] = e.rom_ram[j]
        <5> HIDE DEF j
        <5> QED
          BY <1>4, <3>1, Second
      <4> QED
        BY <3>1, <4>1
    <3>4. n = m + Data
      <4>1. Len(e.got) = Data - Got
        BY <1>2
      <4> HIDE DEF m
      <4> QED
        BY <1>2, <1>5, <4>1
    <3>5. base + n + j - 1 = Text + Got + (i - 1)
      <4> HIDE DEF base, m, n
      <4> QED
        BY <1>2, <1>5, <3>4
    <3> QED
      BY <3>2, <3>3, <3>5
  <2>3. i \in Int /\ Data - Got \in Int
    BY <1>2
  <2> HIDE DEF s
  <2> QED
    BY <2>1, <2>2, <2>3
<1>7. Abs!Contents(off)
        = IF off < BssO THEN s[off - Got + 1]
          ELSE IF m + off + 1 <= Len(file.bytes) THEN file.bytes[m + off + 1]
                                                 ELSE PADDING_VALUE
  BY Zenon DEF Abs!Contents, Abs!elf, BssO, Got, Abs!PADDING_VALUE, PADDING_VALUE
<1>8. CASE off < BssO
  <2> DEFINE i == off - Got + 1
  <2>1. i \in 1 .. (BssO - Got) /\ Text + Got + (i - 1) = Text + off
    <3>1. Text \in Nat
      BY <1>5
    <3> QED
      BY <1>2, <1>8, <3>1
  <2> HIDE DEF s, i
  <2>2. FlashByte(Text + Got + (i - 1)) = s[i]
    BY <1>6, <2>1
  <2> QED
    BY <1>7, <1>8, <2>1, <2>2 DEF i
<1>9. CASE ~(off < BssO)
  <2>1. (Text + off) - base + 1 = m + off + 1 /\ m + off + 1 \in Nat
        /\ m + off + 1 >= 1 /\ Len(file.bytes) \in Nat
    <3>1. Len(file.bytes) \in Nat
      BY <1>1, FilePlaced
    <3> HIDE DEF m, base
    <3> QED
      BY <1>5, <3>1
  <2>2. m + off + 1 \in 1 .. Len(file.bytes) <=> m + off + 1 <= Len(file.bytes)
    <3> HIDE DEF m
    <3> QED
      BY <2>1
  <2> HIDE DEF s
  <2>3. FlashByte(Text + off)
          = IF m + off + 1 \in 1 .. Len(file.bytes) THEN file.bytes[m + off + 1]
                                                    ELSE PADDING_VALUE
    BY <2>1, Zenon DEF FlashByte
  <2> QED
    BY <1>7, <1>9, <2>2, <2>3, Zenon
<1> QED
  BY <1>8, <1>9

(* The words behind .rom, as they are in flash.                            *)
LEMMA TargetRead ==
  ASSUME BuiltInv, NEW w \in Nat, Got <= w
  PROVE  FlashWord(Text + w) = Abs!Target(w) /\ Abs!Target(w) \in Nat
<1>1. FlashTyped /\ Text \in Nat /\ Got \in Nat
  <2>1. FlashTyped /\ ElfTyped(file.elf) /\ TypeOK
    BY DEF BuiltInv, BuiltFile, Built
  <2>2. file.partition \in Nat /\ ctx.bin_base \in Nat
    BY ReadsBuilt, <2>1, WordModFacts DEF BuiltInv, FlashTyped, Word
  <2>3. Text \in Nat
    BY <2>2 DEF Text
  <2>4. Got \in Nat
    BY <2>1, Offsets, Zenon
  <2> QED
    BY <2>1, <2>3, <2>4, Zenon
<1>2. /\ w + 1 \in Nat /\ w + 2 \in Nat /\ w + 3 \in Nat
      /\ Got <= w + 1 /\ Got <= w + 2 /\ Got <= w + 3
      /\ Text + w + 1 = Text + (w + 1) /\ Text + w + 2 = Text + (w + 2)
      /\ Text + w + 3 = Text + (w + 3)
  BY <1>1
<1>3. /\ FlashByte(Text + w) = Abs!Contents(w)
      /\ FlashByte(Text + w + 1) = Abs!Contents(w + 1)
      /\ FlashByte(Text + w + 2) = Abs!Contents(w + 2)
      /\ FlashByte(Text + w + 3) = Abs!Contents(w + 3)
  BY <1>2, ContentsRead
<1>4. FlashWord(Text + w) = Abs!Target(w)
  BY <1>3, Zenon DEF FlashWord, Abs!Target, Abs!from_bytes, from_bytes
<1>5. FlashWord(Text + w) \in Word
  <2>1. Text + w \in Int
    BY <1>1
  <2> QED
    BY <1>1, <2>1, FlashWordType
<1> QED
  BY <1>4, <1>5, WordModFacts DEF Word

-----------------------------------------------------------------------------
(***************************************************************************)
(* What the loader has done of what Load promises.                         *)
(***************************************************************************)
RelCount == Len(file.elf.rel)

(* The end of the part of the GOT that is relocated, the number of         *)
(* pointers that are, and of bytes of .rom.ram that are in RAM.            *)
GotEnd ==
  IF pc = "relocate_got" THEN Got + done
  ELSE IF pc \in {"patch_pointers", "branch", "started"} THEN Data
  ELSE Got

PointersDone ==
  IF pc = "patch_pointers" THEN done
  ELSE IF pc \in {"branch", "started"} THEN RelCount
  ELSE 0

Copied == IF pc = "copy_rom_ram" THEN done ELSE Len(file.elf.rom_ram)

(* Byte b is in m at partition offset off.                                 *)
Has(m, off, b) == At(off) \in DOMAIN m /\ m[At(off)] = b

Filled(w) == to_word(Abs!RunAddr(Abs!Target(w)))

(* No relocation from the i-th to the k-th is of the byte at offset off.   *)
Kept(off, i, k) ==
  \A l \in i .. k : off \notin file.elf.rel[l] .. (file.elf.rel[l] + 3)

GotInPlace(m, x) ==
  \A w \in Abs!GotEntries : w < x =>
    \A j \in 0 .. 3 : Has(m, w + j, Filled(w)[j + 1])

PointersInPlace(m, k) ==
  \A i \in 1 .. k : \A j \in 0 .. 3 :
    Kept(file.elf.rel[i] + j, i + 1, k) =>
      Has(m, file.elf.rel[i] + j, Filled(file.elf.rel[i])[j + 1])

DataInPlace(m, k, n) ==
  \A j \in 0 .. (n - 1) :
    Kept(Data + j, 1, k) => Has(m, Data + j, file.elf.rom_ram[j + 1])

InPlace(m, x, k, n) ==
  GotInPlace(m, x) /\ PointersInPlace(m, k) /\ DataInPlace(m, k, n)

(* What the loader accepts of a pointer.                                   *)
Right(p) ==
  /\ p \in Data .. (End - 1)
  /\ Abs!Target(p) < End /\ Abs!Target(p) \notin Got .. (Data - 1)

Judged(x, k) ==
  /\ \A w \in Abs!GotEntries : w < x => Abs!Target(w) < End
  /\ k \in 0 .. RelCount
  /\ \A i \in 1 .. k : Right(file.elf.rel[i])

RoomBehind ==
  ctx.bin_base + Len(file.bytes) + file.elf.ram_size + PADDING_MPU_ALIGNMENT
    <= WordMod

LoadInv ==
  /\ ZeroInv /\ RamInv
  /\ Linked(file.elf)
  /\ RoomBehind
  /\ Measured => file.elf.magic = MAGIC_NUMBER_AND_VERSION
  /\ \A a \in DOMAIN ram : BlockStart <= a
  /\ pc # "started" => sl = None /\ bx = None
  /\ pc \in Loading => /\ InPlace(ram, GotEnd, PointersDone, Copied)
                       /\ Judged(GotEnd, PointersDone)

(* A store that does not wrap around.                                      *)
LEMMA StoreAt ==
  ASSUME NEW m, NEW a \in Nat, NEW s, Len(s) \in Nat,
         a < WordMod, a + Len(s) <= WordMod
  PROVE  /\ DOMAIN Store(m, a, s) = DOMAIN m \cup a .. (a + Len(s) - 1)
         /\ \A j \in 0 .. (Len(s) - 1) : Store(m, a, s)[a + j] = s[j + 1]
         /\ \A x \in DOMAIN m : x \notin a .. (a + Len(s) - 1)
                                  => Store(m, a, s)[x] = m[x]
<1> DEFINE n == Len(s)
<1>1. Span(a, n) = a .. (a + n - 1)
  <2>1. a \in Word
    BY WordModFacts DEF Word
  <2> QED
    BY <2>1, SpanInRange
<1>2. Store(m, a, s)
        = [x \in DOMAIN m \cup a .. (a + n - 1) |->
             IF x \in a .. (a + n - 1) THEN s[Distance(a, x) + 1] ELSE m[x]]
  BY <1>1 DEF Store
<1> HIDE DEF n
<1>3. n \in Nat
  BY DEF n
<1>4. ASSUME NEW j \in 0 .. (n - 1)
      PROVE  a + j \in a .. (a + n - 1) /\ Distance(a, a + j) + 1 = j + 1
  <2>1. a + j >= a /\ (a + j) - a = j /\ a + j \in a .. (a + n - 1)
    BY <1>3
  <2> QED
    BY <2>1 DEF Distance
<1>5. \A j \in 0 .. (n - 1) : Store(m, a, s)[a + j] = s[j + 1]
  BY <1>2, <1>4
<1>6. \A x \in DOMAIN m : x \notin a .. (a + n - 1) => Store(m, a, s)[x] = m[x]
  BY <1>2
<1>7. DOMAIN Store(m, a, s) = DOMAIN m \cup a .. (a + n - 1)
  BY <1>2
<1> QED
  BY <1>5, <1>6, <1>7 DEF n

(* The same, in partition offsets.                                         *)
LEMMA StoreHas ==
  ASSUME BlockStart \in Nat, Got \in Nat,
         NEW m, NEW off \in Nat, Got <= off, NEW s, NEW n \in Nat, Len(s) = n,
         At(off) < WordMod, At(off) + n <= WordMod
  PROVE  /\ \A j \in 0 .. (n - 1) : Has(Store(m, At(off), s), off + j, s[j + 1])
         /\ \A k \in Int : \A b :
              Has(m, k, b) /\ k \notin off .. (off + n - 1)
                => Has(Store(m, At(off), s), k, b)
         /\ \A x \in DOMAIN Store(m, At(off), s) :
              x \in DOMAIN m \/ (x \in Int /\ At(off) <= x)
<1>1. \A k : At(k) = BlockStart + (k - Got)
  BY DEF At, Got
<1>2. At(off) \in Nat
  BY <1>1
<1>3. /\ DOMAIN Store(m, At(off), s) = DOMAIN m \cup At(off) .. (At(off) + n - 1)
      /\ \A j \in 0 .. (n - 1) : Store(m, At(off), s)[At(off) + j] = s[j + 1]
      /\ \A x \in DOMAIN m : x \notin At(off) .. (At(off) + n - 1)
                               => Store(m, At(off), s)[x] = m[x]
  <2> DEFINE a == At(off)
  <2>1. a \in Nat /\ a < WordMod /\ Len(s) \in Nat /\ a + Len(s) <= WordMod
    BY <1>2
  <2> HIDE DEF a
  <2>2. /\ DOMAIN Store(m, a, s) = DOMAIN m \cup a .. (a + Len(s) - 1)
        /\ \A j \in 0 .. (Len(s) - 1) : Store(m, a, s)[a + j] = s[j + 1]
        /\ \A x \in DOMAIN m : x \notin a .. (a + Len(s) - 1)
                                 => Store(m, a, s)[x] = m[x]
    BY <2>1, StoreAt
  <2> QED
    BY <2>2 DEF a
<1>4. ASSUME NEW j \in 0 .. (n - 1)
      PROVE  Has(Store(m, At(off), s), off + j, s[j + 1])
  <2>1. At(off + j) = At(off) + j /\ At(off) + j \in At(off) .. (At(off) + n - 1)
    BY <1>1, <1>2
  <2> QED
    BY <1>3, <2>1 DEF Has
<1>5. ASSUME NEW k \in Int, NEW b, Has(m, k, b), k \notin off .. (off + n - 1)
      PROVE  Has(Store(m, At(off), s), k, b)
  <2>1. At(k) \notin At(off) .. (At(off) + n - 1)
    <3>1. At(k) = BlockStart + (k - Got) /\ At(off) = BlockStart + (off - Got)
      BY <1>1
    <3> QED
      BY <1>5, <3>1
  <2> QED
    BY <1>3, <1>5, <2>1 DEF Has
<1>6. \A x \in DOMAIN Store(m, At(off), s) :
        x \in DOMAIN m \/ (x \in Int /\ At(off) <= x)
  BY <1>2, <1>3
<1> QED
  BY <1>4, <1>5, <1>6

(* GOT entries are in the GOT, apart from each other.                      *)
LEMMA GotFacts ==
  ASSUME ElfTyped(file.elf), NEW w \in Abs!GotEntries
  PROVE  w \in Nat /\ Got <= w /\ w + 4 <= Data /\ (w - Got) % 4 = 0
<1>1. Got \in Nat /\ Data \in Nat /\ Got <= Data
  BY Offsets
<1>2. w \in Got .. (Data - 4) /\ (w - Got) % 4 = 0
  BY DEF Abs!GotEntries, Abs!WORD_BYTESIZE, Got, Data
<1> QED
  BY <1>1, <1>2

(* As long as nothing is relocated, the data is all there is.              *)
Copies(m, n) ==
  \A j \in 0 .. (n - 1) : Has(m, Data + j, file.elf.rom_ram[j + 1])

LEMMA NoneRelocated ==
  ASSUME ElfTyped(file.elf), NEW m, NEW n
  PROVE  /\ InPlace(m, Got, 0, n) <=> Copies(m, n)
         /\ Judged(Got, 0)
<1>1. \A w \in Abs!GotEntries : ~(w < Got)
  <2>1. Got \in Nat
    BY Offsets
  <2>2. \A w \in Abs!GotEntries : w \in Nat /\ Got <= w
    BY GotFacts
  <2> QED
    BY <2>1, <2>2
<1>2. GotInPlace(m, Got) /\ PointersInPlace(m, 0)
  BY <1>1 DEF GotInPlace, PointersInPlace
<1>3. \A off : Kept(off, 1, 0)
  BY DEF Kept
<1>4. DataInPlace(m, 0, n) <=> Copies(m, n)
  BY <1>3 DEF DataInPlace, Copies
<1>5. RelCount \in Nat
  BY DEF RelCount, ElfTyped
<1>6. Judged(Got, 0)
  BY <1>1, <1>5 DEF Judged
<1> QED
  BY <1>2, <1>4, <1>6 DEF InPlace

(* What a word stored behind .rom changes.                                 *)
LEMMA FillWord ==
  ASSUME ElfTyped(file.elf), BlockStart \in Nat,
         BlockStart + (End - Got) + 4 <= WordMod,
         NEW m, NEW w \in Nat, Got <= w, w < End
  PROVE  LET mm == Store(m, At(w), Filled(w))
         IN  /\ \A j \in 0 .. 3 : Has(mm, w + j, Filled(w)[j + 1])
             /\ \A k \in Int : \A b :
                  Has(m, k, b) /\ k \notin w .. (w + 3) => Has(mm, k, b)
             /\ \A x \in DOMAIN mm : x \in DOMAIN m \/ BlockStart <= x
<1> DEFINE s  == Filled(w)
           mm == Store(m, At(w), s)
<1>1. Got \in Nat /\ End \in Nat /\ Got <= End
  <2>1. /\ Got \in Nat /\ Data \in Nat /\ BssO \in Nat /\ End \in Nat
        /\ Got <= Data /\ Data <= BssO /\ BssO <= End
    BY Offsets
  <2> QED
    BY <2>1
<1>2. Len(s) = 4
  BY DEF Filled, to_word
<1>3. At(w) = BlockStart + (w - Got)
  BY DEF At, Got
<1>4. At(w) \in Nat /\ At(w) < WordMod /\ At(w) + 4 <= WordMod /\ BlockStart <= At(w)
  BY <1>1, <1>3, WordModFacts
<1> HIDE DEF s
<1>5. /\ \A j \in 0 .. (4 - 1) : Has(mm, w + j, s[j + 1])
      /\ \A k \in Int : \A b : Has(m, k, b) /\ k \notin w .. (w + 4 - 1) => Has(mm, k, b)
      /\ \A x \in DOMAIN mm : x \in DOMAIN m \/ (x \in Int /\ At(w) <= x)
  BY <1>1, <1>2, <1>4, StoreHas
<1>6. w + 4 - 1 = w + 3 /\ 4 - 1 = 3
  OBVIOUS
<1> HIDE DEF mm
<1>7. \A x \in DOMAIN mm : x \in DOMAIN m \/ BlockStart <= x
  BY <1>4, <1>5
<1> QED
  BY <1>5, <1>6, <1>7 DEF mm, s

(* Relocating the next word of the GOT leaves the ones before it and the   *)
(* data as they are.                                                       *)
LEMMA FillGot ==
  ASSUME ElfTyped(file.elf), BlockStart \in Nat,
         BlockStart + (End - Got) + 4 <= WordMod,
         NEW m, NEW n \in Nat, NEW w \in Abs!GotEntries, InPlace(m, w, 0, n)
  PROVE  InPlace(Store(m, At(w), Filled(w)), w + 4, 0, n)
<1> DEFINE mm == Store(m, At(w), Filled(w))
<1>1. /\ Got \in Nat /\ Data \in Nat /\ BssO \in Nat /\ End \in Nat
      /\ Got <= Data /\ Data <= BssO /\ BssO <= End
  BY Offsets
<1>2. w \in Nat /\ Got <= w /\ w + 4 <= Data /\ (w - Got) % 4 = 0
  BY GotFacts
<1>3. /\ \A j \in 0 .. 3 : Has(mm, w + j, Filled(w)[j + 1])
      /\ \A k \in Int : \A b :
           Has(m, k, b) /\ k \notin w .. (w + 3) => Has(mm, k, b)
  <2>1. w < End
    BY <1>1, <1>2
  <2> QED
    BY <1>2, <2>1, FillWord
<1> HIDE DEF mm
<1>4. ASSUME NEW v \in Abs!GotEntries, v < w + 4, NEW j \in 0 .. 3
      PROVE  Has(mm, v + j, Filled(v)[j + 1])
  <2>1. v \in Nat /\ Got <= v /\ (v - Got) % 4 = 0
    BY GotFacts
  <2>2. CASE v = w
    BY <1>3, <2>2
  <2>3. CASE v # w
    <3>1. v + 4 <= w
      BY <1>1, <1>2, <1>4, <2>1, <2>3
    <3>2. v < w /\ v + j \in Int /\ v + j \notin w .. (w + 3)
      BY <1>2, <2>1, <3>1
    <3>3. Has(m, v + j, Filled(v)[j + 1])
      BY <3>2 DEF InPlace, GotInPlace
    <3> QED
      BY <1>3, <3>2, <3>3
  <2> QED
    BY <2>2, <2>3
<1>5. ASSUME NEW j \in 0 .. (n - 1), Kept(Data + j, 1, 0)
      PROVE  Has(mm, Data + j, file.elf.rom_ram[j + 1])
  <2>1. Has(m, Data + j, file.elf.rom_ram[j + 1])
    BY <1>5 DEF InPlace, DataInPlace
  <2>2. Data + j \notin w .. (w + 3) /\ Data + j \in Int
    BY <1>1, <1>2
  <2> QED
    BY <1>3, <2>1, <2>2
<1>6. PointersInPlace(mm, 0)
  BY DEF PointersInPlace
<1> QED
  BY <1>4, <1>5, <1>6 DEF InPlace, GotInPlace, DataInPlace, mm

(* Relocating the next pointer of the table leaves the GOT as it is, and   *)
(* what it does not overwrite of the pointers before it and of the data.   *)
LEMMA FillPointer ==
  ASSUME ElfTyped(file.elf), BlockStart \in Nat,
         BlockStart + (End - Got) + 4 <= WordMod,
         NEW m, NEW n \in Nat, NEW k \in Nat, k + 1 \in 1 .. RelCount,
         file.elf.rel[k + 1] \in Data .. (End - 1), InPlace(m, Data, k, n)
  PROVE  LET w == file.elf.rel[k + 1]
         IN  InPlace(Store(m, At(w), Filled(w)), Data, k + 1, n)
<1> DEFINE w  == file.elf.rel[k + 1]
           mm == Store(m, At(w), Filled(w))
<1>1. /\ Got \in Nat /\ Data \in Nat /\ BssO \in Nat /\ End \in Nat
      /\ Got <= Data /\ Data <= BssO /\ BssO <= End
  BY Offsets
<1>2. w \in Nat /\ Got <= w /\ w < End /\ Data <= w
  BY <1>1
<1>3. \A i \in 1 .. RelCount : file.elf.rel[i] \in Nat
  <2>1. file.elf.rel \in Seq(Word)
    BY DEF ElfTyped
  <2>2. \A i \in 1 .. RelCount : file.elf.rel[i] \in Word
    BY <2>1 DEF RelCount
  <2> QED
    BY <2>2, WordModFacts DEF Word
<1>4. RelCount \in Nat
  BY DEF RelCount, ElfTyped
<1>5. /\ \A j \in 0 .. 3 : Has(mm, w + j, Filled(w)[j + 1])
      /\ \A l \in Int : \A b :
           Has(m, l, b) /\ l \notin w .. (w + 3) => Has(mm, l, b)
  <2> HIDE DEF w
  <2> QED
    BY <1>2, FillWord
<1> HIDE DEF mm
<1>6. GotInPlace(mm, Data)
  <2> SUFFICES ASSUME NEW v \in Abs!GotEntries, v < Data, NEW j \in 0 .. 3
               PROVE  Has(mm, v + j, Filled(v)[j + 1])
    BY DEF GotInPlace
  <2>1. v \in Nat /\ v + 4 <= Data
    BY GotFacts
  <2>2. Has(m, v + j, Filled(v)[j + 1])
    BY DEF InPlace, GotInPlace
  <2> HIDE DEF w
  <2>3. v + j \in Int /\ v + j \notin w .. (w + 3)
    BY <1>1, <1>2, <2>1
  <2> QED
    BY <1>5, <2>2, <2>3
<1>7. ASSUME NEW off \in Int, NEW i \in Nat, i <= k + 1, Kept(off, i, k + 1)
      PROVE  Kept(off, i, k) /\ off \notin w .. (w + 3)
  <2>1. k + 1 \in i .. (k + 1)
    BY <1>7
  <2>2. \A l \in i .. k : l \in i .. (k + 1)
    BY <1>7
  <2> QED
    BY <1>7, <2>1, <2>2 DEF Kept
<1>8. PointersInPlace(mm, k + 1)
  <2> SUFFICES ASSUME NEW i \in 1 .. (k + 1), NEW j \in 0 .. 3,
                      Kept(file.elf.rel[i] + j, i + 1, k + 1)
               PROVE  Has(mm, file.elf.rel[i] + j, Filled(file.elf.rel[i])[j + 1])
    BY DEF PointersInPlace
  <2>1. CASE i = k + 1
    BY <1>5, <2>1
  <2>2. CASE i # k + 1
    <3>1. i \in 1 .. k /\ i + 1 \in Nat /\ i + 1 <= k + 1 /\ i \in 1 .. RelCount
      BY <1>4, <2>2
    <3> DEFINE off == file.elf.rel[i] + j
    <3>2. off \in Int
      BY <1>3, <3>1
    <3> HIDE DEF w
    <3>3. Kept(off, i + 1, k) /\ off \notin w .. (w + 3)
      BY <1>7, <3>1, <3>2
    <3>4. Has(m, off, Filled(file.elf.rel[i])[j + 1])
      BY <3>1, <3>3 DEF InPlace, PointersInPlace
    <3> HIDE DEF off
    <3>5. Has(mm, off, Filled(file.elf.rel[i])[j + 1])
      BY <1>5, <3>2, <3>3, <3>4
    <3> QED
      BY <3>5 DEF off
  <2> QED
    BY <2>1, <2>2
<1>9. DataInPlace(mm, k + 1, n)
  <2> SUFFICES ASSUME NEW j \in 0 .. (n - 1), Kept(Data + j, 1, k + 1)
               PROVE  Has(mm, Data + j, file.elf.rom_ram[j + 1])
    BY DEF DataInPlace
  <2> HIDE DEF w
  <2>1. Data + j \in Int /\ 1 <= k + 1
    BY <1>1
  <2>2. Kept(Data + j, 1, k) /\ Data + j \notin w .. (w + 3)
    BY <1>7, <2>1
  <2>3. Has(m, Data + j, file.elf.rom_ram[j + 1])
    BY <2>2 DEF InPlace, DataInPlace
  <2> QED
    BY <1>5, <2>1, <2>2, <2>3
<1> QED
  BY <1>6, <1>8, <1>9 DEF InPlace, mm

(* What no step changes of the program as it should be in memory.          *)
LEMMA PromiseStays ==
  ASSUME file' = file, ctx'.bin_base = ctx.bin_base, BlockStart' = BlockStart
  PROVE  /\ Got' = Got /\ Data' = Data /\ RelCount' = RelCount
         /\ \A m, x, k, n : InPlace(m, x, k, n)' <=> InPlace(m, x, k, n)
         /\ \A x, k : Judged(x, k)' <=> Judged(x, k)
<1>1. Got' = Got /\ Data' = Data /\ BssO' = BssO /\ End' = End /\ RelCount' = RelCount
  BY DEF Got, Data, BssO, End, Abs!EndOffset, Abs!BssOffset, Abs!DataOffset,
         Abs!GotOffset, Abs!elf, RelCount
<1>2. Abs!GotEntries' = Abs!GotEntries
  BY DEF Abs!GotEntries, Abs!BssOffset, Abs!DataOffset, Abs!GotOffset, Abs!elf
<1>3. ASSUME NEW off
      PROVE  Abs!Target(off)' = Abs!Target(off)
  <2>1. \A k : Abs!Contents(k)' = Abs!Contents(k)
    BY DEF Abs!Contents, Abs!BssOffset, Abs!DataOffset, Abs!GotOffset, Abs!elf
  <2> QED
    BY <2>1 DEF Abs!Target
<1>4. ASSUME NEW off
      PROVE  Abs!RunAddr(off)' = Abs!RunAddr(off)
  BY DEF Abs!RunAddr, Abs!GotOffset, Abs!elf, BlockStart
<1>5. ASSUME NEW w
      PROVE  Filled(w)' = Filled(w)
  <2>1. Abs!RunAddr(Abs!Target(w))' = Abs!RunAddr(Abs!Target(w))
    BY <1>3, <1>4
  <2> QED
    BY <2>1 DEF Filled
<1>6. ASSUME NEW m, NEW k, NEW b
      PROVE  Has(m, k, b)' <=> Has(m, k, b)
  <2>1. At(k)' = At(k)
    BY <1>1 DEF At, Got
  <2> QED
    BY <2>1 DEF Has
<1>7. ASSUME NEW off, NEW i, NEW k
      PROVE  Kept(off, i, k)' <=> Kept(off, i, k)
  BY DEF Kept
<1>8. ASSUME NEW m, NEW x, NEW k, NEW n
      PROVE  InPlace(m, x, k, n)' <=> InPlace(m, x, k, n)
  <2>1. GotInPlace(m, x)' <=> GotInPlace(m, x)
    BY <1>2, <1>5, <1>6 DEF GotInPlace
  <2>2. PointersInPlace(m, k)' <=> PointersInPlace(m, k)
    BY <1>5, <1>6, <1>7 DEF PointersInPlace
  <2>3. DataInPlace(m, k, n)' <=> DataInPlace(m, k, n)
    BY <1>1, <1>6, <1>7 DEF DataInPlace
  <2> QED
    BY <2>1, <2>2, <2>3 DEF InPlace
<1>9. ASSUME NEW x, NEW k
      PROVE  Judged(x, k)' <=> Judged(x, k)
  <2>1. \A p : Right(p)' <=> Right(p)
    BY <1>1, <1>3 DEF Right
  <2> QED
    BY <1>1, <1>2, <1>3, <2>1 DEF Judged
<1> QED
  BY <1>1, <1>8, <1>9

(* .rom.ram, as it is in flash.                                            *)
LEMMA DataRead ==
  ASSUME BuiltInv, NEW k \in 0 .. (BssO - Data - 1)
  PROVE  FlashByte(Text + Data + k) = file.elf.rom_ram[k + 1]
<1> DEFINE e == file.elf
           m == file.partition
           base == ctx.bin_base
           n == m + Got + Len(e.got)
<1>1. /\ ElfTyped(e) /\ FlashTyped /\ file.align \in Nat
      /\ file.bytes = concatenate_and_pad(e, file.align)
      /\ m = metadata_size(e, file.align)
  BY DEF BuiltInv, BuiltFile, Built
<1>2. /\ Got \in Nat /\ Data \in Nat /\ BssO \in Nat
      /\ Len(e.rom) = Got /\ Len(e.got) = Data - Got /\ Len(e.rom_ram) = BssO - Data
  BY <1>1, Offsets
<1>3. HasAt(file.bytes, n, e.rom_ram)
  <2>1. Partition(file.bytes, e, file.align)
    BY <1>1, Layout
  <2> QED
    BY <1>1, <1>2, <2>1 DEF Partition
<1>4. e.rom_ram \in Seq(Byte)
  BY <1>1 DEF ElfTyped
<1>5. m \in Nat /\ base \in Nat /\ Text = base + m
  <2>1. m \in Nat /\ base \in Nat
    BY ReadsBuilt, <1>1, WordModFacts DEF BuiltInv, FlashTyped, Word
  <2> QED
    BY <2>1 DEF Text
<1>6. k + 1 \in 1 .. Len(e.rom_ram)
  BY <1>2
<1>7. n = m + Data
  <2>1. Len(e.got) = Data - Got
    BY <1>2
  <2> HIDE DEF m
  <2> QED
    BY <1>2, <1>5, <2>1
<1> HIDE DEF n
<1>8. FlashByte(base + n + (k + 1) - 1) = e.rom_ram[k + 1]
  BY <1>1, <1>3, <1>4, <1>6, FlashHas
<1>9. base + n + (k + 1) - 1 = Text + Data + k
  <2> HIDE DEF base, m
  <2> QED
    BY <1>2, <1>5, <1>7
<1> QED
  BY <1>8, <1>9

(* memcpy() goes on where it is.                                           *)
LEMMA CopyChunk ==
  ASSUME BuiltInv, TextBegins(file.elf), CopyRomRam, done < rom_ram_sec_size,
         Copies(ram, done)
  PROVE  /\ Copies(ram', done') /\ done' \in Nat
         /\ \A x \in DOMAIN ram' : x \in DOMAIN ram \/ BlockStart <= x
<1> DEFINE n   == ChunkSize(rom_ram_sec_size - done)
           src == Add(rom_ram_sec_addr, done)
           s   == [j \in 1 .. n |-> FlashByte(Add(src, j - 1))]
<1>1. pc = "copy_rom_ram" /\ pc \in Loading /\ LaidOut
  BY DEF CopyRomRam, Loading, Loops, LaidOut
<1>3. /\ Got \in Nat /\ Data \in Nat /\ BssO \in Nat /\ End \in Nat
      /\ Got <= Data /\ Data <= BssO /\ BssO <= End
      /\ rom_ram_sec_size = BssO - Data /\ BlockStart \in Nat /\ Text \in Nat
      /\ rel_rom_ram_sec_addr = BlockStart + (Data - Got)
      /\ BlockStart + (End - Got) < WordMod
  BY <1>1, Found
<1>4. rom_ram_sec_addr = Text + Data /\ Text + BssO < WordMod
  BY <1>1, FoundInFlash
<1>5. done \in Nat
  BY WordModFacts DEF BuiltInv, TypeOK, Word
<1>2. /\ ram' = Store(ram, Add(rel_rom_ram_sec_addr, done), s)
      /\ done' = done + n
  <2>1. ~(done >= rom_ram_sec_size)
    BY <1>3, <1>5
  <2> QED
    BY <2>1, Zenon DEF CopyRomRam
<1>6. n \in 1 .. (rom_ram_sec_size - done)
  <2>1. rom_ram_sec_size - done \in Nat /\ rom_ram_sec_size - done > 0
    BY <1>3, <1>5
  <2> QED
    BY <2>1, ChunkSizeBounds
<1> HIDE DEF n
<1>7. n \in Nat /\ done + n <= BssO - Data
  BY <1>3, <1>5, <1>6
<1>8. src = Text + Data + done
  BY <1>3, <1>4, <1>5, <1>7, WordModFacts DEF Add
<1> HIDE DEF src
<1>9. ASSUME NEW j \in 1 .. n
      PROVE  s[j] = file.elf.rom_ram[done + j]
  <2>1. Add(src, j - 1) = Text + Data + (done + j - 1)
    BY <1>3, <1>4, <1>5, <1>7, <1>8, WordModFacts DEF Add
  <2>2. done + j - 1 \in 0 .. (BssO - Data - 1) /\ (done + j - 1) + 1 = done + j
    BY <1>3, <1>5, <1>7
  <2>3. FlashByte(Text + Data + (done + j - 1)) = file.elf.rom_ram[(done + j - 1) + 1]
    BY <2>2, DataRead
  <2> QED
    BY <2>1, <2>2, <2>3
<1>10. Len(s) = n
  BY <1>7
<1> HIDE DEF s
<1> DEFINE off == Data + done
<1>11. At(off) = BlockStart + (off - Got)
  BY DEF At, Got
<1>12. /\ At(off) = Add(rel_rom_ram_sec_addr, done) /\ off \in Nat /\ Got <= off
       /\ At(off) < WordMod /\ At(off) + n <= WordMod /\ BlockStart <= At(off)
       /\ At(off) \in Nat
  BY <1>3, <1>5, <1>6, <1>7, <1>11, WordModFacts DEF Add
<1>13. ram' = Store(ram, At(off), s)
  BY <1>2, <1>12
<1> HIDE DEF off
<1>14. /\ \A j \in 0 .. (n - 1) : Has(ram', off + j, s[j + 1])
       /\ \A k \in Int : \A b : Has(ram, k, b) /\ k \notin off .. (off + n - 1)
                              => Has(ram', k, b)
       /\ \A x \in DOMAIN ram' : x \in DOMAIN ram \/ (x \in Int /\ At(off) <= x)
  BY <1>3, <1>7, <1>10, <1>12, <1>13, StoreHas
<1>15. ASSUME NEW k \in 0 .. (done + n - 1)
       PROVE  Has(ram', Data + k, file.elf.rom_ram[k + 1])
  <2>1. CASE k < done
    <3>1. Has(ram, Data + k, file.elf.rom_ram[k + 1])
      BY <1>5, <2>1 DEF Copies
    <3>2. Data + k \in Int /\ Data + k \notin off .. (off + n - 1)
      BY <1>3, <1>5, <2>1 DEF off
    <3> QED
      BY <1>14, <3>1, <3>2
  <2>2. CASE k >= done
    <3>1. k - done \in 0 .. (n - 1) /\ off + (k - done) = Data + k
          /\ (k - done) + 1 \in 1 .. n /\ done + ((k - done) + 1) = k + 1
      BY <1>3, <1>5, <1>7, <2>2 DEF off
    <3>2. Has(ram', off + (k - done), s[(k - done) + 1])
      BY <1>14, <3>1
    <3> QED
      BY <1>9, <3>1, <3>2
  <2> QED
    BY <1>5, <2>1, <2>2
<1>16. \A x \in DOMAIN ram' : x \in DOMAIN ram \/ BlockStart <= x
  BY <1>3, <1>12, <1>14
<1>17. done + n \in Nat
  BY <1>5, <1>7
<1>18. Copies(ram', done + n)
  <2> DEFINE N == done + n
  <2>1. \A j \in 0 .. (N - 1) : Has(ram', Data + j, file.elf.rom_ram[j + 1])
    BY <1>5, <1>7, <1>15
  <2> HIDE DEF N
  <2>2. Copies(ram', N)
    BY <2>1 DEF Copies
  <2> QED
    BY <2>2 DEF N
<1> QED
  BY <1>2, <1>16, <1>17, <1>18

(* Zeroing .ram leaves what is before it as it is.                         *)
LEMMA ZeroWord ==
  ASSUME BuiltInv, RoomToPatch,
         ZeroRam, MoreRam, NEW n, n = Len(file.elf.rom_ram), Copies(ram, n)
  PROVE  /\ Copies(ram', n)
         /\ \A x \in DOMAIN ram' : x \in DOMAIN ram \/ BlockStart <= x
<1>1. LaidOut /\ ElfTyped(file.elf)
  BY DEF ZeroRam, LaidOut, Loading, Loops, BuiltInv, BuiltFile, Built
<1>2. ram' = Store(ram, Add(rel_ram_sec_addr, done), to_word(0)) /\ done < ram_sec_size
  BY DEF ZeroRam, MoreRam
<1>3. /\ Got \in Nat /\ Data \in Nat /\ BssO \in Nat /\ End \in Nat
      /\ Got <= Data /\ Data <= BssO /\ BssO <= End
      /\ ram_sec_size = End - BssO /\ BlockStart \in Nat
      /\ rel_ram_sec_addr = BlockStart + (BssO - Got)
  BY <1>1, Found
<1>4. done \in Nat
  BY WordModFacts DEF BuiltInv, TypeOK, Word
<1>5. BlockStart + (End - Got) + 4 <= WordMod /\ n = BssO - Data
  <2>1. BlockSize(file.elf) = End - Got /\ Len(file.elf.rom_ram) = BssO - Data
    BY <1>1, Offsets
  <2> QED
    BY <2>1 DEF RoomToPatch, WORD_BYTESIZE
<1> DEFINE off == BssO + done
           s   == to_word(0)
<1>6. Len(s) = 4
  BY DEF to_word
<1> HIDE DEF s
<1>7. At(off) = BlockStart + (off - Got)
  BY DEF At, Got
<1>8. /\ At(off) = Add(rel_ram_sec_addr, done) /\ off \in Nat /\ Got <= off
      /\ At(off) < WordMod /\ At(off) + 4 <= WordMod /\ BlockStart <= At(off)
      /\ At(off) \in Nat
  BY <1>2, <1>3, <1>4, <1>5, <1>7, WordModFacts DEF Add
<1>9. ram' = Store(ram, At(off), s)
  BY <1>2, <1>8 DEF s
<1> HIDE DEF off
<1>10. /\ \A k \in Int : \A b : Has(ram, k, b) /\ k \notin off .. (off + 4 - 1)
                              => Has(ram', k, b)
       /\ \A x \in DOMAIN ram' : x \in DOMAIN ram \/ (x \in Int /\ At(off) <= x)
  BY <1>3, <1>6, <1>8, <1>9, StoreHas
<1>11. ASSUME NEW k \in 0 .. (n - 1)
       PROVE  Has(ram', Data + k, file.elf.rom_ram[k + 1])
  <2>1. Has(ram, Data + k, file.elf.rom_ram[k + 1])
    BY DEF Copies
  <2>2. Data + k \in Int /\ Data + k \notin off .. (off + 4 - 1)
    BY <1>3, <1>4, <1>5 DEF off
  <2> QED
    BY <1>10, <2>1, <2>2
<1>12. \A x \in DOMAIN ram' : x \in DOMAIN ram \/ BlockStart <= x
  BY <1>3, <1>8, <1>10
<1> QED
  BY <1>11, <1>12 DEF Copies

(* What a step has to show of the memory.                                  *)
LEMMA ProgressKept ==
  ASSUME file' = file, ctx'.bin_base = ctx.bin_base, BlockStart' = BlockStart,
         InPlace(ram', GotEnd', PointersDone', Copied'),
         Judged(GotEnd', PointersDone')
  PROVE  /\ InPlace(ram, GotEnd, PointersDone, Copied)'
         /\ Judged(GotEnd, PointersDone)'
<1>1. /\ \A m, x, k, n : InPlace(m, x, k, n)' <=> InPlace(m, x, k, n)
      /\ \A x, k : Judged(x, k)' <=> Judged(x, k)
  BY PromiseStays
<1> QED
  BY <1>1

(* The word of the GOT that the loader is at.                              *)
LEMMA GotStep ==
  ASSUME LoadInv, pc = "relocate_got", done < got_sec_size
  PROVE  LET w   == Got + done
             off == FlashWord(Add(got_sec_addr, done))
         IN  /\ w \in Abs!GotEntries /\ off = Abs!Target(w) /\ off \in Nat
             /\ Add(rel_got_sec_addr, done) = At(w)
             /\ NextWord = done + 4 /\ done \in Nat /\ done % 4 = 0
             /\ OutOfBounds(off) <=> off >= End
             /\ ~OutOfBounds(off) => to_word(Address(off)) = Filled(w)
<1> DEFINE w   == Got + done
           off == FlashWord(Add(got_sec_addr, done))
<1>1. /\ BuiltInv /\ pc \in Loading /\ LaidOut /\ TextBegins(file.elf)
      /\ ElfTyped(file.elf)
  BY DEF LoadInv, ZeroInv, Loading, Loops, LaidOut, Linked, BuiltInv, BuiltFile, Built
<1>2. /\ Got \in Nat /\ Data \in Nat /\ BssO \in Nat /\ End \in Nat
      /\ Got <= Data /\ Data <= BssO /\ BssO <= End
      /\ got_sec_size = Data - Got /\ rel_got_sec_addr = BlockStart
      /\ BlockStart \in Nat /\ Text \in Nat
      /\ BlockStart + (End - Got) < WordMod
  BY <1>1, Found
<1>3. got_sec_addr = Text + Got /\ Text + BssO < WordMod
  BY <1>1, FoundInFlash
<1>4. done \in Nat /\ done % 4 = 0
  BY <1>1, WordModFacts DEF BuiltInv, TypeOK, Word, LoadInv, ZeroInv
<1>5. (Data - Got) % 4 = 0
  <2>1. Len(file.elf.got) % 4 = 0 /\ Len(file.elf.got) = Data - Got
    BY <1>1, Offsets DEF LoadInv, Linked, WholeWords, WORD_BYTESIZE
  <2> QED
    BY <2>1
<1>6. done + 4 <= Data - Got
  BY <1>2, <1>4, <1>5
<1>7. w \in Nat /\ w \in Got .. (Data - 4) /\ (w - Got) % 4 = 0
  BY <1>2, <1>4, <1>6
<1>8. w \in Abs!GotEntries
  BY <1>7 DEF Abs!GotEntries, Abs!WORD_BYTESIZE, Got, Data
<1>9. Add(got_sec_addr, done) = Text + w
  BY <1>2, <1>3, <1>4, <1>6, WordModFacts DEF Add
<1>10. off = Abs!Target(w) /\ off \in Nat
  <2>1. Got <= w
    BY <1>2, <1>7
  <2>2. FlashWord(Text + w) = Abs!Target(w) /\ Abs!Target(w) \in Nat
    BY <1>1, <1>7, <2>1, TargetRead
  <2> QED
    BY <1>9, <2>2
<1>11. Add(rel_got_sec_addr, done) = At(w)
  <2>1. At(w) = BlockStart + (w - Got)
    BY DEF At, Got
  <2> QED
    BY <1>2, <1>4, <1>6, <2>1, WordModFacts DEF Add
<1>12. NextWord = done + 4
  BY <1>2, <1>4, <1>6, WordModFacts DEF NextWord, Add, WORD_BYTESIZE
<1> HIDE DEF w, off
<1>13. /\ OutOfBounds(off) <=> off >= End
       /\ ~OutOfBounds(off) => Address(off) = Abs!RunAddr(off)
  BY <1>1, <1>10, SameAddress
<1>14. ~OutOfBounds(off) => to_word(Address(off)) = Filled(w)
  BY <1>10, <1>13 DEF Filled
<1> QED
  BY <1>4, <1>8, <1>10, <1>11, <1>12, <1>13, <1>14 DEF w, off

(* The pointer that the loader is at.  Where its place is accepted, its    *)
(* target is what Load reads there, behind .rom.ram too.                   *)
LEMMA PointerStep ==
  ASSUME LoadInv, pc = "patch_pointers", MorePointers
  PROVE  LET w   == FlashWord(EntryAddr(done))
             off == FlashWord(Add(rom_sec_addr, w))
         IN  /\ done \in Nat /\ done + 1 \in 1 .. RelCount
             /\ Add(done, 1) = done + 1
             /\ w = file.elf.rel[done + 1] /\ w \in Nat
             /\ InRom(w) <=> w < Got
             /\ InGot(w) <=> w \in Got .. (Data - 1)
             /\ OutOfBounds(w) <=> w >= End
             /\ PlaceError(w) = None =>
                  /\ w \in Data .. (End - 1)
                  /\ off = Abs!Target(w) /\ off \in Nat
                  /\ Address(w) = At(w)
                  /\ InGot(off) <=> off \in Got .. (Data - 1)
                  /\ OutOfBounds(off) <=> off >= End
                  /\ ~OutOfBounds(off) => to_word(Address(off)) = Filled(w)
<1> DEFINE w   == FlashWord(EntryAddr(done))
           off == FlashWord(Add(rom_sec_addr, w))
           n   == Len(file.elf.rel)
<1>1. /\ BuiltInv /\ pc \in Loading /\ LaidOut /\ TextBegins(file.elf)
      /\ ElfTyped(file.elf) /\ BuiltFile
  BY DEF LoadInv, ZeroInv, Loading, Loops, LaidOut, Linked, BuiltInv, BuiltFile, Built
<1>2. /\ Got \in Nat /\ Data \in Nat /\ BssO \in Nat /\ End \in Nat
      /\ Got <= Data /\ Data <= BssO /\ BssO <= End
      /\ BlockStart \in Nat /\ Text \in Nat
      /\ BlockStart + (End - Got) < WordMod
  BY <1>1, Found
<1>3. rom_sec_addr = Text /\ Text + End < WordMod
  <2> DEFINE o == Len(file.elf.rom)
             g == Len(file.elf.got)
             d == Len(file.elf.rom_ram)
             m == file.partition
             s == file.elf.ram_size
             b == Len(file.bytes)
             base == ctx.bin_base
  <2>1. rom_sec_addr = Text
    BY <1>1, FoundInFlash
  <2>2. /\ m + o + g + d <= b /\ m \in Nat
    BY <1>1, ReadsBuilt
  <2>3. o = Got /\ g = Data - Got /\ d = BssO - Data /\ s = End - BssO
    BY <1>1, Offsets
  <2>4. b \in Nat /\ base \in Nat
    BY <1>1, FilePlaced DEF BuiltInv
  <2>5. base + b + s + 32 <= WordMod /\ Text = base + m
    BY DEF LoadInv, RoomBehind, PADDING_MPU_ALIGNMENT, Text
  <2> HIDE DEF o, g, d, m, s, b, base
  <2>6. m + BssO <= b
    BY <1>2, <2>2, <2>3
  <2> QED
    BY <1>2, <2>1, <2>2, <2>3, <2>4, <2>5, <2>6, WordModFacts
<1>4. done \in Nat
  BY <1>1, WordModFacts DEF BuiltInv, TypeOK, Word
<1>5. /\ file.elf.rel \in Seq(Word) /\ n \in Nat /\ done < n /\ n \in Word
  <2>1. file.elf.rel \in Seq(Word)
    BY <1>1 DEF ElfTyped
  <2>2. entry_number = n /\ entry_number \in Word
    BY <1>1, ReadsBuilt, MetadataType DEF BuiltFile
  <2> QED
    BY <2>1, <2>2 DEF MorePointers
<1>6. w = file.elf.rel[done + 1]
  <2>1. done \in 0 .. (n - 1)
    <3> HIDE DEF n
    <3> QED
      BY <1>4, <1>5
  <2> QED
    BY <1>1, <2>1, ReadsBuilt
<1>7. done + 1 \in 1 .. n /\ Add(done, 1) = done + 1
  <2> HIDE DEF n
  <2>1. n \in Nat /\ n < WordMod
    BY <1>5, WordModFacts DEF Word
  <2> QED
    BY <1>4, <1>5, <2>1, WordModFacts DEF Add
<1>8. w \in Nat
  <2>1. file.elf.rel[done + 1] \in Word
    BY <1>5, <1>7
  <2> QED
    BY <1>6, <2>1, WordModFacts DEF Word
<1> HIDE DEF w, off
<1>9. /\ InRom(w) <=> w < Got
      /\ InGot(w) <=> w \in Got .. (Data - 1)
      /\ OutOfBounds(w) <=> w >= End
      /\ ~OutOfBounds(w) => Address(w) = Abs!RunAddr(w)
  BY <1>1, <1>8, SameAddress
<1>10. ASSUME PlaceError(w) = None
       PROVE  /\ w \in Data .. (End - 1)
              /\ off = Abs!Target(w) /\ off \in Nat
              /\ Address(w) = At(w)
              /\ InGot(off) <=> off \in Got .. (Data - 1)
              /\ OutOfBounds(off) <=> off >= End
              /\ ~OutOfBounds(off) => to_word(Address(off)) = Filled(w)
  <2>1. ~InRom(w) /\ ~InGot(w) /\ ~OutOfBounds(w)
    BY <1>10 DEF PlaceError, None
  <2>2. Data <= w /\ w < End
    BY <1>2, <1>8, <1>9, <2>1
  <2>3. off = Abs!Target(w) /\ off \in Nat
    <3>1. Add(rom_sec_addr, w) = Text + w
      BY <1>2, <1>3, <1>8, <2>2, WordModFacts DEF Add
    <3>2. FlashWord(Text + w) = Abs!Target(w) /\ Abs!Target(w) \in Nat
      <4>1. Got <= w
        BY <1>2, <1>8, <2>2
      <4> QED
        BY <1>1, <1>8, <4>1, TargetRead
    <3> QED
      BY <3>1, <3>2 DEF off
  <2>4. Address(w) = At(w)
    <3>1. Abs!RunAddr(w) = IF w < Got
                             THEN ctx.bin_base + file.partition + w
                             ELSE BlockStart + w - Got
      BY RunsAt
    <3>2. At(w) = BlockStart + (w - Got)
      BY DEF At, Got
    <3> QED
      BY <1>2, <1>8, <1>9, <2>1, <3>1, <3>2
  <2>5. /\ InGot(off) <=> off \in Got .. (Data - 1)
        /\ OutOfBounds(off) <=> off >= End
        /\ ~OutOfBounds(off) => Address(off) = Abs!RunAddr(off)
    BY <1>1, <2>3, SameAddress
  <2>6. ~OutOfBounds(off) => to_word(Address(off)) = Filled(w)
    BY <2>3, <2>5 DEF Filled
  <2>7. w \in Data .. (End - 1)
    BY <1>2, <1>8, <2>2
  <2> QED
    BY <2>3, <2>4, <2>5, <2>6, <2>7
<1>11. RelCount = n
  BY DEF RelCount, n
<1> QED
  BY <1>4, <1>6, <1>7, <1>8, <1>9, <1>10, <1>11 DEF w, off

(* Everything but the memory.                                              *)
LEMMA StepAround ==
  ASSUME LoadInv, [Next]_vars
  PROVE  /\ ZeroInv' /\ RamInv'
         /\ file' = file /\ ctx'.bin_base = ctx.bin_base
         /\ BlockStart' = BlockStart
         /\ Linked(file.elf)'
         /\ RoomBehind'
         /\ (Measured => file.elf.magic = MAGIC_NUMBER_AND_VERSION)'
         /\ (pc # "started" => sl = None /\ bx = None)'
<1>1. ZeroInv' /\ RamInv'
  BY StepZero, StepRam DEF LoadInv
<1>2. file' = file /\ ctx'.bin_base = ctx.bin_base /\ BlockStart' = BlockStart
  BY PlaceStays DEF LoadInv, ZeroInv
<1>3. Linked(file.elf)' /\ RoomBehind'
  BY <1>2 DEF LoadInv, Linked, TextBegins, WholeWords, RoomBehind
<1>4. (Measured => file.elf.magic = MAGIC_NUMBER_AND_VERSION)'
  <2>1. CASE Measured
    BY <1>2, <2>1 DEF LoadInv
  <2>2. CASE ~Measured /\ ~CheckVersion
    <3>1. ~Measured'
      BY <2>2 DEF Measured, Next, vars, SkipPadding, LayOut, CheckRam,
                  CopyRomRam, ZeroRam, RelocateGot, PatchPointers, Branch, Goto,
                  Die, Loading, Loops
    <3> QED
      BY <3>1
  <2>3. CASE CheckVersion
    <3>1. CASE pc' = "dead"
      <4>1. err' = 0
        BY <2>3, <3>1 DEF CheckVersion, Die, Goto
      <4>2. ~Measured'
        BY <3>1, <4>1 DEF Measured, Loading, Loops
      <4> QED
        BY <4>2
    <3>2. CASE pc' # "dead"
      <4>1. Footer(FOOTER_MAGIC_NUMBER_AND_VERSION_OFFSET)
              = MAGIC_NUMBER_AND_VERSION
        BY <2>3, <3>2 DEF CheckVersion, Die
      <4>2. BuiltFile
        BY DEF LoadInv, ZeroInv, BuiltInv
      <4> QED
        BY <1>2, <4>1, <4>2, ReadsBuilt
    <3> QED
      BY <3>1, <3>2
  <2> QED
    BY <2>1, <2>2, <2>3
<1>5. (pc # "started" => sl = None /\ bx = None)'
  <2>1. ASSUME pc' # "started"
        PROVE  pc # "started" /\ sl' = sl /\ bx' = bx
    BY <2>1 DEF Next, vars, CheckVersion, SkipPadding, LayOut, CheckRam,
                CopyRomRam, ZeroRam, RelocateGot, PatchPointers, Branch
  <2> QED
    BY <2>1 DEF LoadInv
<1> QED
  BY <1>1, <1>2, <1>3, <1>4, <1>5

(* What a step of the loader does to the memory.                           *)
LEMMA StepMemory ==
  ASSUME LoadInv, [Next]_vars
  PROVE  /\ \A a \in DOMAIN ram' : a \in DOMAIN ram \/ BlockStart <= a
         /\ pc' \in Loading =>
              /\ InPlace(ram', GotEnd', PointersDone', Copied')
              /\ Judged(GotEnd', PointersDone')
<1> DEFINE Grown == \A a \in DOMAIN ram' : a \in DOMAIN ram \/ BlockStart <= a
           Progress(m, x, k, c) == InPlace(m, x, k, c) /\ Judged(x, k)
           n == Len(file.elf.rom_ram)
<1> USE DEF Loading, Loops
<1>0. /\ BuiltInv /\ RamInv /\ ElfTyped(file.elf) /\ TextBegins(file.elf)
      /\ TypeOK /\ RoomToPatch
  BY DEF LoadInv, ZeroInv, BuiltInv, BuiltFile, Built, Linked
<1>a. /\ file' = file /\ BlockStart' = BlockStart
      /\ Got' = Got /\ Data' = Data /\ RelCount' = RelCount
  BY <1>0, PlaceStays, PromiseStays
<1>b. pc \in Loading => Progress(ram, GotEnd, PointersDone, Copied)
  BY DEF LoadInv
<1>c. /\ Got \in Nat /\ Data \in Nat /\ BssO \in Nat /\ End \in Nat
      /\ Got <= Data /\ Data <= BssO /\ BssO <= End
      /\ n = BssO - Data /\ n \in Nat /\ n' = n
      /\ BlockStart + (End - Got) + 4 <= WordMod
  <2>1. /\ Got \in Nat /\ Data \in Nat /\ BssO \in Nat /\ End \in Nat
        /\ Got <= Data /\ Data <= BssO /\ BssO <= End
        /\ n = BssO - Data /\ BlockSize(file.elf) = End - Got
    BY <1>0, Offsets
  <2> QED
    BY <1>0, <1>a, <2>1 DEF RoomToPatch, WORD_BYTESIZE
<1>d. done \in Nat
  BY <1>0, WordModFacts DEF TypeOK, Word
<1>e. LaidOut => /\ got_sec_size = Data - Got /\ rom_ram_sec_size = n
                 /\ BlockStart \in Nat
  BY <1>0, <1>c, Found
<1>f. \A m, c : Progress(m, Got, 0, c) <=> Copies(m, c)
  BY <1>0, NoneRelocated
<1> HIDE DEF n
<1>1. CASE CheckVersion \/ SkipPadding \/ LayOut
  <2>1. ram' = ram /\ pc' \in {"skip_padding", "check_ram", "dead"}
    BY <1>1 DEF CheckVersion, SkipPadding, LayOut, Goto, Die
  <2> QED
    BY <2>1
<1>2. CASE CheckRam
  <2>1. ram' = ram /\ pc' \in {"copy_rom_ram", "dead"}
    BY <1>2 DEF CheckRam, Goto, Die
  <2>2. pc' = "copy_rom_ram" => done' = 0
    BY <1>2 DEF CheckRam, Goto, Die
  <2>3. pc' = "copy_rom_ram" => GotEnd' = Got /\ PointersDone' = 0 /\ Copied' = 0
    BY <1>a, <2>2 DEF GotEnd, PointersDone, Copied
  <2>4. Copies(ram', 0)
    BY DEF Copies
  <2> QED
    BY <1>f, <2>1, <2>3, <2>4
<1>3. CASE CopyRomRam
  <2>1. pc = "copy_rom_ram" /\ LaidOut
    BY <1>3 DEF CopyRomRam, LaidOut
  <2>2. GotEnd = Got /\ PointersDone = 0 /\ Copied = done
    BY <2>1 DEF GotEnd, PointersDone, Copied
  <2>3. Copies(ram, done)
    BY <1>b, <1>f, <2>1, <2>2
  <2>4. CASE done < rom_ram_sec_size
    <3>1. pc' = "copy_rom_ram"
      <4>1. ~(done >= rom_ram_sec_size)
        BY <1>c, <1>d, <1>e, <2>1, <2>4
      <4> QED
        BY <1>3, <4>1, <2>1 DEF CopyRomRam
    <3>2. Copies(ram', done') /\ Grown
      BY <1>0, <1>3, <2>3, <2>4, CopyChunk
    <3>3. GotEnd' = Got /\ PointersDone' = 0 /\ Copied' = done'
      BY <1>a, <3>1 DEF GotEnd, PointersDone, Copied
    <3> QED
      BY <1>f, <3>1, <3>2, <3>3
  <2>5. CASE ~(done < rom_ram_sec_size)
    <3>1. pc' = "zero_ram" /\ ram' = ram
      BY <1>3, <2>5 DEF CopyRomRam, Goto
    <3>2. done = n
      <4>1. done <= rom_ram_sec_size
        BY <1>0, <2>1 DEF TypeOK
      <4> QED
        BY <1>c, <1>d, <1>e, <2>1, <2>5, <4>1
    <3>3. GotEnd' = Got /\ PointersDone' = 0 /\ Copied' = n
      BY <1>a, <3>1 DEF GotEnd, PointersDone, Copied, n
    <3> QED
      BY <1>f, <2>3, <3>1, <3>2, <3>3
  <2> QED
    BY <2>4, <2>5
<1>4. CASE ZeroRam
  <2>1. pc = "zero_ram"
    BY <1>4 DEF ZeroRam
  <2>2. GotEnd = Got /\ PointersDone = 0 /\ Copied = n
    BY <2>1 DEF GotEnd, PointersDone, Copied, n
  <2>3. Copies(ram, n)
    BY <1>b, <1>f, <2>1, <2>2
  <2>4. CASE MoreRam
    <3>1. pc' = "zero_ram"
      BY <1>4, <2>1, <2>4 DEF ZeroRam
    <3>2. Copies(ram', n) /\ Grown
      BY <1>0, <1>4, <2>3, <2>4, ZeroWord DEF n
    <3>3. GotEnd' = Got /\ PointersDone' = 0 /\ Copied' = n
      BY <1>a, <3>1 DEF GotEnd, PointersDone, Copied, n
    <3> QED
      BY <1>f, <3>1, <3>2, <3>3
  <2>5. CASE ~MoreRam
    <3>1. pc' = "relocate_got" /\ ram' = ram /\ done' = 0
      BY <1>4, <2>5 DEF ZeroRam, Goto
    <3>2. GotEnd' = Got /\ PointersDone' = 0 /\ Copied' = n
      BY <1>a, <1>c, <3>1 DEF GotEnd, PointersDone, Copied, n
    <3> QED
      BY <1>f, <2>3, <3>1, <3>2
  <2> QED
    BY <2>4, <2>5
<1>5. CASE RelocateGot
  <2> DEFINE w   == Got + done
             off == FlashWord(Add(got_sec_addr, done))
  <2>1. pc = "relocate_got" /\ LaidOut
    BY <1>5 DEF RelocateGot, LaidOut
  <2>2. GotEnd = w /\ PointersDone = 0 /\ Copied = n
    BY <2>1 DEF GotEnd, PointersDone, Copied, n
  <2>3. InPlace(ram, w, 0, n) /\ Judged(w, 0)
    BY <1>b, <2>1, <2>2
  <2>4. CASE done < got_sec_size
    <3>0. ~(done >= got_sec_size)
      BY <1>c, <1>d, <1>e, <2>1, <2>4
    <3>1. /\ w \in Abs!GotEntries /\ off = Abs!Target(w) /\ off \in Nat
          /\ Add(rel_got_sec_addr, done) = At(w)
          /\ NextWord = done + 4
          /\ OutOfBounds(off) <=> off >= End
          /\ ~OutOfBounds(off) => to_word(Address(off)) = Filled(w)
      BY <2>1, <2>4, GotStep
    <3>2. CASE OutOfBounds(off)
      <4>1. ram' = ram /\ pc' = "dead"
        BY <1>5, <3>0, <3>2 DEF RelocateGot, Die
      <4> QED
        BY <4>1
    <3>3. CASE ~OutOfBounds(off)
      <4>1. /\ ram' = Store(ram, Add(rel_got_sec_addr, done), to_word(Address(off)))
            /\ done' = NextWord /\ pc' = "relocate_got"
        BY <1>5, <2>1, <3>0, <3>3 DEF RelocateGot
      <4>2. ram' = Store(ram, At(w), Filled(w))
        BY <3>1, <3>3, <4>1
      <4>3. GotEnd' = w + 4 /\ PointersDone' = 0 /\ Copied' = n
        BY <1>a, <1>c, <1>d, <3>1, <4>1 DEF GotEnd, PointersDone, Copied, n
      <4>4. Abs!Target(w) < End
        BY <1>c, <3>1, <3>3
      <4> HIDE DEF off, w
      <4>5. InPlace(ram', w + 4, 0, n)
        BY <1>0, <1>c, <1>e, <2>1, <2>3, <3>1, <4>2, FillGot
      <4>6. Grown
        <5>1. w \in Nat /\ Got <= w /\ w < End
          BY <1>c, <1>d, <1>e, <2>1, <2>4 DEF w
        <5> QED
          BY <1>0, <1>c, <1>e, <2>1, <4>2, <5>1, FillWord
      <4>7. Judged(w + 4, 0)
        <5> SUFFICES ASSUME NEW v \in Abs!GotEntries, v < w + 4
                     PROVE  Abs!Target(v) < End
          BY <2>3 DEF Judged
        <5>1. v \in Nat /\ Got <= v /\ (v - Got) % 4 = 0
          BY <1>0, GotFacts
        <5>2. w \in Nat /\ Got <= w /\ (w - Got) % 4 = 0
          BY <1>0, <3>1, GotFacts
        <5>3. v < w \/ v = w
          BY <1>c, <5>1, <5>2
        <5> QED
          BY <2>3, <4>4, <5>3 DEF Judged
      <4> QED
        BY <4>1, <4>3, <4>5, <4>6, <4>7
    <3> QED
      BY <3>2, <3>3
  <2>5. CASE ~(done < got_sec_size)
    <3>1. pc' = "patch_pointers" /\ ram' = ram /\ done' = 0
      BY <1>5, <2>5 DEF RelocateGot, Goto
    <3>2. GotEnd' = Data /\ PointersDone' = 0 /\ Copied' = n
      BY <1>a, <1>c, <3>1 DEF GotEnd, PointersDone, Copied, n
    <3>3. \A v \in Abs!GotEntries : v < w
      <4>1. \A v \in Abs!GotEntries : v \in Nat /\ v + 4 <= Data
        BY <1>0, GotFacts
      <4> QED
        BY <1>c, <1>d, <1>e, <2>1, <2>5, <4>1
    <3> HIDE DEF w
    <3>4. InPlace(ram, Data, 0, n) /\ Judged(Data, 0)
      BY <2>3, <3>3 DEF InPlace, GotInPlace, Judged
    <3> QED
      BY <3>1, <3>2, <3>4
  <2> QED
    BY <2>4, <2>5
<1>6. CASE PatchPointers
  <2> DEFINE w   == FlashWord(EntryAddr(done))
             off == FlashWord(Add(rom_sec_addr, w))
  <2>1. pc = "patch_pointers" /\ LaidOut
    BY <1>6 DEF PatchPointers, LaidOut
  <2>2. GotEnd = Data /\ PointersDone = done /\ Copied = n
    BY <2>1 DEF GotEnd, PointersDone, Copied, n
  <2>3. InPlace(ram, Data, done, n) /\ Judged(Data, done)
    BY <1>b, <2>1, <2>2
  <2>4. CASE MorePointers
    <3>1. /\ done + 1 \in 1 .. RelCount /\ Add(done, 1) = done + 1
          /\ w = file.elf.rel[done + 1] /\ w \in Nat
          /\ PlaceError(w) = None =>
               /\ w \in Data .. (End - 1)
               /\ off = Abs!Target(w) /\ off \in Nat
               /\ Address(w) = At(w)
               /\ InGot(off) <=> off \in Got .. (Data - 1)
               /\ OutOfBounds(off) <=> off >= End
               /\ ~OutOfBounds(off) => to_word(Address(off)) = Filled(w)
      BY <2>1, <2>4, PointerStep
    <3>2. CASE PatchError(w, off) # None
      <4>1. ram' = ram /\ pc' = "dead"
        BY <1>6, <2>4, <3>2 DEF PatchPointers, Die
      <4> QED
        BY <4>1
    <3>3. CASE PatchError(w, off) = None
      <4>1. /\ ram' = Store(ram, Address(w), to_word(Address(off)))
            /\ done' = Add(done, 1) /\ pc' = "patch_pointers"
        BY <1>6, <2>1, <2>4, <3>3 DEF PatchPointers
      <4>2. PlaceError(w) = None /\ TargetError(off) = None
        BY <3>3 DEF PatchError
      <4>3. ~InGot(off) /\ ~OutOfBounds(off)
        BY <4>2 DEF TargetError, None
      <4> HIDE DEF off, w
      <4>4. ram' = Store(ram, At(w), Filled(w))
        BY <3>1, <4>1, <4>2, <4>3
      <4>5. /\ w \in Nat /\ w \in Data .. (End - 1) /\ Got <= w /\ w < End
        BY <1>c, <3>1, <4>2
      <4>6. GotEnd' = Data /\ PointersDone' = done + 1 /\ Copied' = n
        BY <1>a, <3>1, <4>1 DEF GotEnd, PointersDone, Copied, n
      <4>7. InPlace(ram', Data, done + 1, n)
        BY <1>0, <1>c, <1>d, <1>e, <2>1, <2>3, <3>1, <4>4, <4>5, FillPointer
      <4>8. Grown
        BY <1>0, <1>c, <1>e, <2>1, <4>4, <4>5, FillWord
      <4>9. Right(file.elf.rel[done + 1])
        BY <1>c, <3>1, <4>2, <4>3, <4>5 DEF Right
      <4>10. Judged(Data, done + 1)
        <5>1. done + 1 \in 0 .. RelCount
          BY <3>1
        <5>2. \A i \in 1 .. (done + 1) : i \in 1 .. done \/ i = done + 1
          BY <1>d
        <5> QED
          BY <2>3, <4>9, <5>1, <5>2 DEF Judged
      <4> QED
        BY <4>1, <4>6, <4>7, <4>8, <4>10
    <3> QED
      BY <3>2, <3>3
  <2>5. CASE ~MorePointers
    <3>1. pc' = "branch" /\ ram' = ram
      BY <1>6, <2>5 DEF PatchPointers, Goto
    <3>2. done = RelCount
      <4>1. ~(done < RelCount)
        <5>1. BuiltFile
          BY <1>0 DEF BuiltInv
        <5>2. entry_number = RelCount
          BY <5>1, ReadsBuilt DEF RelCount
        <5> QED
          BY <2>5, <5>2 DEF MorePointers
      <4>2. done \in 0 .. RelCount /\ RelCount \in Nat
        BY <1>0, <2>3 DEF Judged, RelCount, ElfTyped
      <4> QED
        BY <4>1, <4>2
    <3>3. GotEnd' = Data /\ PointersDone' = RelCount /\ Copied' = n
      BY <1>a, <3>1 DEF GotEnd, PointersDone, Copied, n
    <3> QED
      BY <2>3, <3>1, <3>2, <3>3
  <2> QED
    BY <2>4, <2>5
<1>7. CASE Branch \/ UNCHANGED vars
  <2>1. /\ ram' = ram
        /\ \/ pc' = pc /\ done' = done
           \/ pc = "branch" /\ pc' = "started"
    <3>1. CASE Branch
      BY <3>1 DEF Branch
    <3>2. CASE UNCHANGED vars
      BY <3>2 DEF vars
    <3> QED
      BY <1>7, <3>1, <3>2
  <2>2. GotEnd' = GotEnd /\ PointersDone' = PointersDone /\ Copied' = Copied
    BY <1>a, <2>1 DEF GotEnd, PointersDone, Copied
  <2>3. pc' \in Loading => pc \in Loading
    BY <2>1
  <2> QED
    BY <1>b, <2>1, <2>2, <2>3
<1> QED
  BY <1>1, <1>2, <1>3, <1>4, <1>5, <1>6, <1>7 DEF Next

(* Every statement of _start() keeps what was promised so far.             *)
LEMMA StepLoad == LoadInv /\ [Next]_vars => LoadInv'
<1> SUFFICES ASSUME LoadInv, [Next]_vars PROVE LoadInv'
  OBVIOUS
<1>1. /\ ZeroInv' /\ RamInv'
      /\ file' = file /\ ctx'.bin_base = ctx.bin_base
      /\ BlockStart' = BlockStart
      /\ Linked(file.elf)'
      /\ RoomBehind'
      /\ (Measured => file.elf.magic = MAGIC_NUMBER_AND_VERSION)'
      /\ (pc # "started" => sl = None /\ bx = None)'
  BY StepAround
<1>2. (\A a \in DOMAIN ram : BlockStart <= a)'
  BY <1>1, StepMemory DEF LoadInv
<1>3. (pc \in Loading => /\ InPlace(ram, GotEnd, PointersDone, Copied)
                         /\ Judged(GotEnd, PointersDone))'
  <2>1. Loading' = Loading
    BY DEF Loading, Loops
  <2> QED
    BY <1>1, <2>1, StepMemory, ProgressKept
<1> QED
  BY <1>1, <1>2, <1>3 DEF LoadInv

(* At first nothing is promised.                                           *)
LEMMA InitLoad ==
  ASSUME AllBuilt, RoomForAll, RoomToSpare, \A f \in Files : Linked(f.elf), Init
  PROVE  LoadInv
<1>1. /\ pc = "check_version" /\ err = None /\ file \in Files /\ ctx \in Contexts
      /\ current_got = None /\ DOMAIN ram = {} /\ sl = None /\ bx = None
  BY DEF Init
<1>2. BuiltInv /\ RamInv
  BY InitBuilt, InitRam
<1>3. Linked(file.elf)
  BY <1>1
<1>4. RoomBehind /\ RoomToPatch
  BY <1>1 DEF RoomToSpare, RoomBehind, RoomToPatch, BlockStart
<1>5. ZeroInv
  BY <1>1, <1>2, <1>3, <1>4 DEF Linked, ZeroInv, Zeroed, None
<1> QED
  BY <1>1, <1>2, <1>3, <1>4, <1>5 DEF LoadInv, Measured, Loading, Loops, None

-----------------------------------------------------------------------------
(* The initial states of the loader are initial states of Load.            *)
LEMMA InitRefines == Init => Abs!Init
BY DEF Init, Abs!Init, None, Abs!NoAddress, Abs!Nothing

(* What the loader knows past the check of the RAM.                        *)
LEMMA PastCheck ==
  ASSUME LoadInv
  PROVE  /\ BuiltInv /\ RamInv /\ TypeOK /\ BuiltFile
         /\ ElfTyped(file.elf) /\ TextBegins(file.elf) /\ Linked(file.elf)
BY DEF LoadInv, ZeroInv, BuiltInv, BuiltFile, Built, Linked

(* When all is done, all is in place, and was found to be right.           *)
LEMMA AllFilled ==
  ASSUME LoadInv, pc = "branch"
  PROVE  InPlace(ram, Data, RelCount, BssO - Data) /\ Judged(Data, RelCount)
<1>1. ElfTyped(file.elf)
  BY PastCheck
<1>2. GotEnd = Data /\ PointersDone = RelCount /\ Copied = BssO - Data
  BY <1>1, Offsets DEF GotEnd, PointersDone, Copied
<1> QED
  BY <1>2 DEF LoadInv, Loading, Loops

(* The last of the relocations that have a byte.                           *)
LEMMA LastRelocation ==
  ASSUME ElfTyped(file.elf), NEW off, Abs!Relocating(off) # {}
  PROVE  LET i == Abs!Last(Abs!Relocating(off))
         IN  /\ i \in 1 .. RelCount
             /\ off \in file.elf.rel[i] .. (file.elf.rel[i] + 3)
             /\ Kept(off, i + 1, RelCount)
<1> DEFINE S == Abs!Relocating(off)
           i == Abs!Last(S)
<1>1. RelCount \in Nat
  BY DEF ElfTyped, RelCount
<1>2. /\ S \subseteq 1 .. RelCount
      /\ \A j \in 1 .. RelCount :
           j \in S <=> off \in file.elf.rel[j] .. (file.elf.rel[j] + 3)
  BY DEF Abs!Relocating, Abs!elf, RelCount
<1> HIDE DEF S
<1>3. \E k \in S : \A j \in S : j <= k
  <2> DEFINE T == {n \in Nat : RelCount - n \in S}
  <2>1. T \subseteq Nat /\ T # {}
    <3>1. PICK j \in S : TRUE
      BY DEF S
    <3>2. RelCount - j \in Nat /\ RelCount - (RelCount - j) = j
      BY <1>1, <1>2
    <3> QED
      BY <3>1, <3>2
  <2>2. PICK n \in T : \A k \in T : n <= k
    BY <2>1, LeastElement
  <2>3. ASSUME NEW j \in S
        PROVE  j <= RelCount - n
    <3>1. j \in 1 .. RelCount
      BY <1>2
    <3>2. RelCount - j \in Nat /\ RelCount - (RelCount - j) = j
      BY <1>1, <3>1
    <3>3. RelCount - j \in T
      BY <3>2
    <3>4. n <= RelCount - j /\ n \in Nat
      BY <2>2, <3>3
    <3> QED
      BY <1>1, <3>1, <3>4
  <2> QED
    BY <2>2, <2>3
<1>4. i \in S /\ \A j \in S : j <= i
  BY <1>3, Zenon DEF Abs!Last
<1> HIDE DEF i
<1>5. i \in 1 .. RelCount /\ off \in file.elf.rel[i] .. (file.elf.rel[i] + 3)
  BY <1>2, <1>4
<1>6. Kept(off, i + 1, RelCount)
  <2> SUFFICES ASSUME NEW l \in (i + 1) .. RelCount
               PROVE  off \notin file.elf.rel[l] .. (file.elf.rel[l] + 3)
    BY DEF Kept
  <2>1. l \in 1 .. RelCount /\ ~(l <= i)
    BY <1>1, <1>5
  <2> QED
    BY <1>2, <1>4, <2>1
<1> QED
  BY <1>5, <1>6 DEF i, S

(* The word of the GOT that an offset is in.                               *)
LEMMA EntryOf ==
  ASSUME ElfTyped(file.elf), Linked(file.elf), NEW off \in Got .. (Data - 1)
  PROVE  LET w == off - ((off - Got) % 4)
         IN  w \in Abs!GotEntries /\ w \in Nat /\ off - w \in 0 .. 3
<1> DEFINE k == off - Got
           r == k % 4
           w == off - r
           z == Data - Got
<1>1. Got \in Nat /\ Data \in Nat /\ Got <= Data /\ Len(file.elf.got) = z
  BY Offsets
<1>2. z \in Nat /\ z % 4 = 0
  BY <1>1 DEF Linked, WholeWords, WORD_BYTESIZE
<1>3. k \in Nat /\ k < z /\ off = Got + k
  BY <1>1
<1> HIDE DEF z, k
<1>4. r \in 0 .. 3 /\ (k - r) % 4 = 0 /\ r <= k
  BY <1>3
<1> HIDE DEF r
<1> DEFINE q == k - r
<1>5. q \in Nat /\ q % 4 = 0 /\ q <= k /\ w = Got + q
  BY <1>1, <1>3, <1>4
<1> HIDE DEF q
<1>6. q + 4 <= z
  BY <1>2, <1>3, <1>5
<1>7. w \in Got .. (Data - 4) /\ (w - Got) % 4 = 0 /\ w \in Nat /\ off - w \in 0 .. 3
  <2>1. Data = Got + z
    BY <1>1 DEF z
  <2>2. w \in Got .. (Data - 4) /\ w - Got = q /\ w \in Nat
    BY <1>1, <1>2, <1>5, <1>6, <2>1
  <2>3. off - w = r
    BY <1>1, <1>3, <1>4
  <2> QED
    BY <1>4, <1>5, <2>2, <2>3
<1>8. w \in Abs!GotEntries
  <2> HIDE DEF w
  <2> QED
    BY <1>7 DEF Abs!GotEntries, Abs!WORD_BYTESIZE, Got, Data
<1> QED
  BY <1>7, <1>8 DEF w, r, k

(* Then every byte of the block is the one that Load promises.             *)
LEMMA ByteHeld ==
  ASSUME LoadInv, pc = "branch", NEW off \in Got .. (End - 1)
  PROVE  Has(ram, off, Abs!ByteAt(off))
<1> DEFINE S == Abs!Relocating(off)
           i == Abs!Last(S)
           g == off - ((off - Got) % 4)
<1>1. /\ BuiltInv /\ ElfTyped(file.elf) /\ Linked(file.elf)
  BY PastCheck
<1>2. /\ Got \in Nat /\ Data \in Nat /\ BssO \in Nat /\ End \in Nat
      /\ Got <= Data /\ Data <= BssO /\ BssO <= End
      /\ Len(file.elf.got) = Data - Got /\ Len(file.elf.rom_ram) = BssO - Data
      /\ file.elf.ram_size = End - BssO
  BY <1>1, Offsets
<1>3. /\ GotInPlace(ram, Data) /\ PointersInPlace(ram, RelCount)
      /\ DataInPlace(ram, RelCount, BssO - Data)
  BY AllFilled DEF InPlace
<1>4. Abs!ByteAt(off)
        = IF off < Data THEN Filled(g)[off - g + 1]
          ELSE IF S # {}
            THEN Filled(file.elf.rel[i])[off - file.elf.rel[i] + 1]
          ELSE IF off < BssO THEN file.elf.rom_ram[off - Data + 1] ELSE 0
  BY Zenon DEF Abs!ByteAt, Abs!Relocated, Filled, BssO, Data, Got, Abs!elf,
               Abs!to_word, to_word, Abs!WORD_BYTESIZE
<1>5. CASE off < Data
  <2>1. g \in Abs!GotEntries /\ g \in Nat /\ off - g \in 0 .. 3
    <3>1. off \in Got .. (Data - 1)
      BY <1>2, <1>5
    <3> QED
      BY <1>1, <3>1, EntryOf
  <2>2. Abs!ByteAt(off) = Filled(g)[(off - g) + 1]
    BY <1>4, <1>5
  <2> HIDE DEF g
  <2>3. g < Data /\ g + (off - g) = off
    BY <1>2, <1>5, <2>1
  <2>4. Has(ram, g + (off - g), Filled(g)[(off - g) + 1])
    BY <1>3, <2>1, <2>3 DEF GotInPlace
  <2> QED
    BY <2>2, <2>3, <2>4
<1>6. CASE ~(off < Data) /\ S # {}
  <2> DEFINE w == file.elf.rel[i]
  <2>1. i \in 1 .. RelCount /\ off \in w .. (w + 3) /\ Kept(off, i + 1, RelCount)
    BY <1>1, <1>6, LastRelocation
  <2>2. Abs!ByteAt(off) = Filled(w)[(off - w) + 1]
    BY <1>4, <1>6
  <2> HIDE DEF i, S
  <2>3. w \in Nat
    <3>1. file.elf.rel \in Seq(Word)
      BY <1>1 DEF ElfTyped
    <3>2. w \in Word
      BY <2>1, <3>1 DEF RelCount
    <3> QED
      BY <3>2, WordModFacts DEF Word
  <2>4. off - w \in 0 .. 3 /\ w + (off - w) = off
    <3> HIDE DEF w
    <3> QED
      BY <1>2, <2>1, <2>3
  <2>5. Has(ram, w + (off - w), Filled(w)[(off - w) + 1])
    BY <1>3, <2>1, <2>4 DEF PointersInPlace
  <2> QED
    BY <2>2, <2>4, <2>5
<1>7. CASE ~(off < Data) /\ S = {}
  <2>1. Abs!ByteAt(off) = IF off < BssO THEN file.elf.rom_ram[off - Data + 1] ELSE 0
    BY <1>4, <1>7
  <2>2. Unpatched(off)
    BY <1>7 DEF Unpatched, Abs!Relocating, Abs!elf
  <2> HIDE DEF S, i, g
  <2>3. CASE off < BssO
    <3>1. off - Data \in 0 .. (BssO - Data - 1) /\ Data + (off - Data) = off
      BY <1>2, <1>7, <2>3
    <3>2. Kept(Data + (off - Data), 1, RelCount)
      BY <2>2, <3>1 DEF Unpatched, Kept, RelCount
    <3>3. Has(ram, Data + (off - Data), file.elf.rom_ram[(off - Data) + 1])
      BY <1>3, <3>1, <3>2 DEF DataInPlace
    <3> QED
      BY <2>1, <2>3, <3>1, <3>3
  <2>4. CASE ~(off < BssO)
    <3> DEFINE j == off - BssO
    <3>1. j \in 0 .. (file.elf.ram_size - 1)
      BY <1>2, <2>4
    <3>2. Bss(j) = At(off) /\ BssOff(j) = off
      <4>1. BlockStart \in Nat
        BY <1>1, Found DEF LaidOut, Loading, Loops
      <4>2. At(off) = BlockStart + (off - Got)
        BY DEF At, Got
      <4>3. /\ Bss(j) = BlockStart + ((Data - Got) + (BssO - Data)) + j
            /\ BssOff(j) = Len(file.elf.rom) + ((Data - Got) + (BssO - Data)) + j
            /\ Len(file.elf.rom) = Got
        BY <1>1, <1>2, Offsets DEF Bss, BssOff
      <4> QED
        BY <1>2, <4>1, <4>2, <4>3
    <3>3. ZeroIn(ram, Bss(j))
      <4> HIDE DEF j
      <4> QED
        BY <2>2, <3>1, <3>2 DEF LoadInv, ZeroInv, Zeroed
    <3> QED
      BY <2>1, <2>4, <3>2, <3>3 DEF Has, ZeroIn
  <2> QED
    BY <2>3, <2>4
<1> QED
  BY <1>5, <1>6, <1>7

(* What is below the RAM that is handed back is the block.                 *)
LEMMA ImageHeld ==
  ASSUME LoadInv, pc = "branch"
  PROVE  [a \in {x \in DOMAIN ram : x < ctx.ram_start} |-> ram[a]] = Abs!Image
<1> DEFINE held == {x \in DOMAIN ram : x < ctx.ram_start}
           last == BlockStart + (End - Got) - 1
<1>1. BuiltInv /\ RamInv /\ ElfTyped(file.elf) /\ TypeOK
  BY PastCheck
<1>2. /\ Got \in Nat /\ End \in Nat /\ Got <= End /\ BlockStart \in Nat
      /\ rel_ram_sec_end = BlockStart + (End - Got)
  BY <1>1, Found DEF LaidOut, Loading, Loops
<1>3. ctx.ram_start = BlockStart + (End - Got)
  BY <1>1, <1>2 DEF RamInv, HandedBack, Loading, Loops
<1>4. ASSUME NEW a \in BlockStart .. last
      PROVE  a \in DOMAIN ram /\ ram[a] = Abs!ByteAt(a - BlockStart + Got)
  <2> DEFINE off == a - BlockStart + Got
  <2>1. off \in Got .. (End - 1) /\ BlockStart + (off - Got) = a
    BY <1>2
  <2> HIDE DEF off
  <2>2. Has(ram, off, Abs!ByteAt(off))
    BY <2>1, ByteHeld
  <2>3. At(off) = a
    BY <2>1 DEF At, Got
  <2> QED
    BY <2>2, <2>3 DEF Has, off
<1>5. held = BlockStart .. last
  <2>1. ASSUME NEW x \in held
        PROVE  x \in BlockStart .. last
    <3>1. x \in Int /\ BlockStart <= x /\ x < ctx.ram_start
      BY <1>1, WordModFacts DEF LoadInv, TypeOK, Word
    <3> QED
      BY <1>2, <1>3, <3>1
  <2>2. ASSUME NEW x \in BlockStart .. last
        PROVE  x \in held
    BY <1>2, <1>3, <1>4, <2>2
  <2> QED
    BY <2>1, <2>2
<1>6. Abs!Image = [a \in BlockStart .. last |-> Abs!ByteAt(a - BlockStart + Got)]
  BY Zenon DEF Abs!Image, Abs!Block, BlockStart, Got, End
<1> QED
  BY <1>4, <1>5, <1>6

(* What a defect is, in the names of this module.                          *)
LEMMA DefectMeans ==
  ASSUME NEW n, NEW id
  PROVE  Abs!Defect(n, id) <=>
           \/ n = 0 /\ id = 0 /\ file.elf.magic # MAGIC_NUMBER_AND_VERSION
           \/ n = 1 /\ id = 1 /\ BlockStart + (End - Got) > ctx.ram_end
           \/ n = 2 /\ id = 2 /\ \E w \in Abs!GotEntries : Abs!Target(w) >= End
           \/ \E i \in 1 .. RelCount :
                n = 2 + i /\ (\/ Abs!Misplaced(file.elf.rel[i], id)
                              \/ Abs!Misdirected(file.elf.rel[i], id))
BY Zenon DEF Abs!Defect, Abs!elf, BlockStart, Got, End, RelCount

(* A pointer that the loader accepted has no defect.                       *)
LEMMA RightHasNone ==
  ASSUME ElfTyped(file.elf), NEW w, Right(w), Abs!Target(w) \in Nat, NEW id
  PROVE  ~Abs!Misplaced(w, id) /\ ~Abs!Misdirected(w, id)
<1>1. Got \in Nat /\ Data \in Nat /\ End \in Nat /\ Got <= Data
  BY Offsets
<1>2. /\ w \in Data .. (End - 1)
      /\ Abs!Target(w) < End /\ Abs!Target(w) \notin Got .. (Data - 1)
  BY DEF Right
<1>3. /\ Abs!Misplaced(w, id) <=> \/ id = 2 /\ w >= End
                                  \/ id = 3 /\ w < Got
                                  \/ id = 4 /\ w \in Got .. (Data - 1)
      /\ Abs!Misdirected(w, id) =>
           \/ id = 2 /\ Abs!Target(w) >= End
           \/ id = 4 /\ Abs!Target(w) \in Got .. (Data - 1)
  BY Zenon DEF Abs!Misplaced, Abs!Misdirected, Abs!InGot, Got, Data, End
<1>4. ~(w >= End) /\ ~(w < Got) /\ w \notin Got .. (Data - 1)
  BY <1>1, <1>2
<1>5. ~(Abs!Target(w) >= End)
  BY <1>1, <1>2
<1> QED
  BY <1>2, <1>3, <1>4, <1>5

(* The version and the RAM are right where the loader is past their check. *)
LEMMA CheckedSound ==
  ASSUME LoadInv, pc \in Loading, NEW id
  PROVE  ~Abs!Defect(0, id) /\ ~Abs!Defect(1, id)
<1>1. BuiltInv /\ RamInv /\ ElfTyped(file.elf) /\ TypeOK
  BY PastCheck
<1>2. /\ Got \in Nat /\ Data \in Nat /\ BssO \in Nat /\ End \in Nat
      /\ BlockStart \in Nat /\ rel_ram_sec_end = BlockStart + (End - Got)
  BY <1>1, Found DEF LaidOut
<1>3. file.elf.magic = MAGIC_NUMBER_AND_VERSION
  BY DEF LoadInv, Measured
<1>4. ~(BlockStart + (End - Got) > ctx.ram_end)
  <2>1. rel_ram_sec_end <= ctx.ram_end /\ ctx.ram_end \in Nat
    BY <1>1, WordModFacts DEF RamInv, EnoughRam, TypeOK, Word
  <2> QED
    BY <1>2, <2>1
<1>5. \A i \in 1 .. RelCount : 2 + i # 0 /\ 2 + i # 1
  BY DEF RelCount
<1>6. ~Abs!Defect(0, id)
  BY <1>3, <1>5, DefectMeans
<1> QED
  BY <1>4, <1>5, <1>6, DefectMeans

(* Nor have the entries of the GOT that were relocated, all of them, and   *)
(* the pointers that were, a defect.                                       *)
LEMMA JudgedSound ==
  ASSUME LoadInv, pc \in Loading, NEW k \in Nat, Judged(Data, k)
  PROVE  Abs!SoundUpTo(2 + k)
<1> SUFFICES ASSUME NEW n \in 0 .. (2 + k), NEW id \in 0 .. 4
             PROVE  ~Abs!Defect(n, id)
  BY Zenon DEF Abs!SoundUpTo
<1>1. BuiltInv /\ ElfTyped(file.elf)
  BY PastCheck
<1>2. Got \in Nat /\ Data \in Nat /\ End \in Nat /\ Got <= Data /\ Data <= End
  <2>1. /\ Got \in Nat /\ Data \in Nat /\ BssO \in Nat /\ End \in Nat
        /\ Got <= Data /\ Data <= BssO /\ BssO <= End
    BY <1>1, Offsets
  <2> QED
    BY <2>1
<1>3. k \in 0 .. RelCount /\ \A i \in 1 .. k : Right(file.elf.rel[i])
  BY DEF Judged
<1>4. CASE n \in {0, 1}
  BY <1>4, CheckedSound
<1>5. CASE n = 2
  <2>1. \A w \in Abs!GotEntries : ~(Abs!Target(w) >= End)
    <3> SUFFICES ASSUME NEW w \in Abs!GotEntries PROVE ~(Abs!Target(w) >= End)
      OBVIOUS
    <3>1. w \in Nat /\ Got <= w /\ w + 4 <= Data
      BY <1>1, GotFacts
    <3>2. Abs!Target(w) \in Nat
      BY <1>1, <3>1, TargetRead
    <3>3. Abs!Target(w) < End
      BY <1>2, <3>1 DEF Judged
    <3> QED
      BY <1>2, <3>2, <3>3
  <2>2. \A i \in 1 .. RelCount : 2 + i # 2
    BY DEF RelCount
  <2> QED
    BY <1>5, <2>1, <2>2, DefectMeans
<1>6. CASE n > 2
  <2> SUFFICES ASSUME NEW i \in 1 .. RelCount, n = 2 + i
               PROVE  /\ ~Abs!Misplaced(file.elf.rel[i], id)
                      /\ ~Abs!Misdirected(file.elf.rel[i], id)
    <3>1. n # 0 /\ n # 1 /\ n # 2
      BY <1>6
    <3> QED
      BY <3>1, DefectMeans
  <2>1. i \in 1 .. k
    OBVIOUS
  <2>2. Right(file.elf.rel[i])
    BY <1>3, <2>1
  <2> DEFINE w == file.elf.rel[i]
  <2>3. w \in Nat /\ Got <= w
    <3>1. w \in Data .. (End - 1)
      BY <2>2 DEF Right
    <3> HIDE DEF w
    <3> QED
      BY <1>2, <3>1
  <2> HIDE DEF w
  <2>4. Abs!Target(w) \in Nat
    BY <1>1, <2>3, TargetRead
  <2> QED
    BY <1>1, <2>2, <2>4, RightHasNone DEF w
<1> QED
  BY <1>4, <1>5, <1>6

(* What the loader dies of is wrong with the file, and nothing that it     *)
(* looks at before is.                                                     *)
LEMMA Defective ==
  ASSUME LoadInv, [Next]_vars, pc # "dead", pc' = "dead"
  PROVE  /\ \E n \in 0 .. (2 + RelCount), id \in 0 .. 4 :
              Abs!Defect(n, id) /\ Abs!SoundUpTo(n - 1) /\ err' = id
         /\ file' = file /\ ctx' = ctx /\ current_got' = current_got
<1>1. /\ BuiltInv /\ RamInv /\ TypeOK /\ BuiltFile
      /\ ElfTyped(file.elf) /\ Linked(file.elf)
  BY PastCheck
<1>2. /\ Got \in Nat /\ Data \in Nat /\ BssO \in Nat /\ End \in Nat
      /\ Got <= Data /\ Data <= BssO /\ BssO <= End
  BY <1>1, Offsets
<1>r. RelCount \in Nat
  BY DEF RelCount, ElfTyped
<1>s. \A n \in Int : Abs!SoundUpTo(n) <=>
                       \A k \in 0 .. n : \A id \in 0 .. 4 : ~Abs!Defect(k, id)
  BY Zenon DEF Abs!SoundUpTo
<1>3. CASE CheckVersion
  <2>1. /\ Footer(FOOTER_MAGIC_NUMBER_AND_VERSION_OFFSET) # MAGIC_NUMBER_AND_VERSION
        /\ err' = 0 /\ file' = file /\ ctx' = ctx /\ current_got' = current_got
    BY <1>3 DEF CheckVersion, Die, Goto
  <2>2. file.elf.magic # MAGIC_NUMBER_AND_VERSION
    BY <1>1, <2>1, ReadsBuilt
  <2>3. Abs!Defect(0, 0)
    BY <2>2, DefectMeans
  <2>4. Abs!SoundUpTo(0 - 1) /\ 0 \in 0 .. (2 + RelCount)
    BY <1>r, <1>s
  <2> QED
    BY <2>1, <2>3, <2>4
<1>4. CASE CheckRam
  <2>1. /\ ~EnoughRam /\ err' = 1 /\ pc = "check_ram"
        /\ file' = file /\ ctx' = ctx /\ current_got' = current_got
    BY <1>4 DEF CheckRam, Die, Goto
  <2>2. /\ BlockStart \in Nat
        /\ rel_rom_ram_sec_addr = BlockStart + (Data - Got)
        /\ rel_ram_sec_addr = BlockStart + (BssO - Got)
        /\ rel_ram_sec_end = BlockStart + (End - Got)
    BY <1>1, <2>1, Found DEF LaidOut
  <2>3. ctx.ram_end \in Nat
    BY <1>1, WordModFacts DEF TypeOK, Word
  <2>4. BlockStart + (End - Got) > ctx.ram_end
    BY <1>2, <2>1, <2>2, <2>3 DEF EnoughRam
  <2>5. Abs!Defect(1, 1)
    BY <2>4, DefectMeans
  <2>6. \A id : ~Abs!Defect(0, id)
    <3>1. file.elf.magic = MAGIC_NUMBER_AND_VERSION
      BY <2>1 DEF LoadInv, Measured
    <3>2. \A i \in 1 .. RelCount : 2 + i # 0
      BY <1>r
    <3> QED
      BY <3>1, <3>2, DefectMeans
  <2>7. Abs!SoundUpTo(1 - 1) /\ 1 \in 0 .. (2 + RelCount)
    BY <1>r, <1>s, <2>6
  <2> QED
    BY <2>1, <2>5, <2>7
<1>5. CASE RelocateGot
  <2> DEFINE w   == Got + done
             off == FlashWord(Add(got_sec_addr, done))
  <2>1. /\ pc = "relocate_got" /\ done < got_sec_size
        /\ OutOfBounds(off) /\ err' = 2
        /\ file' = file /\ ctx' = ctx /\ current_got' = current_got
    BY <1>5 DEF RelocateGot, Die, Goto
  <2>2. /\ w \in Abs!GotEntries /\ off = Abs!Target(w)
        /\ OutOfBounds(off) <=> off >= End
    BY <2>1, GotStep
  <2> HIDE DEF w, off
  <2>3. Abs!Target(w) >= End
    BY <2>1, <2>2
  <2>4. Abs!Defect(2, 2)
    BY <2>2, <2>3, DefectMeans
  <2>5. \A id : ~Abs!Defect(0, id) /\ ~Abs!Defect(1, id)
    BY <2>1, CheckedSound DEF Loading, Loops
  <2>6. Abs!SoundUpTo(2 - 1) /\ 2 \in 0 .. (2 + RelCount)
    BY <1>r, <1>s, <2>5
  <2> QED
    BY <2>1, <2>4, <2>6
<1>6. CASE PatchPointers
  <2> DEFINE w   == FlashWord(EntryAddr(done))
             off == FlashWord(Add(rom_sec_addr, w))
  <2>1. /\ pc = "patch_pointers" /\ MorePointers
        /\ PatchError(w, off) # None /\ err' = PatchError(w, off)
        /\ file' = file /\ ctx' = ctx /\ current_got' = current_got
    BY <1>6 DEF PatchPointers, Die, Goto
  <2>2. /\ done \in Nat /\ done + 1 \in 1 .. RelCount
        /\ w = file.elf.rel[done + 1] /\ w \in Nat
        /\ InRom(w) <=> w < Got
        /\ InGot(w) <=> w \in Got .. (Data - 1)
        /\ OutOfBounds(w) <=> w >= End
        /\ PlaceError(w) = None =>
             /\ w \in Data .. (End - 1)
             /\ off = Abs!Target(w)
             /\ InGot(off) <=> off \in Got .. (Data - 1)
             /\ OutOfBounds(off) <=> off >= End
    BY <2>1, PointerStep
  <2> HIDE DEF w, off
  <2>3. err' \in 0 .. 4 /\ (Abs!Misplaced(w, err') \/ Abs!Misdirected(w, err'))
    <3>1. /\ \A id : Abs!Misplaced(w, id) <=> \/ id = 2 /\ w >= End
                                              \/ id = 3 /\ w < Got
                                              \/ id = 4 /\ w \in Got .. (Data - 1)
          /\ \A id : Abs!Misdirected(w, id) <=>
               /\ w \in Data .. (End - 1)
               /\ \/ id = 2 /\ Abs!Target(w) >= End
                  \/ id = 4 /\ Abs!Target(w) \in Got .. (Data - 1)
      BY Zenon DEF Abs!Misplaced, Abs!Misdirected, Abs!InGot, Got, Data, End
    <3>2. CASE PlaceError(w) # None
      <4>1. err' = PlaceError(w)
        BY <2>1, <3>2 DEF PatchError
      <4>2. \/ err' = 3 /\ InRom(w)
            \/ err' = 4 /\ InGot(w)
            \/ err' = 2 /\ OutOfBounds(w)
        BY <3>2, <4>1 DEF PlaceError
      <4> QED
        BY <2>2, <3>1, <4>2
    <3>3. CASE PlaceError(w) = None
      <4>1. err' = TargetError(off) /\ TargetError(off) # None
        BY <2>1, <3>3 DEF PatchError
      <4>2. \/ err' = 4 /\ InGot(off)
            \/ err' = 2 /\ OutOfBounds(off)
        BY <4>1 DEF TargetError
      <4> QED
        BY <2>2, <3>1, <3>3, <4>2
    <3> QED
      BY <3>2, <3>3
  <2>4. Abs!Defect(2 + (done + 1), err')
    BY <2>2, <2>3, DefectMeans
  <2>5. Judged(Data, done) /\ pc \in Loading
    BY <2>1 DEF LoadInv, Loading, Loops, GotEnd, PointersDone
  <2>6. Abs!SoundUpTo(2 + done)
    BY <2>2, <2>5, JudgedSound
  <2> DEFINE n == 2 + (done + 1)
  <2>7. n \in 0 .. (2 + RelCount) /\ n - 1 = 2 + done
    BY <1>r, <2>2
  <2>8. Abs!Defect(n, err') /\ Abs!SoundUpTo(n - 1)
    BY <2>4, <2>6, <2>7
  <2> HIDE DEF n
  <2> QED
    BY <2>1, <2>3, <2>7, <2>8
<1>7. ~(SkipPadding \/ LayOut \/ CopyRomRam \/ ZeroRam \/ Branch \/ UNCHANGED vars)
  BY DEF SkipPadding, LayOut, CopyRomRam, ZeroRam, Branch, vars, Goto
<1> QED
  BY <1>3, <1>4, <1>5, <1>6, <1>7 DEF Next

(* Where the program starts, in Thumb state, and what is left to others.   *)
LEMMA HandedOver ==
  ASSUME LoadInv, pc = "branch"
  PROVE  /\ \E a \in {Abs!RunAddr(file.elf.start),
                        Abs!RunAddr(file.elf.start) + 1} :
              a % 2 = 1 /\ entry_point_addr = a
         /\ rel_got_sec_addr = BlockStart
         /\ ctx.ram_start = BlockStart + (End - Got)
         /\ ctx.nvm_start = round(ctx.bin_base + Len(file.bytes),
                                  PADDING_MPU_ALIGNMENT)
<1> DEFINE s == file.elf.start
           e == ctx.bin_base + Len(file.bytes)
<1>1. /\ BuiltInv /\ RamInv /\ ElfTyped(file.elf) /\ TypeOK /\ BuiltFile
      /\ TextBegins(file.elf) /\ Linked(file.elf)
  BY PastCheck
<1>2. /\ Got \in Nat /\ Data \in Nat /\ BssO \in Nat /\ Got <= Data /\ Data <= BssO
      /\ Text \in Nat
      /\ rel_got_sec_addr = BlockStart /\ rel_ram_sec_end = BlockStart + (End - Got)
  BY <1>1, Found DEF LaidOut, Loading, Loops
<1>3. rom_sec_addr = Text /\ Text + BssO < WordMod
  BY <1>1, FoundInFlash DEF Loading, Loops
<1>4. ctx.ram_start = rel_ram_sec_end
      /\ ctx.nvm_start = ROUND(end_of_binary, PADDING_MPU_ALIGNMENT)
  BY <1>1 DEF RamInv, HandedBack, Loading, Loops
<1>5. s \in Nat /\ s < Got
  <2>1. s \in Nat
    BY <1>1, WordModFacts DEF ElfTyped, Word
  <2>2. s < Len(file.elf.rom) /\ Len(file.elf.rom) = Got
    BY <1>1, Offsets DEF Linked
  <2> QED
    BY <2>1, <2>2
<1>6. Abs!RunAddr(s) = Text + s
  BY <1>5, RunsAt DEF Text
<1>7. entry_point_addr = THUMB_ADDRESS(Text + s)
  <2>1. entry_point_offset = s
    BY <1>1, ReadsBuilt
  <2> HIDE DEF s
  <2>2. Add(Text, s) = Text + s
    BY <1>2, <1>3, <1>5, WordModFacts DEF Add
  <2> QED
    BY <1>3, <2>1, <2>2 DEF entry_point_addr
<1>8. \E a \in {Text + s, Text + s + 1} : a % 2 = 1 /\ entry_point_addr = a
  <2> DEFINE x == Text + s
  <2>1. x \in Nat
    BY <1>2, <1>5
  <2> HIDE DEF x
  <2>2. THUMB_ADDRESS(x) \in {x, x + 1} /\ THUMB_ADDRESS(x) % 2 = 1
    BY <2>1 DEF THUMB_ADDRESS
  <2> QED
    BY <1>7, <2>2 DEF x
<1>9. ROUND(end_of_binary, PADDING_MPU_ALIGNMENT) = round(e, PADDING_MPU_ALIGNMENT)
  <2>1. end_of_binary = e
    BY <1>1, ReadsBuilt
  <2>2. e \in Nat /\ e + 32 <= WordMod
    <3> DEFINE b == Len(file.bytes)
               z == file.elf.ram_size
               base == ctx.bin_base
    <3>1. b \in Nat /\ base \in Nat /\ z \in Nat
      BY <1>1, FilePlaced, ElfNat
    <3>2. base + b + z + 32 <= WordMod /\ e = base + b
      BY DEF LoadInv, RoomBehind, PADDING_MPU_ALIGNMENT
    <3> HIDE DEF b, z, base, e
    <3> QED
      BY <3>1, <3>2, WordModFacts
  <2> HIDE DEF e
  <2> DEFINE r == (e + 31) - ((e + 31) % 32)
  <2>3. r \in e .. (e + 31)
    BY <2>2
  <2>4. round(e, 32) = r
    BY <2>2 DEF round
  <2> HIDE DEF r
  <2>5. ROUND(e, 32) = r
    BY <2>2, <2>3, <2>4, WordModFacts DEF ROUND, Add
  <2> QED
    BY <2>1, <2>4, <2>5 DEF PADDING_MPU_ALIGNMENT
<1> QED
  BY <1>2, <1>4, <1>6, <1>8, <1>9

(* A step of the loader is a step of Load, or changes nothing there.       *)
LEMMA StepRefines == LoadInv /\ [Next]_vars => [Abs!Next]_(Abs!vars)
<1> SUFFICES ASSUME LoadInv, [Next]_vars
             PROVE  Abs!Next \/ UNCHANGED Abs!vars
  OBVIOUS
<1>1. BuiltInv /\ TypeOK
  BY PastCheck
<1>2. file' = file /\ ctx'.bin_base = ctx.bin_base /\ BlockStart' = BlockStart
  BY <1>1, PlaceStays
<1>3. CASE Branch
  <2>1. /\ pc = "branch" /\ pc' = "started" /\ sl' = rel_got_sec_addr
        /\ bx' = entry_point_addr /\ file' = file /\ ctx' = ctx
        /\ current_got' = current_got /\ ram' = ram /\ err' = err
    BY <1>3 DEF Branch
  <2>2. /\ [a \in {x \in DOMAIN ram : x < ctx.ram_start} |-> ram[a]] = Abs!Image
        /\ Abs!SoundUpTo(2 + Len(file.elf.rel))
    <3>1. Judged(Data, RelCount) /\ RelCount \in Nat /\ pc \in Loading
      BY <2>1, AllFilled DEF Loading, Loops, Judged, RelCount
    <3>2. Abs!SoundUpTo(2 + RelCount)
      BY <3>1, JudgedSound
    <3> QED
      BY <2>1, <3>2, ImageHeld DEF RelCount
  <2>3. /\ \E a \in {Abs!RunAddr(file.elf.start),
                       Abs!RunAddr(file.elf.start) + 1} :
              a % 2 = 1 /\ bx' = a
        /\ sl' = BlockStart
        /\ << ctx.ram_start, ctx.nvm_start >>
             = << BlockStart + (End - Got),
                  round(ctx.bin_base + Len(file.bytes), PADDING_MPU_ALIGNMENT) >>
    BY <2>1, HandedOver
  <2>4. Abs!Run
    BY <2>1, <2>2, <2>3
       DEF Abs!Run, Abs!elf, BlockStart, Got, End, Abs!round, round,
           Abs!PADDING_MPU_ALIGNMENT, PADDING_MPU_ALIGNMENT
  <2> QED
    BY <2>4 DEF Abs!Next
<1>4. CASE pc # "dead" /\ pc' = "dead"
  <2>1. /\ \E n \in 0 .. (2 + RelCount), id \in 0 .. 4 :
             Abs!Defect(n, id) /\ Abs!SoundUpTo(n - 1) /\ err' = id
        /\ ctx' = ctx /\ current_got' = current_got
    BY <1>4, Defective
  <2>2. pc # "started" /\ sl' = sl /\ bx' = bx
    BY <1>4 DEF Next, vars, CheckVersion, SkipPadding, LayOut, CheckRam,
                CopyRomRam, ZeroRam, RelocateGot, PatchPointers, Branch
  <2>3. Abs!Refuse
    BY <1>2, <1>4, <2>1, <2>2 DEF Abs!Refuse, Abs!elf, RelCount
  <2> QED
    BY <2>3 DEF Abs!Next
<1>5. CASE ~Branch /\ ~(pc # "dead" /\ pc' = "dead")
  <2>1. /\ sl' = sl /\ bx' = bx /\ err' = err
        /\ ctx'.ram_end = ctx.ram_end
        /\ \/ pc \notin {"started", "dead"} /\ pc' \notin {"started", "dead"}
           \/ UNCHANGED vars
    <3>1. CASE CheckVersion \/ SkipPadding \/ LayOut \/ CopyRomRam
      BY <1>5, <3>1 DEF CheckVersion, SkipPadding, LayOut, CopyRomRam, Goto, Die
    <3>2. CASE ZeroRam \/ RelocateGot \/ PatchPointers
      BY <1>5, <3>2 DEF ZeroRam, RelocateGot, PatchPointers, Goto, Die
    <3>3. CASE CheckRam
      <4>1. ctx' = FreedCtx /\ pc' = "copy_rom_ram" /\ err' = err
            /\ pc = "check_ram" /\ sl' = sl /\ bx' = bx
        BY <1>5, <3>3 DEF CheckRam, Goto, Die
      <4>2. FreedCtx.ram_end = ctx.ram_end
        BY <1>1 DEF FreedCtx, TypeOK
      <4> QED
        BY <4>1, <4>2
    <3>4. CASE UNCHANGED vars
      BY <3>4 DEF vars
    <3> QED
      BY <1>5, <3>1, <3>2, <3>3, <3>4 DEF Next
  <2>2. CASE UNCHANGED vars
    BY <2>2 DEF vars, Abs!vars
  <2>3. CASE pc \notin {"started", "dead"} /\ pc' \notin {"started", "dead"}
    BY <1>2, <2>1, <2>3 DEF Abs!vars, BlockStart
  <2> QED
    BY <2>1, <2>2, <2>3
<1> QED
  BY <1>3, <1>4, <1>5

(* The loader implements Load, for every file that build_fae.py made of a  *)
(* linked program and every context with room to spare.  The program it    *)
(* starts has its whole block in place: every GOT entry and every pointer  *)
(* at its run-time address, where pointers overlap the last of the table,  *)
(* and what no pointer overwrites of the data.  A file is refused for the  *)
(* first defect it has.  Of the relocation table nothing is assumed.       *)
THEOREM LoadImplemented ==
  ASSUME AllBuilt, RoomForAll, RoomToSpare, \A f \in Files : Linked(f.elf)
  PROVE  Spec => ImplementsLoad
<1>1. Init => LoadInv
  BY InitLoad
<1>2. LoadInv /\ [Next]_vars => LoadInv'
  BY StepLoad
<1>3. Spec => Abs!Init /\ [][Abs!Next]_(Abs!vars)
  BY <1>1, <1>2, InitRefines, StepRefines, PTL DEF Spec
<1> QED
  BY <1>3 DEF ImplementsLoad, Abs!Spec
=============================================================================
