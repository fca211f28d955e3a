-------------------------------- MODULE Crt0 ---------------------------------
(***************************************************************************)
(* The loader embedded in every FAE file: _start() of crt0/crt0.c.         *)
(*                                                                         *)
(* xipfs branches to _start() with a context that names the flash address  *)
(* of the file and the free RAM.  The loader reads the metadata and the    *)
(* footer of the file it belongs to, copies .rom.ram to RAM, zeroes .ram,  *)
(* relocates the GOT and the global pointers, and branches to start().     *)
(* It runs alone: its steps are those of one sequential program, and its   *)
(* nondeterminism is the file it finds and the context it is given.        *)
(***************************************************************************)
EXTENDS FaeFormat

CONSTANTS
  Files,    (* The files the loader may find itself in: records of         *)
            (*   bytes       the contents,                                 *)
            (*   metadataOff the link-time value of __metadataOff,         *)
            (*   elf, align  what the file was built from, and with,       *)
            (*   partition   where build_fae.py put the partition,         *)
            (*   gdbinit     the places of sections that it tells gdb.     *)
            (* The loader reads the first two, the properties the others.  *)
  Contexts  (* The crt0_ctx_t records xipfs may pass.                      *)

ASSUME FilesAssumption ==
  \A f \in Files : f.bytes \in Seq(Byte) /\ f.metadataOff \in Word

ASSUME ContextsAssumption ==
  Contexts \subseteq [bin_base : Word, ram_start : Word, ram_end : Word,
                      nvm_start : Word]

VARIABLES
  file,             (* the file at ctx.bin_base                            *)
  ctx,              (* the context, in memory shared with xipfs            *)
  current_got,      (* current_got of the xipfs data at ctx->argv          *)
  pc,               (* the statement to execute next                       *)
  size,             (* sizes of the sections, from the footer              *)
  rom_sec_addr,     (* start of .rom in flash                              *)
  rel_got_sec_addr, (* start of the relocated .got in RAM                  *)
  done,             (* progress of the loop at pc: bytes copied, zeroed or *)
                    (* relocated (i << 2), or pointers patched (i)         *)
  ram,              (* the bytes stored so far, by address                 *)
  err,              (* argument of die()                                   *)
  sl,               (* register R10                                        *)
  bx                (* the address branched to                             *)

vars == << file, ctx, current_got, pc, size, rom_sec_addr, rel_got_sec_addr,
           done, ram, err, sl, bx >>

None == -1  (* a pointer, register or error that is not set yet            *)

Loops == {"copy_rom_ram", "zero_ram", "relocate_got", "patch_pointers"}

-----------------------------------------------------------------------------
(***************************************************************************)
(* Flash.  What surrounds the file is erased.                              *)
(***************************************************************************)
FlashByte(a) ==
  IF a - ctx.bin_base + 1 \in 1 .. Len(file.bytes)
    THEN file.bytes[a - ctx.bin_base + 1]
    ELSE PADDING_VALUE

FlashWord(a) ==
  from_bytes(FlashByte(a), FlashByte(a + 1), FlashByte(a + 2), FlashByte(a + 3))

(***************************************************************************)
(* RAM.  m is a function from the addresses stored to so far to bytes; s   *)
(* is a sequence of bytes stored from address a on.                        *)
(***************************************************************************)
Span(a, n) == {Add(a, j) : j \in 0 .. (n - 1)}

Distance(a, b) == IF b >= a THEN b - a ELSE b + WordMod - a

Store(m, a, s) ==
  [x \in DOMAIN m \cup Span(a, Len(s)) |->
     IF x \in Span(a, Len(s)) THEN s[Distance(a, x) + 1] ELSE m[x]]

-----------------------------------------------------------------------------
(***************************************************************************)
(* Metadata and footer, as _start() computes and reads them.               *)
(***************************************************************************)
metadata == Add(ctx.bin_base, file.metadataOff)

binary_size == FlashWord(metadata)

end_of_binary == Add(ctx.bin_base, binary_size)

Footer(offset) == FlashWord(end_of_binary + offset)

FooterSizes ==
  [rom     |-> Footer(FOOTER_ROM_SIZE_OFFSET),
   got     |-> Footer(FOOTER_GOT_SIZE_OFFSET),
   rom_ram |-> Footer(FOOTER_ROM_RAM_SIZE_OFFSET),
   ram     |-> Footer(FOOTER_RAM_SIZE_OFFSET)]

entry_point_offset == Footer(FOOTER_ENTRYPOINT_OFFSET)

entry_number == FlashWord(Add(metadata, WORD_BYTESIZE))

Twice(x) == Add(x, x)

(* The address of entries[i].                                              *)
EntryAddr(i) == Add(Add(metadata, 2 * WORD_BYTESIZE), Twice(Twice(i)))

(***************************************************************************)
(* Section sizes and addresses.                                            *)
(***************************************************************************)
rom_sec_size     == size.rom
got_sec_size     == size.got
rom_ram_sec_size == size.rom_ram
ram_sec_size     == size.ram

got_sec_addr     == Add(rom_sec_addr, rom_sec_size)
rom_ram_sec_addr == Add(got_sec_addr, got_sec_size)

(* The macro of the same name: round() on uint32_t.                        *)
ROUND(x, y) == Add(round(x, y), 0)

THUMB_ADDRESS(x) == IF x % 2 = 0 THEN x + 1 ELSE x

entry_point_addr == THUMB_ADDRESS(Add(rom_sec_addr, entry_point_offset))

rel_rom_ram_sec_addr == Add(rel_got_sec_addr, got_sec_size)
rel_ram_sec_addr     == Add(rel_rom_ram_sec_addr, rom_ram_sec_size)
rel_ram_sec_end      == Add(rel_ram_sec_addr, ram_sec_size)

(***************************************************************************)
(* The section of a partition offset: each comparison is made after the    *)
(* sizes of the sections before it have been subtracted.                   *)
(***************************************************************************)
InRom(off) == off < rom_sec_size

InGot(off) == off - rom_sec_size \in 0 .. (got_sec_size - 1)

InRomRam(off) ==
  off - rom_sec_size - got_sec_size \in 0 .. (rom_ram_sec_size - 1)

InRam(off) ==
  off - rom_sec_size - got_sec_size - rom_ram_sec_size
    \in 0 .. (ram_sec_size - 1)

OutOfBounds(off) == ~ (InRom(off) \/ InGot(off) \/ InRomRam(off) \/ InRam(off))

(* Leaves what is in the GOT in flash.                                     *)
MutAddressGotInFlash(off) ==
  IF InRom(off) \/ InGot(off)
    THEN Add(rom_sec_addr, off)
    ELSE Add(rel_rom_ram_sec_addr, off - rom_sec_size - got_sec_size)

(* The run-time address of an offset in bounds.                            *)
Address(off) ==
  IF InRom(off)    THEN Add(rom_sec_addr, off) ELSE
  IF InGot(off)    THEN Add(rel_got_sec_addr, off - rom_sec_size) ELSE
  IF InRomRam(off) THEN Add(rel_rom_ram_sec_addr,
                            off - rom_sec_size - got_sec_size)
                   ELSE Add(rel_ram_sec_addr,
                            off - rom_sec_size - got_sec_size
                              - rom_ram_sec_size)

-----------------------------------------------------------------------------
(***************************************************************************)
(* The statements of _start().                                             *)
(***************************************************************************)
Goto(label) == pc' = label /\ done' = 0

(* die() prints a message and loops forever.                               *)
Die(id) == pc' = "dead" /\ err' = id /\ UNCHANGED done

(* Reads the version, the sizes, and the start of .rom up to the padding.  *)
CheckVersion ==
  /\ pc = "check_version"
  /\ \/ /\ Footer(FOOTER_MAGIC_NUMBER_AND_VERSION_OFFSET)
             = MAGIC_NUMBER_AND_VERSION
        /\ size' = FooterSizes
        /\ rom_sec_addr' = EntryAddr(entry_number)
        /\ Goto("skip_padding")
        /\ UNCHANGED err
     \/ /\ Footer(FOOTER_MAGIC_NUMBER_AND_VERSION_OFFSET)
             # MAGIC_NUMBER_AND_VERSION
        /\ Die(0)
        /\ UNCHANGED <<size, rom_sec_addr>>
  /\ UNCHANGED <<file, ctx, current_got, rel_got_sec_addr, ram, sl, bx>>

(* Takes the first byte behind the relocation table for the start of .rom. *)
MutAtPaddingNever == FALSE

AtPadding == FlashByte(rom_sec_addr) = TEXT_ALIGNMENT_PADDING_VALUE

(* One round of the loop that skips zero bytes.                            *)
SkipPadding ==
  /\ pc = "skip_padding"
  /\ AtPadding
  /\ rom_sec_addr' = Add(rom_sec_addr, 1)
  /\ UNCHANGED <<file, ctx, current_got, pc, size, rel_got_sec_addr, done, ram,
                 err, sl, bx>>

(* Computes the section addresses and publishes the relocated GOT.         *)
LayOut ==
  /\ pc = "skip_padding"
  /\ ~AtPadding
  /\ rel_got_sec_addr' = ctx.ram_start
  /\ current_got' = ctx.ram_start
  /\ Goto("check_ram")
  /\ UNCHANGED <<file, ctx, size, rom_sec_addr, ram, err, sl, bx>>

(* Does not count .ram.                                                    *)
MutEnoughRamNoBss ==
  /\ rel_rom_ram_sec_addr <= ctx.ram_end
  /\ rel_ram_sec_addr <= ctx.ram_end

EnoughRam ==
  /\ rel_rom_ram_sec_addr <= ctx.ram_end
  /\ rel_ram_sec_addr <= ctx.ram_end
  /\ rel_ram_sec_end <= ctx.ram_end

(* Gives back the RAM from .ram on.                                        *)
MutFreedCtxKeepsBss ==
  [ctx EXCEPT !.ram_start = rel_ram_sec_addr,
              !.nvm_start = ROUND(end_of_binary, PADDING_MPU_ALIGNMENT)]

(* The context with the RAM and the flash that the program leaves unused.  *)
FreedCtx ==
  [ctx EXCEPT !.ram_start = rel_ram_sec_end,
              !.nvm_start = ROUND(end_of_binary, PADDING_MPU_ALIGNMENT)]

CheckRam ==
  /\ pc = "check_ram"
  /\ \/ /\ EnoughRam
        /\ ctx' = FreedCtx
        /\ Goto("copy_rom_ram")
        /\ UNCHANGED err
     \/ /\ ~EnoughRam
        /\ Die(1)
        /\ UNCHANGED ctx
  /\ UNCHANGED <<file, current_got, size, rom_sec_addr, rel_got_sec_addr, ram,
                 sl, bx>>

(* The sizes of the instruction sequences of memcpy(), in bytes.           *)
Chunks == {48, 8, 4, 1}

(* Counts one byte too many as left.                                       *)
MutChunkSizeTooLarge(n) ==
  CHOOSE k \in Chunks : k <= n + 1 /\ \A l \in Chunks : l <= n + 1 => l <= k

(* The bytes moved by each round of memcpy() when n are left: its loops    *)
(* use the largest sequence as long as they can.                           *)
ChunkSize(n) ==
  CHOOSE k \in Chunks : k <= n /\ \A l \in Chunks : l <= n => l <= k

(* One round of memcpy(), which copies .rom.ram to RAM.                    *)
CopyRomRam ==
  /\ pc = "copy_rom_ram"
  /\ \/ LET n   == ChunkSize(rom_ram_sec_size - done)
            src == Add(rom_ram_sec_addr, done)
        IN  /\ done < rom_ram_sec_size
            /\ ram' = Store(ram, Add(rel_rom_ram_sec_addr, done),
                            [j \in 1 .. n |-> FlashByte(Add(src, j - 1))])
            /\ done' = done + n
            /\ UNCHANGED pc
     \/ /\ done >= rom_ram_sec_size
        /\ Goto("zero_ram")
        /\ UNCHANGED ram
  /\ UNCHANGED <<file, ctx, current_got, size, rom_sec_addr, rel_got_sec_addr,
                 err, sl, bx>>

(* The loops over .ram and .got advance by one word: i++ of i << 2.        *)
MutNextWordStuck == done

NextWord == Add(done, WORD_BYTESIZE)

(* Leaves the last word of .ram as it is.                                  *)
MutMoreRamStopsEarly == done + WORD_BYTESIZE < ram_sec_size

MoreRam == done < ram_sec_size

(* One round of the loop that zeroes .ram by words.                        *)
ZeroRam ==
  /\ pc = "zero_ram"
  /\ \/ /\ MoreRam
        /\ ram' = Store(ram, Add(rel_ram_sec_addr, done), to_word(0))
        /\ done' = NextWord
        /\ UNCHANGED pc
     \/ /\ ~MoreRam
        /\ Goto("relocate_got")
        /\ UNCHANGED ram
  /\ UNCHANGED <<file, ctx, current_got, size, rom_sec_addr, rel_got_sec_addr,
                 err, sl, bx>>

(* One round of the loop that relocates the GOT from flash to RAM.         *)
RelocateGot ==
  /\ pc = "relocate_got"
  /\ \E off \in {FlashWord(Add(got_sec_addr, done))} :
         \/ /\ done < got_sec_size
            /\ ~OutOfBounds(off)
            /\ ram' = Store(ram, Add(rel_got_sec_addr, done),
                            to_word(Address(off)))
            /\ done' = NextWord
            /\ UNCHANGED <<pc, err>>
         \/ /\ done < got_sec_size
            /\ OutOfBounds(off)
            /\ Die(2)
            /\ UNCHANGED ram
         \/ /\ done >= got_sec_size
            /\ Goto("patch_pointers")
            /\ UNCHANGED <<ram, err>>
  /\ UNCHANGED <<file, ctx, current_got, size, rom_sec_addr, rel_got_sec_addr,
                 sl, bx>>

(* Accepts a relocation of a GOT entry.                                    *)
MutPlaceErrorNoGot(ptr_off) ==
  IF InRom(ptr_off)       THEN 3 ELSE
  IF OutOfBounds(ptr_off) THEN 2 ELSE None

(* Why the word at partition offset ptr_off cannot be relocated.           *)
PlaceError(ptr_off) ==
  IF InRom(ptr_off)       THEN 3 ELSE
  IF InGot(ptr_off)       THEN 4 ELSE
  IF OutOfBounds(ptr_off) THEN 2 ELSE None

(* Accepts a pointer to a GOT entry.                                       *)
MutTargetErrorNoGot(off) == IF OutOfBounds(off) THEN 2 ELSE None

(* Why a pointer to partition offset off cannot be relocated.              *)
TargetError(off) ==
  IF InGot(off)       THEN 4 ELSE
  IF OutOfBounds(off) THEN 2 ELSE None

(* Names what is wrong with the target before what is wrong with the place.*)
MutPatchErrorTargetFirst(ptr_off, off) ==
  IF TargetError(off) # None THEN TargetError(off) ELSE PlaceError(ptr_off)

(* The place of a pointer is judged before its target.                     *)
PatchError(ptr_off, off) ==
  IF PlaceError(ptr_off) # None THEN PlaceError(ptr_off) ELSE TargetError(off)

(* Leaves the last relocation of the table alone.                          *)
MutMorePointersSkipsLast == done + 1 < entry_number

MorePointers == done < entry_number

(* One round of the loop that relocates the global pointers.  The target   *)
(* is read from flash, and before the place of the pointer is checked.     *)
PatchPointers ==
  /\ pc = "patch_pointers"
  /\ \E ptr_off \in {FlashWord(EntryAddr(done))} :
     \E off \in {FlashWord(Add(rom_sec_addr, ptr_off))} :
         \/ /\ MorePointers
            /\ PatchError(ptr_off, off) = None
            /\ ram' = Store(ram, Address(ptr_off), to_word(Address(off)))
            /\ done' = Add(done, 1)
            /\ UNCHANGED <<pc, err>>
         \/ /\ MorePointers
            /\ PatchError(ptr_off, off) # None
            /\ Die(PatchError(ptr_off, off))
            /\ UNCHANGED ram
         \/ /\ ~MorePointers
            /\ Goto("branch")
            /\ UNCHANGED <<ram, err>>
  /\ UNCHANGED <<file, ctx, current_got, size, rom_sec_addr, rel_got_sec_addr,
                 sl, bx>>

(* Loads R10 with the relocated GOT and branches to start().               *)
Branch ==
  /\ pc = "branch"
  /\ pc' = "started"
  /\ sl' = rel_got_sec_addr
  /\ bx' = entry_point_addr
  /\ UNCHANGED <<file, ctx, current_got, size, rom_sec_addr, rel_got_sec_addr,
                 done, ram, err>>

-----------------------------------------------------------------------------
(* Zero stands for the locals of _start() that are not assigned yet.       *)
Init ==
  /\ file \in Files
  /\ ctx \in Contexts
  /\ current_got = None
  /\ pc = "check_version"
  /\ size = [rom |-> 0, got |-> 0, rom_ram |-> 0, ram |-> 0]
  /\ rom_sec_addr = 0
  /\ rel_got_sec_addr = 0
  /\ done = 0
  /\ ram = << >>
  /\ err = None
  /\ sl = None
  /\ bx = None

Next ==
  \/ CheckVersion
  \/ SkipPadding
  \/ LayOut
  \/ CheckRam
  \/ CopyRomRam
  \/ ZeroRam
  \/ RelocateGot
  \/ PatchPointers
  \/ Branch

(* The processor keeps executing the only program there is.                *)
Spec == Init /\ [][Next]_vars /\ WF_vars(Next)

-----------------------------------------------------------------------------
(***************************************************************************)
(* Properties.                                                             *)
(***************************************************************************)
Loading == Loops \cup {"branch", "started"}  (* past the RAM check         *)

(* The types of the variables.  memcpy() never moves more than what is     *)
(* left, so its progress stays within the size of the section.             *)
TypeOK ==
  /\ file.bytes \in Seq(Byte) /\ file.metadataOff \in Word
  /\ ctx \in [bin_base : Word, ram_start : Word, ram_end : Word,
              nvm_start : Word]
  /\ pc \in Loading \cup {"check_version", "skip_padding", "check_ram", "dead"}
  /\ current_got # None => current_got \in Word
  /\ size \in [rom : Word, got : Word, rom_ram : Word, ram : Word]
  /\ rom_sec_addr \in Word
  /\ rel_got_sec_addr \in Word
  /\ done \in Word
  /\ pc = "copy_rom_ram" => done <= rom_ram_sec_size
  /\ DOMAIN ram \subseteq Word /\ ram \in [DOMAIN ram -> Byte]
  /\ err # None => err \in 0 .. 4
  /\ sl # None => sl \in Word
  /\ bx # None => bx \in Word

(* What the loader takes for granted of the sizes in the footer: .got and  *)
(* .ram are words, no pointer of the relocation table sticks out at the    *)
(* end of .ram, and the sections fit in the address space.  Then no sum it *)
(* compares with ram_end wraps around, and no last word is cut.            *)
RamSize == got_sec_size + rom_ram_sec_size + ram_sec_size

PointerFits(ptr_off) ==
  ptr_off - rom_sec_size \in 0 .. (RamSize - 1)
    => ptr_off - rom_sec_size + WORD_BYTESIZE <= RamSize

WellSized ==
  /\ got_sec_size % WORD_BYTESIZE = 0
  /\ ram_sec_size % WORD_BYTESIZE = 0
  /\ \A i \in 0 .. (entry_number - 1) : PointerFits(FlashWord(EntryAddr(i)))
  /\ rel_got_sec_addr + RamSize < WordMod

(* The loader stores nothing outside of the RAM it was given, whatever the *)
(* loops of _start() and their interleaved section addresses: the check    *)
(* "if sufficient RAM is available" covers every store that follows it.    *)
WritesWithinRam ==
  WellSized => DOMAIN ram \subseteq rel_got_sec_addr .. (ctx.ram_end - 1)

(* What the context hands over as unused is unused: no byte from ram_start *)
(* on was written, and nvm_start is the first 32-byte boundary behind the  *)
(* file.                                                                   *)
FreeMemoryIsFree ==
  pc \in Loading /\ WellSized =>
    /\ \A a \in DOMAIN ram : a < ctx.ram_start
    /\ ctx.ram_start <= ctx.ram_end
    /\ ctx.nvm_start % PADDING_MPU_ALIGNMENT = 0
    /\ ctx.nvm_start - (ctx.bin_base + Len(file.bytes))
         \in 0 .. (PADDING_MPU_ALIGNMENT - 1)

(* What is skipped behind the relocation table is the padding that         *)
(* build_fae.py put there, and nothing else.                               *)
SkipsOnlyPadding ==
  pc \in Loading \cup {"check_ram"} =>
    rom_sec_addr = ctx.bin_base + file.partition

(* What build_fae.py tells gdb is where the loader takes the sections to   *)
(* be: in flash, with $flash_base at the file, and in RAM, with $ram_base  *)
(* where the RAM began that the loader was given.                          *)
GdbAgrees ==
  LET gdb       == file.gdbinit
      flash_end == Add(rom_ram_sec_addr, rom_ram_sec_size)
  IN  pc \in Loading =>
        /\ << rom_sec_addr, got_sec_addr, rom_ram_sec_addr, flash_end >>
             = << ctx.bin_base + gdb.text, ctx.bin_base + gdb.got,
                  ctx.bin_base + gdb.data, ctx.bin_base + gdb.flash_end >>
        /\ << rel_got_sec_addr, rel_rom_ram_sec_addr,
              rel_ram_sec_addr, ctx.ram_start >>
             = << current_got + gdb.rel_got, current_got + gdb.rel_data,
                  current_got + gdb.bss, current_got + gdb.ram_end >>

(* With an alignment that is a power of two, .rom is aligned in flash when *)
(* the file is, and the loader finds it there: the padding of build_fae.py *)
(* and what the loader skips agree.                                        *)
TextAligned ==
  /\ pc \in Loading \cup {"check_ram"}
  /\ file.align \in PowersOfTwo /\ ctx.bin_base % file.align = 0
  => rom_sec_addr % file.align = 0

(***************************************************************************)
(* The loader implements the module Load: what happens to the memory below *)
(* the RAM it hands back is one step when the program starts.  Where the   *)
(* block goes is the ram_start of the context before the loader changes it.*)
(***************************************************************************)
Abs == INSTANCE Load WITH
  place  <- [base      |-> ctx.bin_base,
             ram_start |-> IF current_got = None THEN ctx.ram_start
                                                 ELSE current_got,
             ram_end   |-> ctx.ram_end],
  phase  <- IF pc = "started" THEN "running" ELSE
            IF pc = "dead"    THEN "refused" ELSE "loading",
  reason <- err,
  memory <- IF pc = "started"
              THEN [a \in {x \in DOMAIN ram : x < ctx.ram_start} |-> ram[a]]
              ELSE << >>,
  r10    <- sl,
  entry  <- bx,
  unused <- IF pc = "started" THEN << ctx.ram_start, ctx.nvm_start >>
                              ELSE << >>

(* The loader does what loading promises, as if at once: it starts the     *)
(* program with all of its block in place, or it refuses it for a defect   *)
(* that it has, and the context then hands back what is left.              *)
ImplementsLoad == Abs!Spec

(* The bytes were stored from address a on, and are still there.           *)
Holds(a, bytes) ==
  \A j \in 1 .. Len(bytes) :
    a + j - 1 \in DOMAIN ram /\ ram[a + j - 1] = bytes[j]

(* Once zeroed, .ram stays zero but for the pointers that the relocation   *)
(* table puts there: neither the loop over the GOT nor the patching of     *)
(* pointers before .ram reaches into it, whether they end or the loader    *)
(* dies in them, and a byte of .ram that is not of a relocated word is     *)
(* zero when the program starts.                                           *)
RamStaysZero ==
  pc \in {"relocate_got", "patch_pointers", "branch", "started"} \/ err > 1 =>
    \A off \in Abs!BssOffset .. (Abs!EndOffset - 1) :
      Abs!Relocating(off) = {} => Holds(Abs!RunAddr(off), << 0 >>)

(* LDM, STM, LDRD and STRD fault on an address that is not a multiple of   *)
(* four: memcpy() uses them only where both addresses are.                 *)
BurstsAligned ==
  pc = "copy_rom_ram" /\ rom_ram_sec_size - done >= 8 =>
    /\ Add(rom_ram_sec_addr, done) % WORD_BYTESIZE = 0
    /\ Add(rel_rom_ram_sec_addr, done) % WORD_BYTESIZE = 0

(* Once the GOT is relocated, patching the pointers leaves it alone: no    *)
(* relocation reaches into it, not even one before the loader dies.        *)
GotSettled ==
  [][pc = "patch_pointers" /\ WellSized =>
       \A a \in DOMAIN ram :
         a \in Span(rel_got_sec_addr, got_sec_size) => ram'[a] = ram[a]]_vars

(* The loader ends, by starting the program or by dying: each of its loops *)
(* is bounded, the scan over the padding by the version in the footer.     *)
Terminates == <>(pc \in {"started", "dead"})
=============================================================================
