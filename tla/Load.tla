-------------------------------- MODULE Load ---------------------------------
(***************************************************************************)
(* What loading a FAE file promises, as one step: seen from outside, the   *)
(* program of the ELF file runs, moved to where the file and the RAM are,  *)
(* or it is refused for the first of its defects.                          *)
(*                                                                         *)
(* .rom stays in flash where build_fae.py put it.  What is behind it in    *)
(* the partition, .got, .rom.ram and .ram, moves to RAM as one block.      *)
(***************************************************************************)
EXTENDS FaeFormat

VARIABLES
  file,    (* the file to load, any record of elf, what it was built from  *)
           (*   (see FaeImage), partition, the offset of .rom in the file, *)
           (*   and bytes                                                  *)
  place,   (* any record of base, the address of the file in flash, and of *)
           (*   ram_start and ram_end, the RAM that is free                *)
  phase,   (* "loading", "running" or "refused"                            *)
  reason,  (* why it is refused                                            *)
  memory,  (* the block, byte by byte                                      *)
  r10,     (* the register through which the program finds its GOT         *)
  entry,   (* the address branched to                                      *)
  unused   (* start of the RAM and of the flash left to others             *)

vars == << file, place, phase, reason, memory, r10, entry, unused >>

Nothing == << >>
NoAddress == -1

-----------------------------------------------------------------------------
(***************************************************************************)
(* The program as it should be in memory.                                  *)
(***************************************************************************)
elf == file.elf

GotOffset  == Len(elf.rom)
DataOffset == GotOffset + Len(elf.got)
BssOffset  == DataOffset + Len(elf.rom_ram)
EndOffset  == BssOffset + elf.ram_size

(* The run-time address of a partition offset.                             *)
RunAddr(off) ==
  IF off < GotOffset THEN place.base + file.partition + off
                     ELSE place.ram_start + off - GotOffset

(* What the file holds at a partition offset behind .rom, seen in flash.   *)
(* .ram has no contents: what follows .rom.ram there is the filler, the    *)
(* footer, and erased flash.                                               *)
Contents(off) ==
  LET behind == file.partition + off + 1
  IN  IF off < BssOffset
        THEN (elf.got \o elf.rom_ram)[off - GotOffset + 1]
        ELSE IF behind <= Len(file.bytes) THEN file.bytes[behind]
                                          ELSE PADDING_VALUE

(* The partition offset that a word of the program refers to.              *)
Target(off) ==
  from_bytes(Contents(off), Contents(off + 1), Contents(off + 2),
             Contents(off + 3))

GotEntries ==
  {off \in GotOffset .. (DataOffset - WORD_BYTESIZE) :
     (off - GotOffset) % WORD_BYTESIZE = 0}

(* The relocations of the word that has the byte at an offset.  Where they *)
(* overlap, the last of the table counts.                                  *)
Relocating(off) ==
  {i \in 1 .. Len(elf.rel) : off \in elf.rel[i] .. (elf.rel[i] + 3)}

Last(S) == CHOOSE i \in S : \A j \in S : j <= i

(* The byte at offset off of the relocated word at w.                      *)
Relocated(w, off) == to_word(RunAddr(Target(w)))[off - w + 1]

(* The byte of the running program at a partition offset behind .rom.      *)
ByteAt(off) ==
  IF off < DataOffset
    THEN Relocated(off - ((off - GotOffset) % WORD_BYTESIZE), off)
  ELSE IF Relocating(off) # {}
    THEN Relocated(elf.rel[Last(Relocating(off))], off)
  ELSE IF off < BssOffset
    THEN elf.rom_ram[off - DataOffset + 1]
    ELSE 0

Block == place.ram_start .. (place.ram_start + (EndOffset - GotOffset) - 1)

Image == [a \in Block |-> ByteAt(a - place.ram_start + GotOffset)]

-----------------------------------------------------------------------------
(***************************************************************************)
(* What is wrong with a file, by where that is and by the identifier of    *)
(* the message that says it: at 0 the version (0), at 1 the RAM, too small *)
(* (1), at 2 an offset in the GOT that is out of bounds (2), and at 2 + i  *)
(* the i-th relocation, of a word out of bounds (2), in .rom (3) or in the *)
(* GOT (4), or of a pointer out of bounds (2) or to the GOT (4).           *)
(***************************************************************************)
InGot(off) == off \in GotOffset .. (DataOffset - 1)

Misplaced(off, id) ==
  \/ id = 2 /\ off >= EndOffset
  \/ id = 3 /\ off < GotOffset
  \/ id = 4 /\ InGot(off)

Misdirected(off, id) ==
  /\ off \in DataOffset .. (EndOffset - 1)
  /\ \/ id = 2 /\ Target(off) >= EndOffset
     \/ id = 4 /\ InGot(Target(off))

Defect(n, id) ==
  \/ n = 0 /\ id = 0 /\ elf.magic # MAGIC_NUMBER_AND_VERSION
  \/ n = 1 /\ id = 1 /\ place.ram_start + (EndOffset - GotOffset) > place.ram_end
  \/ n = 2 /\ id = 2 /\ \E w \in GotEntries : Target(w) >= EndOffset
  \/ \E i \in 1 .. Len(elf.rel) :
       n = 2 + i /\ (Misplaced(elf.rel[i], id) \/ Misdirected(elf.rel[i], id))

SoundUpTo(n) == \A k \in 0 .. n, id \in 0 .. 4 : ~Defect(k, id)

-----------------------------------------------------------------------------
Init ==
  /\ phase = "loading"
  /\ reason = NoAddress
  /\ memory = Nothing
  /\ r10 = NoAddress
  /\ entry = NoAddress
  /\ unused = Nothing

Run ==
  /\ phase = "loading"
  /\ phase' = "running"
  /\ SoundUpTo(2 + Len(elf.rel))
  /\ memory' = Image
  /\ r10' = place.ram_start
  /\ \E a \in {RunAddr(elf.start), RunAddr(elf.start) + 1} :
       a % 2 = 1 /\ entry' = a
  /\ unused' = << place.ram_start + (EndOffset - GotOffset),
                  round(place.base + Len(file.bytes), PADDING_MPU_ALIGNMENT) >>
  /\ UNCHANGED << file, place, reason >>

(* The reason given is the first.                                          *)
Refuse ==
  /\ phase = "loading"
  /\ phase' = "refused"
  /\ \E n \in 0 .. (2 + Len(elf.rel)), id \in 0 .. 4 :
       Defect(n, id) /\ SoundUpTo(n - 1) /\ reason' = id
  /\ UNCHANGED << file, place, memory, r10, entry, unused >>

Next == Run \/ Refuse

Spec == Init /\ [][Next]_vars
=============================================================================
