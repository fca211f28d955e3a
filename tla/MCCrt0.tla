------------------------------- MODULE MCCrt0 --------------------------------
(***************************************************************************)
(* Instances of Crt0: files built from small ELF files by the operators of *)
(* FaeImage, and contexts whose RAM is too small, exact or ample.          *)
(***************************************************************************)
EXTENDS Crt0, FaeImage

CONSTANT FirstBytes  (* values of the first byte of .rom                   *)

-----------------------------------------------------------------------------
(***************************************************************************)
(* Contents.                                                               *)
(***************************************************************************)
MCRom(b) == <<b, 1, 2, 3>>

(* n bytes with the word w at offset k, where it fits.                     *)
DataWith(n, k, w) ==
  [i \in 1 .. n |-> IF i - 1 \in k .. (k + 3) THEN to_word(w)[i - k]
                                              ELSE i % ByteBase]

MCElf(b, got, data, ram_size, rel, start, magic) ==
  [crt0 |-> <<1, 2, 3, 4>>, rel |-> rel, rom |-> MCRom(b), got |-> Concat(got),
   rom_ram |-> data, ram_size |-> ram_size, start |-> start, magic |-> magic]

FileOf(e, align_text) ==
  [bytes       |-> concatenate_and_pad(e, align_text),
   metadataOff |-> Len(e.crt0),
   elf         |-> e,
   align       |-> align_text,
   partition   |-> metadata_size(e, align_text),
   gdbinit     |-> generate_gdbinit(e, align_text)]

(* The first offset of each section, and the end of the partition, for g   *)
(* GOT entries, d bytes of data and s of .ram.                             *)
Marks(g, d, s) ==
  LET data == 4 + 4 * g
  IN  {0, 4, data, data + d, data + d + s}

-----------------------------------------------------------------------------
(***************************************************************************)
(* Sound and unsound ELF files.                                            *)
(***************************************************************************)
Good == MAGIC_NUMBER_AND_VERSION

(* Every target of a GOT entry.                                            *)
GotElfs ==
  {MCElf(b, <<o, 0>>, DataWith(4, 0, 0), s, << >>, 1, Good) :
     b \in FirstBytes, o \in {0, 2, 4, 8, 12, 15, 16, 19, 20, 24}, s \in {0, 8}}

(* Every place and every target of one relocation, in bounds or not, on    *)
(* words and between them.  The target of a place in .ram is in the filler.*)
RelElfs ==
  UNION {{MCElf(b, [i \in 1 .. g |-> 0], DataWith(8, p - (4 + 4 * g), o), s,
                <<p>>, 2, Good) :
            p \in Marks(g, 8, s) \cup {4 + 4 * g + k : k \in {-2, 1, 4, 7}},
            o \in Marks(g, 8, s)} :
           b \in FirstBytes, g \in {0, 1}, s \in {0, 4}}

(* Without filler, what is read for a pointer in .ram is the footer: sizes *)
(* of sections, which are in bounds.  A pointer in a .ram of one byte      *)
(* sticks out of the block.                                                *)
RamElfs ==
  {MCElf(b, << >>, DataWith(16, 99, 0), s, <<20 + k>>, 2, Good) :
     b \in FirstBytes, s \in {1, 8}, k \in {-2, 0, 4, 7, 8}}

(* Two relocations that overlap, in both orders, the second to .rom.       *)
OverlapElfs ==
  {MCElf(b, << >>, to_word(o) \o to_word(0), 4, rel, 2, Good) :
     b \in FirstBytes, o \in {1, 8, 11, 16}, rel \in {<<4, 6>>, <<6, 4>>}}

(* Several things wrong at once: version, GOT, and two relocations.        *)
WrongElfs ==
  {MCElf(b, <<o>>, DataWith(8, 0, 1), 4, rel, 2, m) :
     b \in FirstBytes, o \in {0, 20}, m \in {Good, Good + 1},
     rel \in {<<8, 0>>, <<0, 4>>, <<4, 0>>, <<20, 4>>, <<4, 12>>, <<12, 4>>}}

(* Data of every chunk size of memcpy(), two relocations, any order.       *)
DataElfs ==
  UNION {{MCElf(b, <<4 + 4>>, DataWith(d, 4, o), 4, rel, 3, Good) :
            o \in {1, 8, 8 + d},
            rel \in {<<12>>, <<8, 12>>, <<12, 8>>, <<12, 12>>}} :
           b \in FirstBytes, d \in {8, 12, 60, 64}}

(* Sizes that are not words, empty sections, another format version.       *)
OddElfs ==
  {MCElf(b, << >>, DataWith(d, 99, 0), s, << >>, 0, Good) :
     b \in FirstBytes, d \in {0, 3, 6, 7, 49}, s \in {0, 1, 4}}
  \cup {MCElf(b, <<0>>, << >>, 4, << >>, 1, m) :
          b \in FirstBytes, m \in {Good, Good + 1}}

MCFiles ==
  {FileOf(e, 0) : e \in RelElfs \cup RamElfs \cup OverlapElfs \cup WrongElfs}
    \cup {FileOf(e, a) : e \in GotElfs \cup DataElfs \cup OddElfs, a \in {0, 6, 16}}

(* RAM from exhausted to ample, at an odd and at an even flash page.       *)
MCContexts ==
  {[bin_base |-> base, ram_start |-> 512, ram_end |-> 512 + n, nvm_start |-> base] :
     base \in {1024, 1056}, n \in {0, 4, 8, 11, 12, 16, 24, 200}}
=============================================================================
