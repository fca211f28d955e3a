------------------------------ MODULE MCReadFae ------------------------------
(***************************************************************************)
(* Instances of ReadFae: files that FaeImage builds, the same with one     *)
(* word of the metadata or of the footer damaged, and cut files.           *)
(***************************************************************************)
EXTENDS ReadFae, FaeImage

CONSTANTS
  WithData,      (* whether files with data are read                       *)
  Damaged        (* whether damaged files are read                         *)

-----------------------------------------------------------------------------
(* n bytes, the first of them not zero.                                    *)
Bytes(n) == [i \in 1 .. n |-> 1 + (i % 3)]

MCElf(crt0, rel, rom, got, data, start) ==
  [crt0 |-> Bytes(crt0), rel |-> rel, rom |-> Bytes(rom), got |-> Concat(got),
   rom_ram |-> [i \in 1 .. data |-> 7], ram_size |-> 6, start |-> start,
   magic |-> MAGIC_NUMBER_AND_VERSION]

DataSizes == IF WithData THEN {0, 3, 17} ELSE {0}

Elfs ==
  UNION {{MCElf(c, r, n, g, d, s) :
            c \in {4, 20}, r \in {<< >>, <<9>>, <<9, 11, 13, 15, 17>>},
            g \in {<< >>, <<0>>, <<1, 2, 3, 4>>}, d \in DataSizes,
            s \in {0, n - 1}} : n \in {4, 18, 32}}

Built(e, align_text) ==
  [bytes       |-> concatenate_and_pad(e, align_text),
   built       |-> TRUE,
   metadataOff |-> Len(e.crt0),
   elf         |-> e,
   partition   |-> metadata_size(e, align_text)]

-----------------------------------------------------------------------------
(* The word at an offset replaced.                                         *)
WithWord(f, at, w) ==
  [f EXCEPT !.built = FALSE,
            !.bytes = [i \in 1 .. Len(@) |-> IF i - 1 \in at .. (at + 3)
                                               THEN to_word(w)[i - at]
                                               ELSE @[i]]]

(* The first n bytes.                                                      *)
Cut(f, n) == [f EXCEPT !.built = FALSE, !.bytes = SubSeq(@, 1, n)]

DamageOf(f) ==
  LET n == Len(f.bytes)
  IN  {WithWord(f, at, w) :
         at \in {f.metadataOff, f.metadataOff + 4}
                  \cup {n + k : k \in {-28, -24, -20, -16, -12, -8, -4}},
         w \in {0, 1, 5, n \div 4 - 1, n - 1, n, n + 1, WordMod - 1}}
      \cup {Cut(f, k) : k \in {0, 1, 36, 37, n - 4, n - 1}}

MCFiles ==
  {Built(e, a) : e \in Elfs, a \in {0, 16}}
    \cup IF Damaged
           THEN UNION {DamageOf(Built(MCElf(4, r, 18, <<1>>, d, 2), 8)) :
                         r \in {<< >>, <<9, 11>>}, d \in DataSizes}
           ELSE {}

MCNames == {"app.fae"}

MCArguments ==
  {<< "app.fae" >>, << "--Hrom", "app.fae" >>, << "-v", "--Hgot", "app.fae" >>}

(* Options as the documentation writes them, and what is refused.          *)
MCOtherArguments ==
  {<< >>, << "-v" >>, << "app.fae", "app.fae" >>, << "-Hrom", "app.fae" >>}

MCAllArguments == MCArguments \cup MCOtherArguments
=============================================================================
