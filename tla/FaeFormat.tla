------------------------------ MODULE FaeFormat ------------------------------
(***************************************************************************)
(* Words, bytes and constants of the FAE file format, shared by the tool   *)
(* that writes it (fae_utils/build_fae.py), the tool that inspects it      *)
(* (fae_utils/read_fae.py) and the loader embedded in it (crt0/crt0.c).    *)
(*                                                                         *)
(* A word has four bytes, least significant byte first.  The base of a     *)
(* byte is a parameter, 256 on the real target, so that the arithmetic of  *)
(* a small word can be enumerated: sizes and alignments, which count       *)
(* bytes, keep the values they have in the sources.                        *)
(***************************************************************************)
EXTENDS Integers, Sequences

CONSTANTS
  ByteBase,                  (* number of values of a byte                 *)
  MAGIC_NUMBER_AND_VERSION   (* last word of a file, 0xFACADE12            *)

(* A byte has at least two bits: alignments by words survive the modulo.   *)
ASSUME ByteBaseAssumption == ByteBase \in Nat \ {0} /\ ByteBase % 4 = 0

Byte == 0 .. (ByteBase - 1)

(* 2^32 on the real target.                                                *)
WordMod == ByteBase * (ByteBase * (ByteBase * ByteBase))

Word == 0 .. (WordMod - 1)

(* The low byte matters: it stops a scan over zero bytes at the footer.    *)
ASSUME MagicAssumption ==
  MAGIC_NUMBER_AND_VERSION \in Word /\ MAGIC_NUMBER_AND_VERSION % ByteBase # 0

(***************************************************************************)
(* Arithmetic on uint32_t: the sum of two words, reduced.                  *)
(***************************************************************************)
Add(x, y) == IF x + y < WordMod THEN x + y ELSE x + y - WordMod

(***************************************************************************)
(* Conversions between a word and its little-endian bytes.                 *)
(***************************************************************************)
to_word(x) ==
  << x % ByteBase,
     (x \div ByteBase) % ByteBase,
     (x \div (ByteBase * ByteBase)) % ByteBase,
     (x \div (ByteBase * (ByteBase * ByteBase))) % ByteBase >>

from_bytes(b0, b1, b2, b3) ==
  b0 + ByteBase * (b1 + ByteBase * (b2 + ByteBase * b3))

(* The alignments for which rounding up by a mask is exact.                *)
PowersOfTwo ==
  {1, 2, 4, 8, 16, 32, 64, 128, 256, 512, 1024, 2048, 4096, 8192, 16384,
   32768, 65536, 131072, 262144, 524288, 1048576, 2097152, 4194304, 8388608,
   16777216, 33554432, 67108864, 134217728, 268435456, 536870912, 1073741824}

(* x rounded up to a multiple of y, for y a power of two.                  *)
round(x, y) == (x + y - 1) - ((x + y - 1) % y)

(***************************************************************************)
(* Sizes, in bytes.                                                        *)
(***************************************************************************)
WORD_BYTESIZE == 4
FOOTER_BYTESIZE == 28
PADDING_MPU_ALIGNMENT == 32
PADDING_VALUE == ByteBase - 1        (* 0xff, erased flash                 *)
TEXT_ALIGNMENT_PADDING_VALUE == 0

(***************************************************************************)
(* Offsets of the footer words from the end of the file.                   *)
(***************************************************************************)
FOOTER_RAM_SIZE_OFFSET == -28
FOOTER_GOT_SIZE_OFFSET == -24
FOOTER_ROM_SIZE_OFFSET == -20
FOOTER_ROM_RAM_SIZE_OFFSET == -16
FOOTER_ENTRYPOINT_OFFSET == -12
FOOTER_CRT0_OFFSET == -8
FOOTER_MAGIC_NUMBER_AND_VERSION_OFFSET == -4
=============================================================================
