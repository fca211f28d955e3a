# Verification of the FAE file format tools and loader

This directory holds TLA+ specifications of the program in `src/`: the tool
that writes FAE files (`fae_utils/build_fae.py`), the tool that inspects them
(`fae_utils/read_fae.py`), the loader embedded in every file (`crt0/crt0.c`),
the library programs are linked with (`src/stdriot.c`) and the makefiles. TLC
checks them on small instances, TLAPS proves what is stated as a theorem.

A FAE file is position independent firmware that xipfs, a flash file system of
RIOT, executes in place:

    crt0 | binary size | relocation table | zero padding |
    .rom | .got | .rom.ram | 0xff padding | footer of seven words

## 1. Inventory

| Component | State | Operations | Meets |
|---|---|---|---|
| crt0 loader, `crt0/crt0.c` | locals of `_start()`, the RAM it writes, the context it shares with xipfs, R10 | check the version, skip the padding, lay the sections out, check the RAM, copy `.rom.ram`, zero `.ram`, relocate the GOT, patch the pointers, branch; `die()` | the file (reads), xipfs (context), the program (branch) |
| `build_fae.py`, contents of the file | none, a function of the ELF file and the alignment option | relocation table, header, text alignment, partition, padding, footer; the places in gdbinit | the loader, gdb and `read_fae.py`, through the files |
| `build_fae.py`, the process | files: `build/crt0.fae`, `partition.fae`, `gdbinit`, the output | command line, rebuild crt0, read the ELF file, objcopy, read and remove the partition, write gdbinit, write the output | other builds in the same directory, make, objcopy |
| `read_fae.py` | options, position in the file, what it printed | command line, magic, crt0, relocations, alignment, sections, hexdump and disassembly | the file |
| stdriot, `src/stdriot.c` | the GOTs and the syscall table kept in statics, R10 | `start()`, one wrapper for each syscall | the loader (context), RIOT (syscalls), `main()` |
| loader context, `src/include/*.h` | records | none | the loader, stdriot, xipfs |
| makefiles and `link.ld` | times of the built files | all, clean, realclean, in two directories | `build_fae.py` |
| xipfs, RIOT, objcopy, the linker script of programs, `main()` | outside of the repository | | |

What is hard in each, and what makes it correct:

* **Loader.** It has no concurrency and no way to report an error but to stop.
  One RAM check stands in front of four loops that write; section addresses
  are found by a scan for a non-zero byte; offsets are classified by chained
  subtractions; the context shared with xipfs changes before the work that can
  still fail. It is correct when it starts the program exactly as the ELF file
  describes it, moved; refuses what it cannot relocate and nothing else; and
  touches no memory it was not given.
* **File contents.** Alignments and sizes at their boundaries: the loader must
  find the footer, `.rom` and aligned sections for every combination, and gdb
  must be told of the places where the loader will put them.
* **Building.** Two builds in one directory, a relink in between two reads of
  the ELF file, a failure between two outputs. Correct when the output is the
  FAE file of the ELF file that was named, or the exit status says otherwise.
* **Reading.** Correct when it accepts what the builder writes, shows the bytes
  it names, and ends without an exception on a damaged file.
* **stdriot.** R10 belongs to RIOT during a syscall and to the program
  elsewhere, whatever sequence of calls and returns.
* **Makefiles.** Correct when what is built is built from the current sources,
  whatever was cleaned, interrupted or left behind before.

The hazards, each at its line, are listed under `hazards` in `PROJECT.json`,
with the properties that cover them. Three have none; their notes say why.

## 2. Plan

| # | Module | Models | Status |
|---|---|---|---|
| 1 | `FaeFormat`, `FormatProofs` | words, bytes and constants of the format; proofs about them | done: one theorem |
| 2 | `FaeImage` (extends 1), `ImageProofs` | the contents of the file, and the places in gdbinit, as functions of the ELF file; proofs about them | done: two theorems |
| 3 | `Crt0` (extends 1), `MCCrt0` (extends 2 and 3), `Crt0Proofs` | the loader; instances; proofs | done: ten theorems |
| 4 | `Load` | what loading promises: one step from a file to a running program or a refusal. `Crt0` implements it (`ImplementsLoad`, a property under a refinement mapping) | done, checked and proved |
| 5 | `ReadFae`, `MCReadFae` (extends 2), `ReadFaeProofs` | the reader on built, damaged and cut files; instances; proofs | done: four theorems |
| 6 | `Make`; `Makefiles`, `MCMakefiles`; `MakeProofs`, `MakefilesProofs` | the rules of both makefiles and one run of make; a developer who edits and makes; proofs | done: four theorems |
| 7 | `BuildFae` (extends `Make`), `MCBuildFae`, `BuildFaeProofs` | builder processes, each with the make it calls, that share directories; failures between any two statements; proofs | done: four theorems |
| 8 | `Syscalls`, `Stdriot`, `MCStdriot`, `StdriotProofs` | what a syscall promises; the library, which implements it; proofs | done: three theorems |

What is composed: builder and loader (`MCCrt0`), builder and reader
(`MCReadFae`), make and builder (`BuildFae`), loader and its promise (`Load`),
library and its promise (`Syscalls`).

Nothing of the plan is left but what section 5 says is only model-checked.

## 3. Modules

### FaeFormat

The base of a byte is a constant, 256 on the target: with base 16 a word has
65536 values and TLC can build whole files, while sizes and alignments, which
count bytes, keep the values of the sources (a word has four bytes, the footer
28, the MPU alignment is 32). It must be a multiple of four, so that
arithmetic modulo the number of words keeps alignments by four. `Add` is the
sum of two `uint32_t`.

### FaeImage

`concatenate_and_pad(elf, align_text)` is the file `build_fae.py` writes, in
the order of `concatenate_and_pad_bytearray`; `metadata_size` is what stands in
front of the partition, and `generate_gdbinit` the offsets that `gdbinit` adds
to `$flash_base` and `$ram_base`. An `elf` is a record of what the tool
extracts: relocation offsets, the bytes of the sections, `__ram_size`, `start`.
The sections of the partition follow each other in the order `.rom`, `.got`,
`.rom.ram` from offset zero; this is the linker script's doing, outside of the
repository, and both `crt0.c` and `gdbinit` rely on it. `round` is the tool's:
it masks bits, for any value of the alignment option, and is a rounding for
powers of two only.

### Crt0

One action for each statement or loop round of `_start()`; `pc` names the
statement:

| Action | `crt0.c` | |
|---|---|---|
| `CheckVersion` | 356-390 | version or `die(0)`; footer; first address behind the relocation table |
| `SkipPadding` | 392-394 | one round of the scan |
| `LayOut` | 396-405 | section addresses; publishes `current_got` |
| `CheckRam` | 407-418 | the check or `die(1)`; updates the context |
| `CopyRomRam` | 421-423, 556-612 | one round of `memcpy()`: 48, 8, 4 or 1 bytes |
| `ZeroRam` | 426-428 | one word |
| `RelocateGot` | 436-463 | one entry, or `die(2)` |
| `PatchPointers` | 470-519 | one pointer, or `die(2)`, `die(3)`, `die(4)` |
| `Branch` | 527-537 | R10 and the branch |

`file` is the file in flash and `ctx` the context; what surrounds the file in
flash is erased. `ram` is a function from the addresses stored to so far to
bytes, so that both what is written and where can be stated. Address sums wrap
as in C. The locals that hold sizes and addresses are variables where C assigns
them once (`size`, `rom_sec_addr`, `rel_got_sec_addr`), and operators where
they are sums of these. `\E x \in {e}` names a local of one loop round.

Abstracted: the messages of `die()`; the registers `memcpy()` uses; unaligned
access faults (the property `BurstsAligned` states where they cannot occur
instead). A read outside of the file yields erased flash.

### Load

What loading promises, in one step and without any order of loops: `Run` puts
the block of `.got`, `.rom.ram` and `.ram` in memory, with each GOT entry and
each word of the relocation table moved, and branches to `start`; `Refuse`
names the first of the defects the file has (`Defect(n, id)`, at place `n` of the
order in which they are looked for, with the identifier of the message). A word
to relocate may lie in `.rom.ram` or in `.ram`. Where two of them overlap, the
last of the table counts. What a word refers to is what the file holds at its
offset: for one in `.ram`, which has no contents, that is the filler, the footer
or erased flash behind the partition, and the loader uses it. `Load` is stated
from the ELF file and the place of the partition in the file, not from the
metadata. `Crt0` instantiates it as `Abs`:

| `Load` | in `Crt0` |
|---|---|
| `phase` | "running" when `pc` is "started", "refused" when it is "dead" |
| `place` | `bin_base`, `ram_end`, and `ram_start` before `CheckRam` changes it, which `current_got` keeps |
| `reason`, `r10`, `entry` | `err`, `sl`, `bx` |
| `memory` | `ram` below the new `ram_start`, once started |
| `unused` | the new `ram_start` and `nvm_start`, once started |

`memory` and `unused` are empty until the branch: a program or xipfs can see
them only then.

### ReadFae

The command line, then one action for each numbered part of the main program of
`read_fae.py`; `pc` names the part, or how the program ended: "ok", "usage",
"invalid" (a message), "failed" (objdump), "raised" (an exception).

| Action | `read_fae.py` | |
|---|---|---|
| `ParseOptions` | 157-194 | options, or the usage |
| `CheckFile` | 201-241 | sizes, version, CRT0 size |
| `ShowCrt0` | 243-248 | objdump may fail |
| `CheckBinarySize` | 250-254 | |
| `ShowRelocations` | 256-285 | |
| `SkipTextAlignment` | 287-296 | one round of the scan, which raises behind the end of the file |
| `CheckEntrypoint` | 297-301 | |
| `ShowRomRam`, `ShowRom`, `ShowGot` | 303-358 | in this order; `ShowGot` raises when `rom_end` has no value |
| `ShowRam` | 361-368 | |

`shown` is the list of chunks with the lines of their hexdumps (offset and
number of bytes). A word read across the end of the file is that of the bytes
there are, as with Python slices; integers do not wrap. Left out: the text of
lines and messages, the bytes that objdump gets, checks for negative values
(a word is never negative).

### Make and Makefiles

`Make` is one run of GNU make on the rules of `src/Makefile` and
`src/crt0/Makefile`, for use by a developer (`Makefiles`) and by
`build_fae.py` (`BuildFae`). A file has a time and what its bytes were made of:
pairs of a source and the time that source had. `Prerequisites` are those that
the rules name, `Inputs` what the recipe reads as well: the headers, which no
rule names.

| Action of `Make` | stands for |
|---|---|
| `StartMake` | make, with the commands that phony goals stand for |
| `LookAtTimes` | make compares the times in the chain of a goal, and decides which recipes to run. For `build/crt0.fae` at the root, the recipe is another make, in `crt0` |
| `ReadInputs`, `WriteTarget` | a recipe reads its inputs and, later, writes its target |
| `RemoveFiles` | a command of `clean` or `realclean` |
| `MakeFails`, `MakeEnds` | a recipe that fails ends make; no command is left |

`build` is an order-only prerequisite (`OrderOnly`): it is looked at for being
there. Its time moves on when a file is made in it or removed from it; a recipe
that writes over an old file may replace it, which moves the time of `build`, or
not (`WriteTarget` allows both). In
`Makefiles`, `asked`, `began` and `settled` record what was run and when, for
the properties. With `EditDuringRecipes` FALSE, no source is edited between the
two steps of a recipe: such an edit is older than the target, and no make can
see it.

### BuildFae

Any number of processes of `build_fae.py`; `pc[b]` is the statement that `b`
will do next. What files contain is abstracted to what it was made of: an ELF
file to its version, the partition to an ELF file and version, the output to
what its four parts came from.

| Action | `build_fae.py` | |
|---|---|---|
| `Refuse` | 279-323 | the usage, or the exception of `int()` |
| `Begin` | 325-330 | the command line; opens the ELF file |
| `StartMakeOfCrt0`, `MakeOfCrt0`, `MakeReturned` | 49-63 | `make -C crt0 realclean all`, in steps of `Make` |
| `ReadCrt0` | 65-72 | the bytes of `crt0.fae` |
| `Export` | 80-126 | what is read of the opened ELF file |
| `Objcopy`, `ReadPartition`, `RemovePartition` | 128-147 | through `partition.fae` |
| `OpenGdbinit`, `WriteGdbinit` | 233-275 | truncated, then written |
| `OpenOutput`, `WriteOutput` | 354-373 | truncated, then written |
| `Fail` | 43-46 | at any statement: `die()`, an exception or a kill |

`line[b]` is the command line of
a build, and "None" its crt0 path when none is given. `torn` records the ELF
files whose last build stopped between its two files, and `began[b]` the time at
which a build started its make, for the properties. `Link` and `Edit` are the
world around: a program is linked again, a source is edited, at any time; those
that are, are in `Changing`. `Careful` says whether builds and links leave alone
what a running build reads or writes (`Apart`): nothing in the tool ensures it.
It does not hold edits back.

### Stdriot and Syscalls

`Syscalls` is what the library promises, in the terms of a program: it asks
for a service, RIOT serves the request with its own GOT, the program goes on
with the answer and its own GOT, and only a request to exit ends the execution.
`Stdriot` is the library: `Execute` is what xipfs and the loader have done when
`start()` is entered, `Start` lines 275-297, `GetFunc`, `SetPrevious`,
`Branch`, `SetCurrent` and `Return` the statements of each wrapper, `MainReturns`
and `CallExit` the end of `start()`, `RiotReturns` and `RiotExits` the services.
It instantiates `Syscalls` as `Abs`:

| `Syscalls` | in `Stdriot` |
|---|---|
| `phase` | "entered" in `start()`, "program" in `main()`, "asking" before the branch of a wrapper, "serving" in RIOT, "answered" behind it |
| `gots` | those of the context |
| `got` | `r10`, while `main()` or RIOT run |
| `request` | the service meant by the wrapper that was called; in RIOT, the one reached |
| `answer` | `res` |

Assumed: the compiler computes the address of the statics once in a wrapper,
from R10 as it is on entry (`anchor`); the table has the order that
`stdriot.c:50` asks to keep synchronised with xipfs (`ContextsAssumption`);
`exit` of RIOT does not return. `argc`, `argv` and the arguments of a call are
passed on untouched: one value stands for them. `is_safe_call` is stored and
not read.

### Instances

`MCReadFae`: built files with CRT0, relocation tables, GOTs and `.rom` of several
sizes, data of 0, 3 and 17 bytes (with `WithData`), entry points at both ends of
`.rom`, text alignments of 0 and 16; with `Damaged`, built files with one word of
the metadata or the footer replaced by one of eight values around zero, the size
of the file and the largest word, and files cut at six lengths. Arguments: no
option, one, all, and four lists that are refused.

`MCCrt0`: ELF files with every target of a GOT entry (`GotElfs`); one relocation
with a place and a target at each boundary of the sections, on words and
between them, in `.ram` and behind it too (`RelElfs`); places in `.ram` in files
without filler, where the loader reads a size of the footer as the target
(`RamElfs`); two relocations that overlap (`OverlapElfs`); several defects at
once (`WrongElfs`); two relocations in any order or twice the same with data
that takes all four loops of `memcpy()` (`DataElfs`); sizes that are not words,
empty sections, another format version (`OddElfs`); text alignments of 0, 6 and 16; RAM of eight sizes between none and ample, chosen so
that each of the three sums of the RAM check is the one that fails; a file at an
odd and at an even 32-byte page. `FirstBytes` chooses the first byte of `.rom`.

`MCMakefiles`: one developer, every goal of both makefiles and the pair
`realclean all`.

`MCBuildFae`: two processes; two programs in one directory, `app`, and one in
another, `tool`, which can be built while one of `app` is; command lines with
and without crt0 path and alignment, from the root of the repository and from
the directory of the program, and five that are refused or fail at once:
an ELF file below a directory with a dot, a directory without `crt0`, a negative
alignment, one that is no number, a crt0 path with no file.

`MCStdriot`: a GOT of RIOT and two of programs, executed in either mode of
xipfs, any number of times.

## 4. Runs

In brackets, the code fault of the mutant that breaks the property.

`crt0` (passes, about 54 000 states) checks:

* `TypeOK`: all computed values are words, and `memcpy()` never moves more than
  is left [a burst for one byte too few].
* `WritesWithinRam`: nothing is stored outside of the RAM that was given, as
  long as the sizes are words and the sections fit in the address space
  (`WellSized`) [`.ram` not counted by the check].
* `FreeMemoryIsFree`: what the context hands back as unused RAM is never
  written, and unused flash starts at the first page behind the file [RAM
  handed back from `.ram` on].
* `ImplementsLoad`: the loader implements `Load`: when the program starts, the
  block in RAM is byte by byte the one the ELF file describes, moved, the branch
  goes to `start` in Thumb mode with R10 on the GOT that `current_got` names, the
  rest of RAM and flash is handed back, and nothing is wrong with the file; when
  the loader dies, the identifier names the first defect of the file. It
  compares loader and builder [five mutants: GOT entries left in flash; the last
  pointer forgotten; the padding not skipped; targets in the GOT accepted; the
  target judged before the place].
* `RamStaysZero`: from the moment `.ram` is zeroed, also when the loader dies
  later, each byte of it that is not of a word in the relocation table stays
  zero: the GOT does not reach into it, and a relocation stores at its place and
  nowhere else [the last word left].
* `TextAligned`: with an alignment that is a power of two, the loader finds `.rom`
  at an aligned address [one byte of padding too much].
* `BurstsAligned`: the instructions of `memcpy()` that fault on unaligned
  addresses are used on aligned ones only; this rests on the padding computed
  by `build_fae.py` [one byte of padding too much].
* `GdbAgrees`: every place that `gdbinit` tells gdb, in flash and in RAM, is the
  one where the loader takes or puts the section [the padding not counted].
* `GotSettled`: patching pointers leaves the relocated GOT alone, also before the
  loader dies [places in the GOT accepted].
* `Terminates`: the loader ends, under weak fairness of its next step: it is the
  only program on the processor, so it keeps executing [a counter that does not
  advance]. `CHECK_DEADLOCK FALSE` because it ends.

`crt0_leading_zero` (violation of `SkipsOnlyPadding`): the comment at
`crt0.c:392` announces the padding is skipped, the loop also skips zero bytes
that begin `.rom`. With `FirstBytes = {0}` the loader computes section
addresses inside `.rom`. A Thumb program that begins with `movs r0, #0` has
such a first byte. The passing run has a non-zero first byte: its properties
hold for these programs only.

`read_fae` (passes) checks:

* `TypeOK`: types, and no chunk without bytes is shown [empty sections shown].
* `AcceptsBuilt`: a file of `build_fae.py` is neither refused nor makes the tool
  raise [entry points in the last word refused].
* `SectionsTilePartition`: the three sections shown of a built file follow each
  other from the first to the last byte of the partition: this joins the
  header, the alignment and the footer of the builder with the walk of the
  reader [`.got` starting at the last byte of `.rom`].
* `SoundForLoader`: of all files, damaged or not, those judged sound have metadata
  that leads the loader to the footer, the loader's version, and the partition
  where the loader will find it [version not checked].
* `Terminates`, under weak fairness of the only process there is [scan that does
  not advance].

`read_fae_rom`, `read_fae_hexdump`, `read_fae_malformed` and
`read_fae_relocations` (violations) show what the documentation says and the
tool does not do: `.rom` is shown at `.rom.ram`'s offsets; the last line of a
hexdump repeats the line before (of the 20 bytes of a CRT0, the last four are
never displayed); sizes are not checked against each other (with a relocation
entry count that is too large, `.got` is shown in the footer of a file that is
judged sound); and the relocation table is shown one word early (`findings` in
`PROJECT.json`).

`makefiles` (passes, about 2.2 million states: four makes and an edit, enough
for a build, a clean or a failure, an edit, and two makes on top) checks:

* `TypeOK`: a make that has ended has nothing left to do [a failed make keeps
  its commands].
* `LibraryCurrent`: when make succeeds at the root, the library is compiled from
  `stdriot.c` as it is, whatever was edited, cleaned or failed before [the rule
  of the object file names no source].
* `CleanBuildCurrent`: `realclean all` leaves everything made of every source as
  it is, headers included, although no rule names them [`realclean` without
  `clean`].
* `NoNeedlessWork`: a second make runs no recipe, although making the library
  and the loader has made `build` newer than their object files; this is what the
  order-only prerequisite is for [`build` looked at like other prerequisites].

`makefiles_loader` (violation of `LoaderCurrent`): make at the root succeeds
after an edit of `crt0.c` and leaves the old loader, since `build/crt0.fae`
has no prerequisite there.

`build_fae` (passes, about 617 000 states: three builds of two processes and a
link or an edit, so that a failed build, one beside it and one after it meet)
checks, for builds that do not touch the files of each other (`Careful`), such
as those of `app/a.elf`, which rebuilds the loader, and `tool/t.elf`, which
brings its own, in every interleaving of their statements:

* `TypeOK`: make runs only while its build waits for it [a failed make keeps its
  commands].
* `OutputIsOfElf`: a build that succeeds leaves the FAE file of the ELF file it
  was given, sizes and partition of one version, with the crt0 and the alignment
  of its command line, whatever a failed build left behind, and whatever is built
  beside it [two mutants: a build that goes on when objcopy has failed; one
  `partition.fae` for all directories, which only builds at the same time show].
* `GdbinitMatches`: `gdbinit` and the FAE file it names are of one build, unless
  one is between the two or was stopped there [`gdbinit` written before the
  partition is extracted].
* `EmbeddedCrt0Current`: without a crt0 path, the file embeds a loader made of
  the sources as they are, headers included, unless one was edited since the
  make of this build began; edits during an earlier make, which leave objects
  that look newer than they are, do no harm [`realclean` without `clean`]. It
  composes the tool with the makefile.
* `EveryBuildEnds`, under weak fairness of each process: the operating system
  runs it, and a make that fails is noticed [a recipe that failed is run again].
  There being a bound on the builds, it is stated as: from some point on, none
  is running.

`build_fae_shared` (violation of `OutputIsOfElf`): without `Careful`, two builds
at once in one directory go through one `partition.fae`, and one of them
succeeds with the sections of the other program.

`stdriot` (passes, about 23 000 states, deadlock checked: an execution may
always follow) checks, for any sequence of executions and calls:

* `TypeOK`: the loop behind `exit()` is never reached [exit asks for another
  service].
* `OwnGot`: R10 is the GOT of the program in `main()` and that of RIOT in a
  service [two mutants: the globals found again through R10 after the service;
  the GOT in R10 kept as that of RIOT].
* `ImplementsSyscalls`: the library implements `Syscalls` [two services
  swapped].
* `StatusReported`: what `main()` returns reaches RIOT as the exit status, under
  weak fairness of the library and of RIOT's exit; `main()` and the other
  services may take forever [exits with another value].

## 5. Proofs

The theorems hold for every value of the constants, under the assumptions that
the modules name: types and bounds, and for `Stdriot` the order of the table.

**Format** (`FormatProofs`). Digits are bytes, four bytes are a word (`Horner`,
`FromBytesType`), sums are words. `WordSurvives`: `from_bytes` gives back the
word that `to_word` was given; from the laws of division that the provers do
not know (`Quotient`, `DivideTwice`).

**Loader** (`Crt0Proofs`), for every base of a byte, every set of files (any
bytes, sound or not) and every set of contexts:

* `TypeCorrect`: `Spec => []TypeOK`. `TypeOK` is inductive; the lemmas show that
  section and run-time addresses are words, and a store keeps the memory typed.
* `StoresInBounds`: `Spec => []WritesWithinRam`. The property is not inductive:
  that a store is in bounds follows from the check made before the loops. The
  invariant `RamInv` adds that nothing is stored before the check, that the check
  holds as long as the loader runs after it, that the loops over words have
  made a number of words of progress, and the stronger `WritesWithinBlock`: what
  is stored is in the block of the three sections. `Unwrapped` shows that under
  `WellSized` the sums do not wrap, `PlaceInBlock` that a pointer accepted for
  patching lies where its offset says, `StoreInBlock` that such stores are within
  the block.
* `HandsBackUnused`: `Spec => [](Truthful => FreeMemoryIsFree)`. `RamInv` also
  says what the context is after the check (`HandedBack`); with
  `WritesWithinBlock`, no store is behind the new `ram_start`. `FlashBehindFile`
  places the new `nvm_start`. `Truthful` is the premise that the size in the
  metadata is that of the file, which the loader cannot check, and that the file
  does not end at the end of the address space.
* `PatchingKeepsGot`: `Spec => GotSettled`. `PatchBehindGot` shows that what a step
  patches is one word behind the GOT and within the block.

and, when every file was written by `build_fae.py` from some ELF file with some
alignment (`AllBuilt`) and fits in the address space with the block of its
sections (`RoomForAll`):

* `SkipsThePadding`, `LoadsAligned`, `GdbIsTold` (`SkipsOnlyPadding`,
  `TextAligned`, `GdbAgrees`), for programs whose `.rom` does not begin with a zero
  byte (`TextBegins`), which `crt0_leading_zero` shows to be needed. `BuiltInv`
  relates each variable of the loader to the ELF file: the sizes read are those
  of its sections, `rom_sec_addr` moves over padding until `.rom`, and stays.
* `CopiesAligned` (`BurstsAligned`), when the sections and the memory are aligned
  by words as link scripts do (`AlignedByWords`). `CopyInv` adds that a copy that
  has a word left has moved whole words.
* `ZeroedStaysZero` (`RamStaysZero`), when the GOT is made of words (`WholeWords`)
  and there is room for a word behind the block (`RoomToSpare`). Of the relocation
  table nothing is assumed: it may have places in `.ram`, which the loader
  accepts, and places that stick out of `.rom.ram` into it. `ZeroInv` adds how far
  `.ram` is zeroed, up to the byte; a later store into it is of the four bytes of
  a relocation.
* `LoadImplemented`: `Spec => ImplementsLoad`, for what a linker makes of a
  program (`Linked`: `TextBegins`, an entry point in `.rom`, a GOT made of words)
  and memory that does not end within one rounding of the end of the address
  space (`RoomToSpare`). Nothing is assumed of GOT entries, of where relocations
  and their targets point, or of relocations being apart: files that the loader
  must refuse are among those. `LoadInv` says at each statement which bytes of
  `.rom.ram` are in RAM, which GOT entries hold their run-time address, and of
  each relocation done so far that its bytes do, but for those that a later one
  overwrites; and that all those done had no defect (`Judged`). A store keeps
  what other stores promised (`FillWord`, `FillGot`, `FillPointer`,
  `PromiseStays`), and writes what `Load` promises because the target is read
  from flash, as it was when the loader began (`TargetRead`, `SameAddress`).
  `ByteHeld` concludes, at the branch, that every byte is the one promised, where
  relocations overlap that of the last (`LastRelocation`); `JudgedSound` and
  `Defective`, that the loader starts a file without a defect and dies of the
  first one of the others; `InitRefines` and `StepRefines`, that its steps are
  those of `Load` or stutters.

**Image** (`ImageProofs`), for every ELF file and every alignment:

* `RoundsToMultiple`: the mask of `build_fae.py`, the recursive function `And` of
  bits, rounds up to a multiple of a power of two. That the function exists and
  obeys its recursion is itself proved (by strong induction stated with a set, so
  that it needs no operator as a parameter).
* `Layout`: the file is as long as its header says, and metadata, relocation
  table, padding, sections and footer are at the offsets that the loader and
  `read_fae.py` compute. It joins builder, loader and reader: each theorem
  about built files rests on it.

**Reader** (`ReadFaeProofs`), for every set of files and of argument lists:

* `TypeCorrect`, by the invariant `TInv`, which adds that what is read of the
  file and the position in it are natural numbers.
* `SoundIsSound`: `Spec => [](TrueCrt0Size => SoundForLoader)`. A judgement is
  the result of checks made in different parts: `SoundInv` keeps, for each part,
  what the checks before it have established, and where the scan of the padding
  is. The premise is that the footer tells the size of CRT0: with a false one,
  reader and loader look for the metadata at different places.
* `BuiltIsAccepted` (`AcceptsBuilt`) and `BuiltIsTiled` (`SectionsTilePartition`),
  when the files said to be built were (`BuiltProperly`: written by `FaeImage` from
  an ELF file with a CRT0, an entry point in `.rom`, and a `.rom` that does not
  begin with a zero byte). `ReadInv` says, for each part, where the tool is in
  the file and which chunks it has shown.

**Makefiles** (`MakeProofs`, `MakefilesProofs`): `TypeCorrect`, for any makers,
makes and edits. `MakeInv` is inductive for each action of `Make`; its lemmas
serve the builder too. For one maker (`OneMaker`: the makefiles lock nothing)
that edits between recipes, not in one:

* `LibraryAlwaysCurrent`, `CleanBuildAlwaysCurrent`, `NeverNeedlessWork`
  (`LibraryCurrent`, `CleanBuildCurrent`, `NoNeedlessWork`), after any number of
  makes, cleans, edits and failed recipes. `RunInv` says in which order the
  commands left can be (`Orderly`), that a file newer than its prerequisites is
  made of what they are made of (`FilesInv`), and what each command left promises
  about the targets that the run has still to make.

**Builder** (`BuildFaeProofs`), for any number of processes, command lines, ELF
files, builds, links and edits:

* `TypeCorrect`, by `TInv`.
* `OutputIsRight`: `Careful => (Spec => OutputIsOfElf)`. `ApartInv` says that
  the running builds write to different files; `OwnInv` that what a build has
  opened, extracted and read is of its own ELF file, as it is now. A step of
  another build leaves the files of this one alone (`PartitionFrame`,
  `OthersOwn`), a step of its own goes from one line of `Own` to the next.
* `GdbinitIsRight`: `Careful => (Spec => []GdbinitMatches)`. The property says
  nothing of a program that a build is writing; `PendingInv` says what is in
  `gdbinit` meanwhile.
* `EmbeddedIsCurrent`: `Careful => (Spec => EmbeddedCrt0Current)`, across the
  tool and its make. `realclean all` in `crt0` is a straight line of commands:
  `LoaderInv` says, for each list of commands that can be left (`Progress`),
  which part of the loader is gone or made of the sources as they are, and what
  the recipe that runs has read (`ReadsCurrent`). `LookBuilds`: with its object
  file gone, make builds all of the loader. An edit ends the premise of every
  build that runs (`EditLoader`); no other build makes a loader (`OneDefault`).

**Library** (`StdriotProofs`), for any GOTs, contexts, arguments and answers. The
invariant `IInv` says that from `start()` on, the statics under the GOT of the
program are those of this execution (`Initialised`), and in a call, that the
address kept and the service reached are the right ones.

* `TypeCorrect` and `OwnGotAlways` (`Spec => []OwnGot`) follow from it.
* `SyscallsImplemented`: `Spec => ImplementsSyscalls`, from `InitRefines` and
  `StepRefines`: each step of the library is one of `Syscalls` or a stutter.

TLC has confirmed on the instances of the runs that the premises of these
theorems hold and that the invariants `BuiltInv`, `CopyInv`, `ZeroInv`, `LoadInv`,
`ReadInv`, `RunInv` and `LoaderInv` do in every reachable state.

Only model-checked: liveness (`Terminates`,
`EveryBuildEnds`, `StatusReported`), which is outside of the prover's reach, as
are `ENABLED` and induction over data (no theorem says what a recursive function
computes beyond what induction over a set of numbers gives).

## 6. Not modelled

* How pyelftools decodes an ELF file: the model begins at what the tool gets.
* Console output and the text of messages; the bytes that `read_fae.py` gives to
  objdump (`read_fae.py:245` and `:332`, where the inclusive end of a chunk is
  used as the exclusive end of a slice).
* The path of `crt0.elf` in `gdbinit` (`build_fae.py:247`), which names the
  directory of the program when no crt0 path is given, while make puts the file
  in `build` (`src/README.md:57`). The places that `gdbinit` gives are modelled.
* `GETTING_STARTED.md:126-142` documents options of `read_fae.py` with one dash,
  the code has two (`read_fae.py:132`): the instances contain one such argument,
  which is refused.
* The variable `DEBUG` (`src/Makefile:18`) and the options of the compiler; a
  change of these is seen by no rule.
* An edit while the compiler runs, in `Makefiles`: the object is newer than the
  edit, and stays as it is until the next one. `BuildFae` has such edits, and
  makes everything from scratch.
* What `_start()` does not check, which `WellSized` excludes from
  `WritesWithinRam`: a `.ram` whose size is not a multiple of four is zeroed up
  to three bytes past its end, and sizes near 2^32 wrap in the RAM check.
