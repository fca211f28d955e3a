------------------------------ MODULE BuildFae -------------------------------
(***************************************************************************)
(* The process of fae_utils/build_fae.py: command line, crt0, ELF file,    *)
(* partition, gdbinit and output.  Builds run at the same time, in the     *)
(* same directory or not; programs are linked again and sources edited;    *)
(* a build may fail, or be killed, at any statement.                       *)
(*                                                                         *)
(* What files contain is abstracted to what it was made of.  The contents  *)
(* byte by byte are those of the module FaeImage.                          *)
(***************************************************************************)
EXTENDS Make

CONSTANTS
  Lines,       (* command lines: records of the directory they are run in, *)
               (*   cwd, and of argv, a sequence of strings                *)
  Elfs,        (* names of ELF files                                       *)
  dirname,     (* the directory of each of them                            *)
  WellNamed,   (* those whose absolute path has one dot, before "elf"      *)
  int,         (* the integers that strings denote, a partial function     *)
  OwnCrt0,     (* directories of crt0.fae files made elsewhere             *)
  Careful,     (* whether nothing that a build reads or writes is touched  *)
               (*   by another build or a link while it runs               *)
  Changing,    (* the ELF files and sources that are linked or edited      *)
  MaxBuilds,   (* bound on the number of builds                            *)
  MaxChanges   (* bound on the number of links and edits                   *)

ASSUME BuildAssumption ==
  /\ Lines # {} /\ \A line \in Lines : Len(line.argv) > 0
  /\ WellNamed \subseteq Elfs /\ Elfs \subseteq DOMAIN dirname
  /\ OwnCrt0 \cap {"None", "build"} = {}
  /\ Careful \in BOOLEAN /\ MaxBuilds \in Nat /\ MaxChanges \in Nat

Builds == Makers

VARIABLES
  pc,         (* the statement of each build, or how it ended              *)
  line,       (* its command line                                          *)
  opened,     (* the version of the ELF file that it opened                *)
  began,      (* when its run of make began                                *)
  crt0,       (* what the crt0 it read was made of                         *)
  part,       (* the ELF file and version that the partition it read is of *)
  elf,        (* the version of each ELF file                              *)
  partition,  (* partition.fae in each directory that a build runs in      *)
  gdbinit,    (* gdbinit in each directory of ELF files                    *)
  output,     (* the FAE file of each ELF file                             *)
  torn,       (* ELF files whose last build stopped between its two files  *)
  builds, changes

buildVars == << pc, line, opened, began, crt0, part >>
fileVars == << elf, partition, gdbinit, output, torn >>
vars == << makeVars, buildVars, fileVars, builds, changes >>

(* A file that is not there, and one that is open for writing.             *)
NoFile == << >>
Truncated == << "truncated" >>

(* The directory that has crt0 and build below it.                         *)
Root == "root"

-----------------------------------------------------------------------------
(***************************************************************************)
(* The command line: options with a value each, then the ELF file.         *)
(***************************************************************************)
CLI_OPTION_CRT0_PATH == "--crt0-path"
CLI_OPTION_ALIGN_TEXT == "--align-text"

OptionAt(argv) == {i \in 1 .. (Len(argv) - 1) : i % 2 = 1}

Value(argv, option, default) ==
  IF \E i \in OptionAt(argv) : argv[i] = option
    THEN argv[(CHOOSE i \in OptionAt(argv) : argv[i] = option) + 1]
    ELSE default

crt0_path(argv)    == Value(argv, CLI_OPTION_CRT0_PATH, "None")
align_text(argv)   == Value(argv, CLI_OPTION_ALIGN_TEXT, "0")
elf_filename(argv) == argv[Len(argv)]

Accepted(argv) ==
  /\ Len(argv) \in {1, 3, 5}
  /\ \A i \in OptionAt(argv) :
       argv[i] \in {CLI_OPTION_CRT0_PATH, CLI_OPTION_ALIGN_TEXT}
  /\ Len(argv) = 5 => argv[1] # argv[3]
  /\ align_text(argv) \in DOMAIN int /\ int[align_text(argv)] >= 0
  /\ elf_filename(argv) \in WellNamed

(***************************************************************************)
(* What a build is about.                                                  *)
(***************************************************************************)
Elf(b) == elf_filename(line[b].argv)
Dir(b) == dirname[Elf(b)]
(* Every build is run in the directory of the repository.                  *)
MutCwdRoot(b) == Root

Cwd(b) == line[b].cwd
Default(b) == crt0_path(line[b].argv) = "None"

(* The bytes of crt0.fae, as a list of at most one element.                *)
Crt0File(b) ==
  IF Default(b) \/ crt0_path(line[b].argv) = "build"
    THEN IF Exists("build/crt0.fae") THEN << disk["build/crt0.fae"].of >> ELSE NoFile
    ELSE IF crt0_path(line[b].argv) \in OwnCrt0
           THEN << {<< crt0_path(line[b].argv), 1 >>} >> ELSE NoFile

Ends == {"none", "ok", "failed"}

Active(b) == pc[b] \notin Ends

(***************************************************************************)
(* The files that the build of a command line reads and writes.            *)
(***************************************************************************)
Reads(argv) ==
  {<< elf_filename(argv), "elf" >>}
    \cup {<< path, "crt0" >> : path \in {crt0_path(argv)} \cap (OwnCrt0 \cup {"build"})}

Writes(l) ==
  {<< elf_filename(l.argv), "fae" >>, << l.cwd, "partition" >>,
   << dirname[elf_filename(l.argv)], "gdbinit" >>}
    \cup IF crt0_path(l.argv) = "None" THEN {<< "build", "crt0" >>} ELSE {}

Apart(l, m) ==
  /\ Writes(l) \cap (Writes(m) \cup Reads(m.argv)) = {}
  /\ Writes(m) \cap Reads(l.argv) = {}

-----------------------------------------------------------------------------
(***************************************************************************)
(* The statements, in order.                                               *)
(***************************************************************************)

(* The files of a build are written before the partition is extracted.     *)
MutStatementsGdbinitFirst ==
  << "start_make", "make", "read_crt0", "export", "gdbinit", "write_gdbinit",
     "objcopy", "read_partition", "remove_partition", "output",
     "write_output", "ok" >>

Statements ==
  << "start_make", "make", "read_crt0", "export", "objcopy", "read_partition",
     "remove_partition", "gdbinit", "write_gdbinit", "output",
     "write_output", "ok" >>

At(b, statement) == pc[b] = statement

Continue(b) ==
  pc' = [pc EXCEPT ![b] =
           Statements[1 + CHOOSE i \in 1 .. Len(Statements) : Statements[i] = @]]

AnyLine == CHOOSE l \in Lines : TRUE

(* The end of a process: what it had in memory is gone.                    *)
Forget(b) ==
  /\ line' = [line EXCEPT ![b] = AnyLine]
  /\ opened' = [opened EXCEPT ![b] = 0]
  /\ began' = [began EXCEPT ![b] = 0]
  /\ crt0' = [crt0 EXCEPT ![b] = {}]
  /\ part' = [part EXCEPT ![b] = << >>]

(* usage(), or the exception of int().                                     *)
Refuse(b, l) ==
  /\ ~Active(b)
  /\ builds < MaxBuilds
  /\ ~Accepted(l.argv)
  /\ pc' = [pc EXCEPT ![b] = "failed"]
  /\ builds' = builds + 1
  /\ UNCHANGED << makeVars, line, opened, began, crt0, part, fileVars, changes >>

(* Opens the ELF file, whose bytes it keeps if the file is replaced.       *)
Begin(b, l) ==
  /\ ~Active(b)
  /\ builds < MaxBuilds
  /\ Accepted(l.argv)
  /\ Careful => \A c \in Builds : Active(c) => Apart(l, line[c])
  /\ line' = [line EXCEPT ![b] = l]
  /\ pc' = [pc EXCEPT ![b] =
              IF crt0_path(l.argv) = "None" THEN "start_make" ELSE "read_crt0"]
  /\ opened' = [opened EXCEPT ![b] = elf[elf_filename(l.argv)]]
  /\ builds' = builds + 1
  /\ UNCHANGED << makeVars, began, crt0, part, fileVars, changes >>

(* make -C crt0 realclean all, in the directory the build is run in.       *)
StartMakeOfCrt0(b) ==
  /\ At(b, "start_make")
  /\ Cwd(b) = Root
  /\ StartMake(b, "crt0", << "realclean", "all" >>)
  /\ began' = [began EXCEPT ![b] = clock]
  /\ Continue(b)
  /\ UNCHANGED << disk, clock, line, opened, crt0, part, fileVars, builds, changes >>

MakeOfCrt0(b) ==
  /\ At(b, "make")
  /\ MakeStep(b)
  /\ UNCHANGED << buildVars, fileVars, builds, changes >>

(* The return code of make: an error is an end of its own (see Fail).      *)
MakeReturned(b) ==
  /\ At(b, "make")
  /\ status[b] = "ok"
  /\ Continue(b)
  /\ UNCHANGED << makeVars, line, opened, began, crt0, part, fileVars, builds, changes >>

ReadCrt0(b) ==
  /\ At(b, "read_crt0")
  /\ Crt0File(b) # NoFile
  /\ crt0' = [crt0 EXCEPT ![b] = Crt0File(b)[1]]
  /\ Continue(b)
  /\ UNCHANGED << makeVars, line, opened, began, part, fileVars, builds, changes >>

(* Symbols and relocation table, from the ELF file that was opened.        *)
Export(b) ==
  /\ At(b, "export")
  /\ Continue(b)
  /\ UNCHANGED << makeVars, line, opened, began, crt0, part, fileVars, builds, changes >>

(* Goes on when objcopy has failed.                                        *)
MutObjcopyFailed(b) ==
  /\ At(b, "objcopy")
  /\ partition' \in {partition,
                     [partition EXCEPT ![Cwd(b)] = << << Elf(b), elf[Elf(b)] >> >>]}
  /\ Continue(b)
  /\ UNCHANGED << makeVars, line, opened, began, crt0, part, elf, gdbinit, output,
                  torn, builds, changes >>

(* objcopy opens the file by its name.                                     *)
Objcopy(b) ==
  /\ At(b, "objcopy")
  /\ partition' = [partition EXCEPT ![Cwd(b)] = << << Elf(b), elf[Elf(b)] >> >>]
  /\ Continue(b)
  /\ UNCHANGED << makeVars, line, opened, began, crt0, part, elf, gdbinit, output,
                  torn, builds, changes >>

ReadPartition(b) ==
  /\ At(b, "read_partition")
  /\ partition[Cwd(b)] # NoFile
  /\ part' = [part EXCEPT ![b] = partition[Cwd(b)][1]]
  /\ Continue(b)
  /\ UNCHANGED << makeVars, line, opened, began, crt0, fileVars, builds, changes >>

RemovePartition(b) ==
  /\ At(b, "remove_partition")
  /\ partition[Cwd(b)] # NoFile
  /\ partition' = [partition EXCEPT ![Cwd(b)] = NoFile]
  /\ Continue(b)
  /\ UNCHANGED << makeVars, line, opened, began, crt0, part, elf, gdbinit, output,
                  torn, builds, changes >>

(* open() truncates; the bytes follow.                                     *)
OpenGdbinit(b) ==
  /\ At(b, "gdbinit")
  /\ gdbinit' = [gdbinit EXCEPT ![Dir(b)] = Truncated]
  /\ Continue(b)
  /\ UNCHANGED << makeVars, line, opened, began, crt0, part, elf, partition, output,
                  torn, builds, changes >>

WriteGdbinit(b) ==
  /\ At(b, "write_gdbinit")
  /\ gdbinit' = [gdbinit EXCEPT ![Dir(b)] =
                   << << Elf(b), opened[b] >>, crt0[b], align_text(line[b].argv) >>]
  /\ Continue(b)
  /\ UNCHANGED << makeVars, line, opened, began, crt0, part, elf, partition, output,
                  torn, builds, changes >>

OpenOutput(b) ==
  /\ At(b, "output")
  /\ output' = [output EXCEPT ![Elf(b)] = Truncated]
  /\ Continue(b)
  /\ UNCHANGED << makeVars, line, opened, began, crt0, part, elf, partition, gdbinit,
                  torn, builds, changes >>

WriteOutput(b) ==
  /\ At(b, "write_output")
  /\ output' = [output EXCEPT ![Elf(b)] =
                  << << Elf(b), opened[b] >>, crt0[b], align_text(line[b].argv),
                     part[b] >>]
  /\ torn' = torn \ {Elf(b)}
  /\ Continue(b)
  /\ Forget(b)
  /\ UNCHANGED << makeVars, elf, partition, gdbinit, builds, changes >>

(* die(), an exception or a kill: a tool fails, an ELF file has no symbol  *)
(* table or an unsupported relocation, a file cannot be opened, the disk   *)
(* is full.  While make runs, its failure is awaited.                      *)
Fail(b) ==
  /\ Active(b)
  /\ At(b, "make") => status[b] = "failed"
  /\ pc' = [pc EXCEPT ![b] = "failed"]
  /\ torn' = IF pc[b] \in {"output", "write_output"} THEN torn \cup {Elf(b)}
                                                    ELSE torn
  /\ Forget(b)
  /\ UNCHANGED << makeVars, elf, partition, gdbinit, output, builds, changes >>

Step(b) ==
  \/ StartMakeOfCrt0(b) \/ MakeOfCrt0(b) \/ MakeReturned(b)
  \/ ReadCrt0(b) \/ Export(b)
  \/ Objcopy(b) \/ ReadPartition(b) \/ RemovePartition(b)
  \/ OpenGdbinit(b) \/ WriteGdbinit(b)
  \/ OpenOutput(b) \/ WriteOutput(b)
  \/ Fail(b)

(***************************************************************************)
(* The world around: a program is linked again, a source of crt0 edited.   *)
(***************************************************************************)
Link(e) ==
  /\ changes < MaxChanges
  /\ Careful => \A b \in Builds : Active(b) => Elf(b) # e
  /\ elf' = [elf EXCEPT ![e] = @ + 1]
  /\ changes' = changes + 1
  /\ UNCHANGED << makeVars, buildVars, partition, gdbinit, output, torn, builds >>

Edit(f) ==
  /\ changes < MaxChanges
  /\ EditSource(f)
  /\ changes' = changes + 1
  /\ UNCHANGED << todo, read, status, buildVars, fileVars, builds >>

Init ==
  /\ MakeInit
  /\ pc = [b \in Builds |-> "none"]
  /\ line = [b \in Builds |-> AnyLine]
  /\ opened = [b \in Builds |-> 0]
  /\ began = [b \in Builds |-> 0]
  /\ crt0 = [b \in Builds |-> {}]
  /\ part = [b \in Builds |-> << >>]
  /\ elf = [e \in Elfs |-> 1]
  /\ partition = [d \in {l.cwd : l \in Lines} |-> NoFile]
  /\ gdbinit = [d \in {dirname[e] : e \in Elfs} |-> NoFile]
  /\ output = [e \in Elfs |-> NoFile]
  /\ torn = {}
  /\ builds = 0
  /\ changes = 0

Next ==
  \/ \E b \in Builds : (\E l \in Lines : Begin(b, l) \/ Refuse(b, l)) \/ Step(b)
  \/ \E e \in WellNamed \cap Changing : Link(e)
  \/ \E f \in Sources \cap Changing : Edit(f)

(* Each process is run by the operating system until it ends.              *)
Spec == Init /\ [][Next]_vars /\ \A b \in Builds : WF_vars(Step(b))

-----------------------------------------------------------------------------
(***************************************************************************)
(* Properties.                                                             *)
(***************************************************************************)

(* The types of the variables.  make runs only while its build waits.      *)
TypeOK ==
  /\ MakeTypeOK
  /\ \A b \in Builds :
       /\ pc[b] \in Ends \cup {Statements[i] : i \in 1 .. Len(Statements)}
       /\ line[b] \in Lines
       /\ Active(b) => opened[b] \in 1 .. elf[Elf(b)]
       /\ began[b] \in 0 .. clock
       /\ status[b] = "running" => At(b, "make")
  /\ torn \subseteq Elfs
  /\ builds \in 0 .. MaxBuilds /\ changes \in 0 .. MaxChanges

Succeeds(b) == Active(b) /\ pc'[b] = "ok"

(* Sizes, relocations and partition of one version of the ELF file, crt0   *)
(* and alignment of the command line.                                      *)
OutputRight(b) ==
  LET argv    == line[b].argv
      given   == {i \in OptionAt(argv) : argv[i] = CLI_OPTION_CRT0_PATH}
      aligned == {i \in OptionAt(argv) : argv[i] = CLI_OPTION_ALIGN_TEXT}
      out     == output'[Elf(b)]
  IN  /\ out[1] = << Elf(b), elf[Elf(b)] >> /\ out[4] = out[1]
      /\ \A i \in given :
           argv[i + 1] \in OwnCrt0 => out[2] = {<< argv[i + 1], 1 >>}
      /\ given = {} => \A x \in out[2] : x[1] \in Sources
      /\ \A i \in aligned : out[3] = argv[i + 1]

(* A build that succeeds leaves the FAE file of the ELF file it was given, *)
(* as it is now, whatever failed before, or was left in the directory, or  *)
(* is being built at the same time.                                        *)
OutputIsOfElf == [][\A b \in Builds : Succeeds(b) => OutputRight(b)]_vars

NoEditSince(b) == \A f \in Sources : disk[f].time <= began[b]

(* Without an option, the crt0 of the file is made of the sources as they  *)
(* are, headers included, whatever earlier runs of make were interrupted   *)
(* by, or read before an edit.                                             *)
EmbeddedCrt0Current ==
  [][\A b \in Builds :
       Succeeds(b) /\ Default(b) /\ NoEditSince(b) =>
         output'[Elf(b)][2] =
           {<< f, disk[f].time >> : f \in Sources \ {"src/stdriot.c"}}]_vars

(* The gdbinit file that names a program is about its FAE file: the two    *)
(* are from one build, unless one is in between or was stopped in between. *)
GdbinitMatches ==
  \A e \in Elfs \ torn :
    LET d == dirname[e]
    IN  /\ \A b \in Builds :
             Elf(b) = e => pc[b] \notin {"write_gdbinit", "output", "write_output"}
        /\ gdbinit[d] \notin {NoFile, Truncated}
        /\ gdbinit[d][1][1] = e
        => output[e] \notin {NoFile, Truncated}
             /\ gdbinit[d] = SubSeq(output[e], 1, 3)

(* Every build ends, by itself or with an error, the makes that fail and   *)
(* the files that are missing included.  The builds are bounded: from some *)
(* point on there is none.                                                 *)
EveryBuildEnds ==
  <>[](\A b \in Builds : ~Active(b))
=============================================================================
