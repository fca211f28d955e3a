--------------------------- MODULE BuildFaeProofs ----------------------------
(***************************************************************************)
(* Proofs about BuildFae, for any number of builds at the same time, any   *)
(* command lines, directories and ELF files, links, edits and failures.    *)
(***************************************************************************)
EXTENDS BuildFae, MakeProofs

-----------------------------------------------------------------------------
(***************************************************************************)
(* Types.                                                                  *)
(***************************************************************************)
StatementSet == {Statements[i] : i \in 1 .. Len(Statements)}

TInv ==
  /\ MakeInv
  /\ pc \in [Builds -> Ends \cup StatementSet]
  /\ line \in [Builds -> Lines]
  /\ DOMAIN opened = Builds /\ DOMAIN crt0 = Builds /\ DOMAIN part = Builds
  /\ elf \in [Elfs -> Nat \ {0}]
  /\ DOMAIN partition = {l.cwd : l \in Lines}
  /\ DOMAIN gdbinit = {dirname[e] : e \in Elfs}
  /\ DOMAIN output = Elfs
  /\ torn \subseteq Elfs
  /\ builds \in 0 .. MaxBuilds /\ changes \in 0 .. MaxChanges
  /\ \A b \in Builds :
       /\ status[b] = "running" => At(b, "make")
       /\ Active(b) => Accepted(line[b].argv) /\ opened[b] \in 1 .. elf[Elf(b)]

LEMMA StatementsAre ==
  StatementSet = {"start_make", "make", "read_crt0", "export", "objcopy",
                  "read_partition", "remove_partition", "gdbinit",
                  "write_gdbinit", "output", "write_output", "ok"}
  BY DEF StatementSet, Statements

(* Each statement is followed by the next.                                 *)
Then(b, here, next) ==
  pc[b] = here /\ Continue(b) => pc' = [pc EXCEPT ![b] = next]

LEMMA StatementsFollow ==
  ASSUME NEW b \in Builds, b \in DOMAIN pc
  PROVE  /\ Then(b, "start_make", "make")
         /\ Then(b, "make", "read_crt0")
         /\ Then(b, "read_crt0", "export")
         /\ Then(b, "export", "objcopy")
         /\ Then(b, "objcopy", "read_partition")
         /\ Then(b, "read_partition", "remove_partition")
         /\ Then(b, "remove_partition", "gdbinit")
         /\ Then(b, "gdbinit", "write_gdbinit")
         /\ Then(b, "write_gdbinit", "output")
         /\ Then(b, "output", "write_output")
         /\ Then(b, "write_output", "ok")
  <1>. DEFINE next(s) == Statements[1 + CHOOSE i \in 1 .. Len(Statements) :
                                            Statements[i] = s]
  <1>1. /\ next("start_make") = "make"
        /\ next("make") = "read_crt0"
        /\ next("read_crt0") = "export"
        /\ next("export") = "objcopy"
        /\ next("objcopy") = "read_partition"
        /\ next("read_partition") = "remove_partition"
    BY DEF Statements
  <1>2. /\ next("remove_partition") = "gdbinit"
        /\ next("gdbinit") = "write_gdbinit"
        /\ next("write_gdbinit") = "output"
        /\ next("output") = "write_output"
        /\ next("write_output") = "ok"
    BY DEF Statements
  <1>3. Continue(b) => pc' = [pc EXCEPT ![b] = next(pc[b])]
    BY DEF Continue
  <1>. HIDE DEF next
  <1>. QED
    BY <1>1, <1>2, <1>3 DEF Then

LEMMA LineType ==
  ASSUME NEW l \in Lines, Accepted(l.argv)
  PROVE  elf_filename(l.argv) \in WellNamed /\ elf_filename(l.argv) \in Elfs
  BY BuildAssumption DEF Accepted

-----------------------------------------------------------------------------
(***************************************************************************)
(* Every step keeps the types.                                             *)
(***************************************************************************)

LEMMA InitTypes == Init => TInv
  <1>. SUFFICES ASSUME Init PROVE TInv
    OBVIOUS
  <1>1. AnyLine \in Lines
    BY BuildAssumption DEF AnyLine
  <1>2. MakeInv
    BY InitMakeInv DEF Init
  <1>. QED
    <2>1. \A b \in Builds : ~Active(b) /\ status[b] # "running"
      BY DEF Init, Active, Ends, MakeInit, Builds
    <2>2. /\ pc \in [Builds -> Ends \cup StatementSet]
          /\ line \in [Builds -> Lines]
          /\ elf \in [Elfs -> Nat \ {0}]
      BY <1>1 DEF Init, Ends
    <2>3. builds \in 0 .. MaxBuilds /\ changes \in 0 .. MaxChanges
      BY BuildAssumption DEF Init
    <2>. QED
      BY <1>2, <2>1, <2>2, <2>3 DEF Init, TInv

(* A build goes on from a statement other than make, or from make that has *)
(* ended, to another one.                                                  *)
LEMMA MoveTypes ==
  ASSUME TInv, NEW b \in Builds, NEW next \in StatementSet \ {"ok"},
         pc' = [pc EXCEPT ![b] = next], Active(b), status[b] # "running",
         UNCHANGED << makeVars, line, opened, began, elf, torn, builds, changes >>,
         DOMAIN crt0' = DOMAIN crt0, DOMAIN part' = DOMAIN part,
         DOMAIN partition' = DOMAIN partition,
         DOMAIN gdbinit' = DOMAIN gdbinit, DOMAIN output' = DOMAIN output
  PROVE  TInv'
  <1>1. MakeInv'
    BY StutterMakeInv DEF TInv
  <1>. QED
    BY <1>1, StatementsAre DEF TInv, At, Active, Ends, Elf, makeVars

LEMMA EndTypes ==
  ASSUME TInv, NEW b \in Builds, NEW end \in {"ok", "failed"},
         pc' = [pc EXCEPT ![b] = end], Active(b), status[b] # "running", Forget(b),
         UNCHANGED << makeVars, elf, builds, changes >>,
         torn' \in {torn, torn \cup {Elf(b)}, torn \ {Elf(b)}},
         DOMAIN partition' = DOMAIN partition,
         DOMAIN gdbinit' = DOMAIN gdbinit, DOMAIN output' = DOMAIN output
  PROVE  TInv'
  <1>1. MakeInv'
    BY StutterMakeInv DEF TInv
  <1>2. AnyLine \in Lines
    BY BuildAssumption DEF AnyLine
  <1>3. Elf(b) \in Elfs
    BY LineType DEF TInv, Elf
  <1>. QED
    BY <1>1, <1>2, <1>3, StatementsAre DEF TInv, Forget, At, Active, Ends, Elf, makeVars

LEMMA BeginTypes ==
  ASSUME TInv, NEW b \in Builds, NEW l \in Lines, Begin(b, l)
  PROVE  TInv'
  <1>1. MakeInv'
    BY StutterMakeInv DEF TInv, Begin
  <1>2. elf_filename(l.argv) \in Elfs
    BY LineType DEF Begin
  <1>3. pc'[b] \in {"start_make", "read_crt0"} /\ pc' \in [Builds -> Ends \cup StatementSet]
    BY StatementsAre DEF Begin, TInv
  <1>4. builds' \in 0 .. MaxBuilds
    BY BuildAssumption DEF Begin, TInv
  <1>. QED
    <2>1. \A c \in Builds : status'[c] = "running" => c # b /\ At(c, "make")
      BY DEF TInv, Begin, At, Active, Ends, makeVars
    <2>2. \A c \in Builds : c # b => pc'[c] = pc[c] /\ line'[c] = line[c] /\ opened'[c] = opened[c]
      BY DEF TInv, Begin
    <2>3. line'[b] = l /\ opened'[b] = elf[elf_filename(l.argv)] /\ Accepted(l.argv)
      BY DEF TInv, Begin
    <2>4. \A c \in Builds : Active(c)' => Accepted(line'[c].argv) /\ opened'[c] \in 1 .. elf[Elf(c)']
      BY <1>2, <2>2, <2>3 DEF TInv, Active, Elf
    <2>. QED
      BY <1>1, <1>3, <1>4, <2>1, <2>2, <2>4 DEF TInv, Begin, At, Elf, fileVars

LEMMA RefuseTypes ==
  ASSUME TInv, NEW b \in Builds, NEW l \in Lines, Refuse(b, l)
  PROVE  TInv'
  <1>1. MakeInv'
    BY StutterMakeInv DEF TInv, Refuse
  <1>2. builds' \in 0 .. MaxBuilds
    BY BuildAssumption DEF Refuse, TInv
  <1>. QED
    <2>1. \A c \in Builds : status'[c] = "running" => c # b /\ At(c, "make")
      BY DEF TInv, Refuse, At, Active, Ends, makeVars
    <2>2. \A c \in Builds : c # b => pc'[c] = pc[c]
      BY DEF TInv, Refuse
    <2>3. pc'[b] = "failed" /\ pc' \in [Builds -> Ends \cup StatementSet]
      BY DEF TInv, Refuse, Ends
    <2>. QED
      BY <1>1, <1>2, <2>1, <2>2, <2>3 DEF TInv, Refuse, At, Active, Ends, Elf, fileVars

LEMMA MakeTypes ==
  ASSUME TInv, NEW b \in Builds, StartMakeOfCrt0(b) \/ MakeOfCrt0(b) \/ MakeReturned(b)
  PROVE  TInv'
  <1>1. CASE StartMakeOfCrt0(b)
    <2>1. StartMake(b, "crt0", << "realclean", "all" >>)
      BY <1>1 DEF StartMakeOfCrt0
    <2>2. AllCommands("crt0", << "realclean", "all" >>) \in Seq(Command)
      <3>1. AllCommands("crt0", << "realclean", "all" >>)
              = Commands("crt0", "realclean") \o Commands("crt0", "all")
        BY DEF AllCommands
      <3>2. /\ Commands("crt0", "realclean") \in Seq(Command)
            /\ Commands("crt0", "all") \in Seq(Command)
        BY CommandsType
      <3>. QED
        BY <3>1, <3>2, ConcatProperties
    <2>3. MakeInv'
      BY <1>1, <2>1, <2>2, StartMakeInv DEF StartMakeOfCrt0, TInv, Builds
    <2>4. pc' = [pc EXCEPT ![b] = "make"]
      BY <1>1, StatementsFollow DEF TInv, StartMakeOfCrt0, At, Then
    <2>5. status' = [status EXCEPT ![b] = "running"]
      BY <2>1 DEF StartMake
    <2>6. \A c \in Builds : status'[c] = "running" => pc'[c] = "make"
      BY <2>4, <2>5 DEF TInv, MakeInv, At, Builds
    <2>7. \A c \in Builds : Active(c)' => Active(c)
      BY <1>1, <2>4 DEF TInv, StartMakeOfCrt0, At, Active, Ends
    <2>8. pc' \in [Builds -> Ends \cup StatementSet]
      BY <2>4, StatementsAre DEF TInv
    <2>. QED
      BY <1>1, <2>3, <2>6, <2>7, <2>8 DEF TInv, StartMakeOfCrt0, At, Elf, fileVars
  <1>2. CASE MakeOfCrt0(b)
    <2>1. MakeStep(b)
      BY <1>2 DEF MakeOfCrt0
    <2>2. MakeInv'
      BY <2>1, StepMakeInv DEF TInv, Builds
    <2>3. \A c \in Builds : status'[c] = "running" => status[c] = "running"
      BY <2>1 DEF MakeStep, LookAtTimes, ReadInputs, WriteTarget, RemoveFiles,
                  MakeEnds, MakeFails, TInv, MakeInv, Builds
    <2>. QED
      BY <1>2, <2>2, <2>3 DEF TInv, MakeOfCrt0, At, Active, Ends, Elf, buildVars, fileVars
  <1>3. CASE MakeReturned(b)
    <2>1. pc' = [pc EXCEPT ![b] = "read_crt0"]
      BY <1>3, StatementsFollow DEF TInv, MakeReturned, At, Then
    <2>. QED
      BY <1>3, <2>1, MoveTypes, StatementsAre
      DEF MakeReturned, Active, At, Ends, fileVars
  <1>. QED
    BY <1>1, <1>2, <1>3

LEMMA StatementTypes ==
  ASSUME TInv, NEW b \in Builds,
         \/ ReadCrt0(b) \/ Export(b)
         \/ Objcopy(b) \/ ReadPartition(b) \/ RemovePartition(b)
         \/ OpenGdbinit(b) \/ WriteGdbinit(b) \/ OpenOutput(b)
  PROVE  TInv'
  <1>1. b \in DOMAIN pc /\ (pc[b] # "make" => status[b] # "running")
    BY DEF TInv, At
  <1>2. ASSUME ReadCrt0(b) \/ Export(b)
        PROVE  TInv'
    <2>1. \E next \in StatementSet \ {"ok"} : pc' = [pc EXCEPT ![b] = next]
      BY <1>1, <1>2, StatementsFollow, StatementsAre DEF ReadCrt0, Export, At, Then
    <2>. QED
      BY <1>1, <1>2, <2>1, MoveTypes DEF ReadCrt0, Export, Active, At, Ends, fileVars
  <1>3. ASSUME Objcopy(b) \/ ReadPartition(b) \/ RemovePartition(b)
        PROVE  TInv'
    <2>1. \E next \in StatementSet \ {"ok"} : pc' = [pc EXCEPT ![b] = next]
      BY <1>1, <1>3, StatementsFollow, StatementsAre
      DEF Objcopy, ReadPartition, RemovePartition, At, Then
    <2>. QED
      BY <1>1, <1>3, <2>1, MoveTypes
      DEF Objcopy, ReadPartition, RemovePartition, Active, At, Ends, fileVars
  <1>4. ASSUME OpenGdbinit(b) \/ WriteGdbinit(b) \/ OpenOutput(b)
        PROVE  TInv'
    <2>1. \E next \in StatementSet \ {"ok"} : pc' = [pc EXCEPT ![b] = next]
      BY <1>1, <1>4, StatementsFollow, StatementsAre
      DEF OpenGdbinit, WriteGdbinit, OpenOutput, At, Then
    <2>. QED
      BY <1>1, <1>4, <2>1, MoveTypes
      DEF OpenGdbinit, WriteGdbinit, OpenOutput, Active, At, Ends, fileVars
  <1>. QED
    BY <1>2, <1>3, <1>4

LEMMA LastTypes ==
  ASSUME TInv, NEW b \in Builds, WriteOutput(b) \/ Fail(b)
  PROVE  TInv'
  <1>1. CASE WriteOutput(b)
    <2>1. pc' = [pc EXCEPT ![b] = "ok"]
      BY <1>1, StatementsFollow DEF TInv, WriteOutput, At, Then
    <2>. QED
      BY <1>1, <2>1, EndTypes DEF WriteOutput, TInv, Active, At, Ends
  <1>2. CASE Fail(b)
    BY <1>2, EndTypes DEF Fail, TInv, At
  <1>. QED
    BY <1>1, <1>2

LEMMA WorldTypes ==
  ASSUME TInv,
         \/ \E e \in WellNamed : Link(e)
         \/ \E f \in Sources : Edit(f)
  PROVE  TInv'
  <1>1. ASSUME NEW e \in WellNamed, Link(e)
        PROVE  TInv'
    <2>1. MakeInv'
      BY <1>1, StutterMakeInv DEF TInv, Link
    <2>2. \A x \in Elfs : elf'[x] \in Nat \ {0} /\ elf'[x] >= elf[x]
      BY <1>1, BuildAssumption DEF TInv, Link
    <2>3. \A b \in Builds : Active(b) => opened[b] \in 1 .. elf'[Elf(b)]
      BY <2>2, LineType DEF TInv, Elf
    <2>4. changes' \in 0 .. MaxChanges
      BY <1>1, BuildAssumption DEF TInv, Link
    <2>. QED
      BY <1>1, <2>1, <2>2, <2>3, <2>4
      DEF TInv, Link, makeVars, buildVars, At, Active, Elf
  <1>2. ASSUME NEW f \in Sources, Edit(f)
        PROVE  TInv'
    <2>1. MakeInv'
      BY <1>2, EditMakeInv DEF TInv, Edit, Sources
    <2>2. changes' \in 0 .. MaxChanges
      BY <1>2, BuildAssumption DEF TInv, Edit
    <2>. QED
      BY <1>2, <2>1, <2>2 DEF TInv, Edit, buildVars, fileVars, At, Active, Elf
  <1>. QED
    BY <1>1, <1>2

LEMMA StepTypes == TInv /\ [Next]_vars => TInv'
  <1>1. TInv /\ (\E e \in WellNamed \cap Changing : Link(e)) => TInv'
    BY WorldTypes
  <1>2. TInv /\ (\E f \in Sources \cap Changing : Edit(f)) => TInv'
    BY WorldTypes
  <1>3. TInv /\ UNCHANGED vars => TInv'
    BY StutterMakeInv DEF TInv, vars, buildVars, fileVars, makeVars, At, Active, Elf
  <1>4. TInv /\ Next => TInv'
    BY <1>1, <1>2, BeginTypes, RefuseTypes, MakeTypes, StatementTypes, LastTypes
    DEF Next, Step
  <1>. QED
    BY <1>3, <1>4

(* No run of make has begun later than now.                                *)
BeganInv ==
  /\ DOMAIN began = Builds /\ clock \in Nat
  /\ \A b \in Builds : began[b] \in 0 .. clock

LEMMA StepBegan == BeganInv /\ [Next]_vars => BeganInv'
  <1>. SUFFICES ASSUME BeganInv, [Next]_vars PROVE BeganInv'
    OBVIOUS
  <1>1. ASSUME NEW b \in Builds, NEW l \in Lines, Begin(b, l) \/ Refuse(b, l)
        PROVE  UNCHANGED << began, clock >>
    BY <1>1 DEF Begin, Refuse, makeVars
  <1>2. ASSUME NEW b \in Builds, Step(b)
        PROVE  /\ clock' \in {clock, clock + 1}
               /\ \/ began' = began
                  \/ \E t \in {0, clock} : began' = [began EXCEPT ![b] = t]
    <2>1. CASE StartMakeOfCrt0(b)
      BY <2>1 DEF StartMakeOfCrt0
    <2>2. CASE MakeOfCrt0(b)
      BY <2>2 DEF MakeOfCrt0, MakeStep, LookAtTimes, ReadInputs, WriteTarget,
                  RemoveFiles, MakeEnds, MakeFails, buildVars
    <2>3. CASE WriteOutput(b) \/ Fail(b)
      BY <2>3 DEF WriteOutput, Fail, Forget, makeVars
    <2>4. CASE \/ MakeReturned(b) \/ ReadCrt0(b) \/ Export(b)
               \/ Objcopy(b) \/ ReadPartition(b) \/ RemovePartition(b)
               \/ OpenGdbinit(b) \/ WriteGdbinit(b) \/ OpenOutput(b)
      BY <2>4 DEF MakeReturned, ReadCrt0, Export, Objcopy, ReadPartition, RemovePartition,
                  OpenGdbinit, WriteGdbinit, OpenOutput, makeVars
    <2>. QED
      BY <1>2, <2>1, <2>2, <2>3, <2>4 DEF Step
  <1>3. ASSUME NEW e, Link(e)
        PROVE  UNCHANGED << began, clock >>
    BY <1>3 DEF Link, makeVars, buildVars
  <1>4. ASSUME NEW f, Edit(f)
        PROVE  began' = began /\ clock' = clock + 1
    BY <1>4 DEF Edit, EditSource, buildVars
  <1>5. CASE \E b \in Builds : Step(b)
    BY <1>2, <1>5 DEF BeganInv
  <1>6. CASE UNCHANGED << began, clock >>
    BY <1>6 DEF BeganInv
  <1>7. CASE began' = began /\ clock' = clock + 1
    BY <1>7 DEF BeganInv
  <1>. QED
    BY <1>1, <1>3, <1>4, <1>5, <1>6, <1>7 DEF Next, vars, makeVars, buildVars

LEMMA BeganAlways == Spec => []BeganInv
  <1>1. Init => BeganInv
    BY DEF Init, MakeInit, BeganInv
  <1>. QED
    BY <1>1, StepBegan, PTL DEF Spec

LEMMA TypesAlways == Spec => []TInv
  BY InitTypes, StepTypes, PTL DEF Spec

(* Every reachable state is well typed, and make runs only while its build *)
(* waits for it.                                                           *)
THEOREM TypeCorrect == Spec => []TypeOK
  <1>1. TInv /\ BeganInv => TypeOK
    BY MakeInvType DEF TInv, BeganInv, TypeOK, StatementSet
  <1>. QED
    BY <1>1, TypesAlways, BeganAlways, PTL

-----------------------------------------------------------------------------
(***************************************************************************)
(* Builds that keep apart.                                                 *)
(***************************************************************************)
ApartInv ==
  \A b, c \in Builds : b # c /\ Active(b) /\ Active(c) => Apart(line[b], line[c])

(* They differ in the files they write.                                    *)
LEMMA ApartDiffers ==
  ASSUME NEW l, NEW m, Apart(l, m)
  PROVE  /\ l.cwd # m.cwd
         /\ dirname[elf_filename(l.argv)] # dirname[elf_filename(m.argv)]
         /\ Apart(m, l)
  <1>1. \A x \in {l, m} :
          /\ << x.cwd, "partition" >> \in Writes(x)
          /\ << dirname[elf_filename(x.argv)], "gdbinit" >> \in Writes(x)
    BY DEF Writes
  <1>2. Writes(l) \cap Writes(m) = {}
    BY DEF Apart
  <1>3. Apart(m, l)
    BY DEF Apart
  <1>. QED
    BY <1>1, <1>2, <1>3

(* What a step of one build leaves alone of the others.                    *)
LEMMA StepFrame ==
  ASSUME TInv, NEW b \in Builds, NEW c \in Builds \ {b}, Step(c)
  PROVE  /\ pc'[b] = pc[b] /\ line'[b] = line[b] /\ opened'[b] = opened[b]
         /\ crt0'[b] = crt0[b] /\ part'[b] = part[b]
         /\ elf' = elf
  <1>2. CASE MakeOfCrt0(c)
    BY <1>2 DEF MakeOfCrt0, buildVars, fileVars
  <1>3. CASE StartMakeOfCrt0(c) \/ MakeReturned(c) \/ ReadCrt0(c) \/ Export(c)
    BY <1>3 DEF StartMakeOfCrt0, MakeReturned, ReadCrt0, Export, Continue, fileVars, TInv
  <1>4. CASE Objcopy(c) \/ ReadPartition(c) \/ RemovePartition(c)
    BY <1>4 DEF Objcopy, ReadPartition, RemovePartition, Continue, fileVars, TInv
  <1>5. CASE OpenGdbinit(c) \/ WriteGdbinit(c) \/ OpenOutput(c)
    BY <1>5 DEF OpenGdbinit, WriteGdbinit, OpenOutput, Continue, TInv
  <1>6. CASE WriteOutput(c) \/ Fail(c)
    BY <1>6 DEF WriteOutput, Fail, Continue, Forget, TInv
  <1>. QED
    BY <1>2, <1>3, <1>4, <1>5, <1>6 DEF Step

LEMMA StepOwnLine ==
  ASSUME TInv, NEW b \in Builds, Step(b), Active(b)'
  PROVE  /\ Active(b) /\ line' = line /\ opened' = opened /\ elf' = elf
  <1>1. ~Fail(b) /\ ~WriteOutput(b)
    BY StatementsFollow DEF Fail, WriteOutput, Active, Ends, TInv, At, Then
  <1>2. CASE MakeOfCrt0(b)
    BY <1>2 DEF MakeOfCrt0, buildVars, fileVars, Active, At, Ends
  <1>3. CASE StartMakeOfCrt0(b) \/ MakeReturned(b) \/ ReadCrt0(b) \/ Export(b)
    BY <1>3 DEF StartMakeOfCrt0, MakeReturned, ReadCrt0, Export, fileVars, Active, At, Ends
  <1>4. CASE Objcopy(b) \/ ReadPartition(b) \/ RemovePartition(b)
    BY <1>4 DEF Objcopy, ReadPartition, RemovePartition, fileVars, Active, At, Ends
  <1>5. CASE OpenGdbinit(b) \/ WriteGdbinit(b) \/ OpenOutput(b)
    BY <1>5 DEF OpenGdbinit, WriteGdbinit, OpenOutput, Active, At, Ends
  <1>. QED
    BY <1>1, <1>2, <1>3, <1>4, <1>5 DEF Step

LEMMA StepApart ==
  ASSUME Careful, TInv, ApartInv, [Next]_vars
  PROVE  ApartInv'
  <1>1. ASSUME NEW b \in Builds, NEW l \in Lines, Begin(b, l)
        PROVE  ApartInv'
    <2>1. \A c \in Builds \ {b} : pc'[c] = pc[c] /\ line'[c] = line[c]
      BY <1>1 DEF Begin, TInv
    <2>2. line'[b] = l
      BY <1>1 DEF Begin, TInv
    <2>3. \A c \in Builds \ {b} : Active(c) => Apart(l, line[c]) /\ Apart(line[c], l)
      BY <1>1, ApartDiffers DEF Begin
    <2>. QED
      BY <2>1, <2>2, <2>3 DEF ApartInv, Active
  <1>2. ASSUME NEW b \in Builds, NEW l \in Lines, Refuse(b, l)
        PROVE  ApartInv'
    BY <1>2 DEF Refuse, ApartInv, Active, Ends, TInv
  <1>3. ASSUME NEW b \in Builds, Step(b)
        PROVE  ApartInv'
    <2>1. \A c \in Builds \ {b} : pc'[c] = pc[c] /\ line'[c] = line[c]
      BY <1>3, StepFrame
    <2>2. Active(b)' => Active(b) /\ line' = line
      BY <1>3, StepOwnLine DEF Active, Ends
    <2>. QED
      BY <2>1, <2>2 DEF ApartInv, Active
  <1>4. ASSUME \/ \E e \in WellNamed : Link(e)
               \/ \E f \in Sources : Edit(f)
               \/ UNCHANGED vars
        PROVE  ApartInv'
    BY <1>4 DEF Link, Edit, vars, buildVars, ApartInv, Active
  <1>. QED
    BY <1>1, <1>2, <1>3, <1>4 DEF Next

-----------------------------------------------------------------------------
(***************************************************************************)
(* What a build has read is of its ELF file and of the crt0 it was given.  *)
(***************************************************************************)
HasPartition == {"remove_partition", "gdbinit", "write_gdbinit", "output", "write_output"}

HasCrt0 == {"export", "objcopy", "read_partition"} \cup HasPartition

Crt0Right(b) ==
  /\ crt0_path(line[b].argv) \in OwnCrt0 => crt0[b] = {<< crt0_path(line[b].argv), 1 >>}
  /\ Default(b) => \A x \in crt0[b] : x[1] \in Sources

(* partition.fae, from objcopy to its removal.                             *)
Extracted(b) ==
  pc[b] \in {"read_partition", "remove_partition"}
    => partition[Cwd(b)] = << << Elf(b), elf[Elf(b)] >> >>

Own(b) ==
  /\ opened[b] = elf[Elf(b)]
  /\ Extracted(b)
  /\ pc[b] \in HasPartition => part[b] = << Elf(b), elf[Elf(b)] >>
  /\ pc[b] \in HasCrt0 => Crt0Right(b)

OwnInv == \A b \in Builds : Active(b) => Own(b)

(* The partition of a build is not touched by the others.                  *)
LEMMA PartitionFrame ==
  ASSUME TInv, NEW b \in Builds, NEW c \in Builds, Step(c), Cwd(b) # Cwd(c)
  PROVE  partition'[Cwd(b)] = partition[Cwd(b)]
  <1>1. Cwd(b) \in DOMAIN partition
    BY DEF TInv, Cwd
  <1>2. CASE StartMakeOfCrt0(c) \/ MakeOfCrt0(c) \/ MakeReturned(c)
    BY <1>2 DEF StartMakeOfCrt0, MakeOfCrt0, MakeReturned, fileVars
  <1>3. CASE ReadCrt0(c) \/ Export(c) \/ ReadPartition(c)
    BY <1>3 DEF ReadCrt0, Export, ReadPartition, fileVars
  <1>4. CASE Objcopy(c) \/ RemovePartition(c)
    BY <1>1, <1>4 DEF Objcopy, RemovePartition
  <1>5. CASE OpenGdbinit(c) \/ WriteGdbinit(c) \/ OpenOutput(c) \/ WriteOutput(c) \/ Fail(c)
    BY <1>5 DEF OpenGdbinit, WriteGdbinit, OpenOutput, WriteOutput, Fail
  <1>. QED
    BY <1>2, <1>3, <1>4, <1>5 DEF Step

LEMMA OthersOwn ==
  ASSUME TInv, ApartInv, OwnInv, NEW c \in Builds, Step(c),
         NEW b \in Builds \ {c}, Active(b)'
  PROVE  Own(b)'
  <1>1. /\ pc'[b] = pc[b] /\ line'[b] = line[b] /\ opened'[b] = opened[b]
        /\ crt0'[b] = crt0[b] /\ part'[b] = part[b] /\ elf' = elf
    BY StepFrame
  <1>2. Active(b) /\ Own(b)
    BY <1>1 DEF Active, OwnInv
  <1>3. Active(c)
    BY DEF Step, Active, Ends, At, StartMakeOfCrt0, MakeOfCrt0, MakeReturned,
           ReadCrt0, Export, Objcopy, ReadPartition, RemovePartition, OpenGdbinit,
           WriteGdbinit, OpenOutput, WriteOutput, Fail
  <1>4. Cwd(b) # Cwd(c)
    BY <1>2, <1>3, ApartDiffers DEF ApartInv, Cwd
  <1>5. partition'[Cwd(b)] = partition[Cwd(b)]
    BY <1>4, PartitionFrame
  <1>. QED
    BY <1>1, <1>2, <1>5 DEF Own, Extracted, Crt0Right, Elf, Cwd, Default

LEMMA Crt0Type ==
  ASSUME TInv, NEW b \in Builds, ReadCrt0(b)
  PROVE  Crt0Right(b)'
  <1>1. crt0'[b] = Crt0File(b)[1] /\ line' = line /\ Crt0File(b) # << >>
    BY DEF ReadCrt0, TInv, NoFile
  <1>2. ASSUME crt0_path(line[b].argv) \in OwnCrt0
        PROVE  crt0'[b] = {<< crt0_path(line[b].argv), 1 >>}
    BY <1>1, <1>2, BuildAssumption DEF Crt0File, Default
  <1>3. ASSUME Default(b)
        PROVE  \A x \in crt0'[b] : x[1] \in Sources
    <2>1. crt0'[b] = disk["build/crt0.fae"].of
      BY <1>1, <1>3 DEF Crt0File, NoFile
    <2>2. disk["build/crt0.fae"].of \in Origins(clock)
      BY DEF TInv, MakeInv, Targets
    <2>. QED
      BY <2>1, <2>2 DEF Origins
  <1>. QED
    BY <1>1, <1>2, <1>3 DEF Crt0Right, Default

LEMMA SelfOwns ==
  ASSUME TInv, OwnInv, NEW b \in Builds, Step(b), Active(b)'
  PROVE  Own(b)'
  <1>1. Active(b) /\ line' = line /\ opened' = opened /\ elf' = elf
    BY StepOwnLine
  <1>2. Own(b)
    BY <1>1 DEF OwnInv
  <1>3. b \in DOMAIN pc /\ b \in DOMAIN crt0 /\ b \in DOMAIN part /\ Cwd(b) \in DOMAIN partition
    BY DEF TInv, Cwd
  <1>4. opened'[b] = elf'[Elf(b)']
    BY <1>1, <1>2 DEF Own, Elf
  <1>5. CASE StartMakeOfCrt0(b) \/ MakeOfCrt0(b) \/ MakeReturned(b)
    <2>1. pc'[b] \in {"make", "read_crt0"}
      BY <1>3, <1>5, StatementsFollow
      DEF StartMakeOfCrt0, MakeOfCrt0, MakeReturned, At, Then, buildVars
    <2>. QED
      BY <1>4, <2>1 DEF Own, Extracted, HasPartition, HasCrt0
  <1>6. CASE ReadCrt0(b)
    <2>1. pc'[b] = "export"
      BY <1>3, <1>6, StatementsFollow DEF ReadCrt0, At, Then
    <2>. QED
      BY <1>4, <1>6, <2>1, Crt0Type DEF Own, Extracted, HasPartition
  <1>7. ASSUME UNCHANGED << line, crt0 >>, pc[b] \in HasCrt0
        PROVE  Crt0Right(b)'
    BY <1>2, <1>7 DEF Own, Crt0Right, Default
  <1>8. CASE Export(b)
    <2>1. pc[b] = "export" /\ pc'[b] = "objcopy"
      BY <1>3, <1>8, StatementsFollow DEF Export, At, Then
    <2>. QED
      BY <1>4, <1>7, <1>8, <2>1 DEF Export, Own, Extracted, HasPartition, HasCrt0
  <1>9. CASE Objcopy(b)
    <2>1. pc[b] = "objcopy" /\ pc'[b] = "read_partition"
      BY <1>3, <1>9, StatementsFollow DEF Objcopy, At, Then
    <2>2. partition'[Cwd(b)] = << << Elf(b), elf[Elf(b)] >> >>
      BY <1>3, <1>9 DEF Objcopy
    <2>. QED
      BY <1>1, <1>4, <1>7, <1>9, <2>1, <2>2
      DEF Objcopy, Own, Extracted, HasPartition, HasCrt0, Cwd, Elf
  <1>10. CASE ReadPartition(b)
    <2>1. pc[b] = "read_partition" /\ pc'[b] = "remove_partition"
      BY <1>3, <1>10, StatementsFollow DEF ReadPartition, At, Then
    <2>2. partition[Cwd(b)] = << << Elf(b), elf[Elf(b)] >> >> /\ partition' = partition
      BY <1>2, <1>10, <2>1 DEF ReadPartition, Own, Extracted, fileVars
    <2>3. part'[b] = << Elf(b), elf[Elf(b)] >>
      BY <1>3, <1>10, <2>2 DEF ReadPartition
    <2>. QED
      BY <1>1, <1>4, <1>7, <1>10, <2>1, <2>2, <2>3
      DEF ReadPartition, Own, Extracted, HasPartition, HasCrt0, Cwd, Elf
  <1>11. ASSUME UNCHANGED << line, part, elf >>, pc[b] \in HasPartition
         PROVE  part'[b] = << Elf(b)', elf'[Elf(b)'] >>
    BY <1>2, <1>11 DEF Own, Elf
  <1>12. CASE RemovePartition(b) \/ OpenGdbinit(b) \/ WriteGdbinit(b) \/ OpenOutput(b)
    <2>1. pc[b] \in HasPartition /\ pc'[b] \in HasPartition \ {"remove_partition"}
      BY <1>3, <1>12, StatementsFollow
      DEF RemovePartition, OpenGdbinit, WriteGdbinit, OpenOutput, At, Then, HasPartition
    <2>2. UNCHANGED << line, crt0, part, elf >>
      BY <1>12 DEF RemovePartition, OpenGdbinit, WriteGdbinit, OpenOutput
    <2>. QED
      BY <1>4, <1>7, <1>11, <2>1, <2>2 DEF Own, Extracted, HasPartition, HasCrt0
  <1>13. CASE WriteOutput(b) \/ Fail(b)
    BY <1>3, <1>13, StatementsFollow DEF WriteOutput, Fail, At, Then, Active, Ends
  <1>. QED
    BY <1>5, <1>6, <1>8, <1>9, <1>10, <1>12, <1>13 DEF Step

LEMMA StepOwns ==
  ASSUME Careful, TInv, ApartInv, OwnInv, [Next]_vars
  PROVE  OwnInv'
  <1>1. ASSUME NEW b \in Builds, NEW l \in Lines, Begin(b, l)
        PROVE  OwnInv'
    <2>1. ASSUME NEW c \in Builds \ {b}, Active(c)'
          PROVE  Own(c)'
      BY <1>1, <2>1 DEF Begin, TInv, OwnInv, Active, Own, Extracted, Crt0Right,
                        Elf, Cwd, Default, fileVars
    <2>2. Own(b)'
      <3>1. pc'[b] \in {"start_make", "read_crt0"} /\ opened'[b] = elf'[Elf(b)']
        BY <1>1 DEF Begin, TInv, Elf, fileVars
      <3>. QED
        BY <3>1 DEF Own, Extracted, HasPartition, HasCrt0
    <2>. QED
      BY <2>1, <2>2 DEF OwnInv
  <1>2. ASSUME NEW b \in Builds, NEW l \in Lines, Refuse(b, l)
        PROVE  OwnInv'
    <2>1. \A c \in Builds : Active(c)' => pc'[c] = pc[c] /\ Active(c)
      BY <1>2 DEF Refuse, TInv, Active, Ends
    <2>. QED
      BY <1>2, <2>1 DEF Refuse, OwnInv, Own, Extracted, Crt0Right, Elf, Cwd, Default, fileVars
  <1>3. ASSUME NEW c \in Builds, Step(c)
        PROVE  OwnInv'
    BY <1>3, OthersOwn, SelfOwns DEF OwnInv, Active, Ends
  <1>4. ASSUME NEW e \in WellNamed, Link(e)
        PROVE  OwnInv'
    <2>1. \A b \in Builds : Active(b) => Elf(b) # e
      BY <1>4 DEF Link
    <2>2. \A x \in Elfs \ {e} : elf'[x] = elf[x]
      BY <1>4 DEF Link, TInv
    <2>3. \A b \in Builds : Active(b) => Elf(b) \in Elfs
      BY LineType DEF TInv, Elf
    <2>. QED
      BY <1>4, <2>1, <2>2, <2>3
      DEF Link, OwnInv, Active, Own, Extracted, Crt0Right, Elf, Cwd, Default, buildVars
  <1>5. ASSUME \/ \E f \in Sources : Edit(f)
               \/ UNCHANGED vars
        PROVE  OwnInv'
    BY <1>5 DEF Edit, vars, OwnInv, Active, Own, Extracted, Crt0Right, Elf, Cwd, Default,
                buildVars, fileVars
  <1>. QED
    BY <1>1, <1>2, <1>3, <1>4, <1>5 DEF Next

-----------------------------------------------------------------------------
(***************************************************************************)
(* A build that succeeds wrote the FAE file of its ELF file.               *)
(***************************************************************************)

(* The value of an option that was given.                                  *)
LEMMA ValueOf ==
  ASSUME NEW argv, Accepted(argv), NEW i \in OptionAt(argv), NEW default
  PROVE  Value(argv, argv[i], default) = argv[i + 1]
  <1>1. /\ Len(argv) = 1 => OptionAt(argv) = {}
        /\ Len(argv) = 3 => OptionAt(argv) = {1}
        /\ Len(argv) = 5 => OptionAt(argv) = {1, 3}
    <2>1. 1 .. 0 = {} /\ 1 .. 2 = {1, 2} /\ 1 .. 4 = {1, 2, 3, 4}
      OBVIOUS
    <2>2. 1 % 2 = 1 /\ 2 % 2 = 0 /\ 3 % 2 = 1 /\ 4 % 2 = 0
      OBVIOUS
    <2>3. ASSUME Len(argv) = 1 PROVE OptionAt(argv) = {}
      BY <2>3 DEF OptionAt
    <2>4. ASSUME Len(argv) = 3 PROVE OptionAt(argv) = {1}
      <3>1. OptionAt(argv) = {j \in {1, 2} : j % 2 = 1}
        BY <2>1, <2>4 DEF OptionAt
      <3>. QED
        BY <2>2, <3>1
    <2>5. ASSUME Len(argv) = 5 PROVE OptionAt(argv) = {1, 3}
      <3>1. OptionAt(argv) = {j \in {1, 2, 3, 4} : j % 2 = 1}
        BY <2>1, <2>5 DEF OptionAt
      <3>. QED
        BY <2>2, <3>1
    <2>. QED
      BY <2>3, <2>4, <2>5
  <1>2. \A j \in OptionAt(argv) : argv[j] = argv[i] => j = i
    BY <1>1 DEF Accepted
  <1>3. (CHOOSE j \in OptionAt(argv) : argv[j] = argv[i]) = i
    BY <1>2
  <1>. QED
    BY <1>3 DEF Value

LEMMA WritesRight ==
  ASSUME TInv, OwnInv, NEW b \in Builds, WriteOutput(b)
  PROVE  OutputRight(b)
  <1>. DEFINE argv == line[b].argv
              given == {i \in OptionAt(argv) : argv[i] = CLI_OPTION_CRT0_PATH}
              aligned == {i \in OptionAt(argv) : argv[i] = CLI_OPTION_ALIGN_TEXT}
              out == output'[Elf(b)]
  <1>1. pc[b] = "write_output" /\ Active(b)
    BY DEF WriteOutput, At, Active, Ends
  <1>2. Own(b) /\ Accepted(argv)
    BY <1>1 DEF OwnInv, TInv
  <1>3. out = << << Elf(b), opened[b] >>, crt0[b], align_text(argv), part[b] >>
    BY <1>2, LineType DEF WriteOutput, TInv, Elf
  <1>4. out[1] = << Elf(b), elf[Elf(b)] >> /\ out[4] = out[1]
    BY <1>1, <1>2, <1>3 DEF Own, HasPartition
  <1>5. Crt0Right(b)
    BY <1>1, <1>2 DEF Own, HasCrt0, HasPartition
  <1>6. ASSUME NEW i \in given, argv[i + 1] \in OwnCrt0
        PROVE  out[2] = {<< argv[i + 1], 1 >>}
    <2>1. crt0_path(argv) = argv[i + 1]
      BY <1>2, ValueOf DEF crt0_path
    <2>. QED
      BY <1>3, <1>5, <1>6, <2>1 DEF Crt0Right
  <1>7. ASSUME given = {}
        PROVE  \A x \in out[2] : x[1] \in Sources
    <2>1. crt0_path(argv) = "None"
      BY <1>7 DEF crt0_path, Value
    <2>. QED
      BY <1>3, <1>5, <2>1 DEF Crt0Right, Default
  <1>8. ASSUME NEW i \in aligned
        PROVE  out[3] = argv[i + 1]
    <2>1. align_text(argv) = argv[i + 1]
      BY <1>2, ValueOf DEF align_text
    <2>. QED
      BY <1>3, <2>1
  <1>. QED
    BY <1>4, <1>6, <1>7, <1>8 DEF OutputRight

LEMMA OnlyWriteSucceeds ==
  ASSUME TInv, Next, NEW b \in Builds, Succeeds(b)
  PROVE  WriteOutput(b)
  <1>1. Active(b) /\ pc[b] # "ok" /\ pc'[b] = "ok" /\ b \in DOMAIN pc
    BY DEF Succeeds, Active, Ends, TInv
  <1>2. ASSUME NEW c \in Builds \ {b}, Step(c)
        PROVE  FALSE
    BY <1>1, <1>2, StepFrame
  <1>3. ASSUME NEW c \in Builds, NEW l \in Lines, Begin(c, l) \/ Refuse(c, l)
        PROVE  FALSE
    BY <1>1, <1>3 DEF Begin, Refuse, TInv
  <1>4. ASSUME \/ \E e \in WellNamed : Link(e)
               \/ \E f \in Sources : Edit(f)
        PROVE  FALSE
    BY <1>1, <1>4 DEF Link, Edit, buildVars
  <1>5. Step(b)
    BY <1>2, <1>3, <1>4 DEF Next
  <1>6. ~StartMakeOfCrt0(b) /\ ~MakeOfCrt0(b) /\ ~MakeReturned(b)
    BY <1>1, StatementsFollow DEF StartMakeOfCrt0, MakeOfCrt0, MakeReturned, At, Then, buildVars
  <1>7. ~ReadCrt0(b) /\ ~Export(b)
    BY <1>1, StatementsFollow DEF ReadCrt0, Export, At, Then
  <1>8. ~Objcopy(b) /\ ~ReadPartition(b) /\ ~RemovePartition(b)
    BY <1>1, StatementsFollow DEF Objcopy, ReadPartition, RemovePartition, At, Then
  <1>9. ~OpenGdbinit(b) /\ ~WriteGdbinit(b) /\ ~OpenOutput(b) /\ ~Fail(b)
    BY <1>1, StatementsFollow DEF OpenGdbinit, WriteGdbinit, OpenOutput, Fail, At, Then
  <1>. QED
    BY <1>5, <1>6, <1>7, <1>8, <1>9 DEF Step

LEMMA InitCareful == Init => ApartInv /\ OwnInv
  BY DEF Init, ApartInv, OwnInv, Active, Ends

LEMMA CarefulAlways == Careful => (Spec => [](ApartInv /\ OwnInv))
  <1>. SUFFICES ASSUME Careful
                PROVE  Spec => [](ApartInv /\ OwnInv)
    OBVIOUS
  <1>1. TInv /\ ApartInv /\ OwnInv /\ [Next]_vars => (ApartInv /\ OwnInv)'
    BY StepApart, StepOwns
  <1>. QED
    BY <1>1, InitCareful, TypesAlways, PTL DEF Spec

(* Whatever builds run at the same time, as long as they keep apart: one   *)
(* that succeeds leaves the FAE file of its ELF file as it is then.        *)
THEOREM OutputIsRight == Careful => (Spec => OutputIsOfElf)
  <1>. SUFFICES ASSUME Careful
                PROVE  Spec => OutputIsOfElf
    OBVIOUS
  <1>1. TInv /\ OwnInv /\ [Next]_vars
          => [\A b \in Builds : Succeeds(b) => OutputRight(b)]_vars
    BY OnlyWriteSucceeds, WritesRight
  <1>. QED
    BY <1>1, CarefulAlways, TypesAlways, PTL DEF Spec, OutputIsOfElf

-----------------------------------------------------------------------------
(***************************************************************************)
(* The two files of a build match.                                         *)
(***************************************************************************)
Writing == {"write_gdbinit", "output", "write_output"}

(* gdbinit while its build has not written the output.                     *)
Pending(b) ==
  /\ At(b, "write_gdbinit") => gdbinit[Dir(b)] = Truncated
  /\ pc[b] \in {"output", "write_output"}
       => gdbinit[Dir(b)] = << << Elf(b), opened[b] >>, crt0[b],
                               align_text(line[b].argv) >>

PendingInv == \A b \in Builds : Pending(b)

(* gdbinit is of e, and no build of e is between its two files.            *)
Settled(e) ==
  /\ \A b \in Builds : Elf(b) = e => pc[b] \notin Writing
  /\ gdbinit[dirname[e]] \notin {NoFile, Truncated}
  /\ gdbinit[dirname[e]][1][1] = e

Matches(e) ==
  output[e] \notin {NoFile, Truncated} /\ gdbinit[dirname[e]] = SubSeq(output[e], 1, 3)

LEMMA GdbinitMatchesIs ==
  GdbinitMatches <=> \A e \in Elfs \ torn : Settled(e) => Matches(e)
  BY DEF GdbinitMatches, Settled, Matches, Writing

LEMMA GdbinitMatchesNext ==
  (\A e \in Elfs \ torn' : Settled(e)' => Matches(e)') => GdbinitMatches'
  BY DEF GdbinitMatches, Settled, Matches, Writing

(* The first three elements of four.                                       *)
LEMMA FirstThree ==
  ASSUME NEW a, NEW b, NEW c, NEW d
  PROVE  SubSeq(<< a, b, c, d >>, 1, 3) = << a, b, c >>
  <1>. DEFINE S == {a, b, c, d}
              q == << a, b, c, d >>
  <1>1. q \in Seq(S) /\ Len(q) = 4 /\ << a, b, c >> \in Seq(S)
    OBVIOUS
  <1>2. q[1] = a /\ q[2] = b /\ q[3] = c /\ a \in S /\ b \in S /\ c \in S
    OBVIOUS
  <1>3. /\ SubSeq(q, 1, 3) \in Seq(S)
        /\ Len(SubSeq(q, 1, 3)) = 3
        /\ \A i \in 1 .. 3 : SubSeq(q, 1, 3)[i] = q[i]
    <2>. HIDE DEF q, S
    <2>1. \A i \in 1 .. 3 : q[i] \in S
      <3>1. 1 .. 3 = {1, 2, 3}
        OBVIOUS
      <3>. QED
        BY <1>2, <3>1
    <2>2. /\ SubSeq(q, 1, 3) \in Seq(S)
          /\ Len(SubSeq(q, 1, 3)) = (IF 1 <= 3 THEN 3 - 1 + 1 ELSE 0)
          /\ \A i \in 1 .. 3 - 1 + 1 : SubSeq(q, 1, 3)[i] = q[1 + i - 1]
      BY <2>1, SubSeqProperties
    <2>. QED
      BY <2>2
  <1>. DEFINE t == << a, b, c >>
  <1>4. t \in Seq(S) /\ Len(t) = 3 /\ t[1] = a /\ t[2] = b /\ t[3] = c
    OBVIOUS
  <1>5. \A i \in 1 .. 3 : SubSeq(q, 1, 3)[i] = t[i]
    <2>. HIDE DEF q, S, t
    <2>1. 1 .. 3 = {1, 2, 3}
      OBVIOUS
    <2>. QED
      BY <1>2, <1>3, <1>4, <2>1
  <1>. HIDE DEF q, S, t
  <1>6. SubSeq(q, 1, 3) = t
    BY <1>3, <1>4, <1>5, SeqEqual
  <1>. QED
    BY <1>6 DEF q, t

LEMMA ActiveDir ==
  ASSUME TInv, NEW b \in Builds, Active(b)
  PROVE  Elf(b) \in Elfs /\ Dir(b) \in DOMAIN gdbinit
  BY LineType DEF TInv, Elf, Dir

LEMMA WritingActive ==
  ASSUME NEW b \in Builds, pc[b] \in Writing
  PROVE  Active(b)
  BY DEF Writing, Active, Ends

(* Steps that touch neither file, nor take a build between them.           *)
LEMMA QuietGdbinit ==
  ASSUME PendingInv, GdbinitMatches, UNCHANGED << gdbinit, output, torn >>,
         \A b \in Builds : pc[b] \in Writing \/ pc'[b] \in Writing =>
            /\ pc'[b] = pc[b] /\ line'[b] = line[b]
            /\ opened'[b] = opened[b] /\ crt0'[b] = crt0[b]
  PROVE  PendingInv' /\ GdbinitMatches'
  <1>1. PendingInv'
    <2> SUFFICES ASSUME NEW b \in Builds PROVE Pending(b)'
      BY DEF PendingInv
    <2>1. Pending(b)
      BY DEF PendingInv
    <2>2. CASE pc'[b] \in Writing
      <3>1. /\ pc'[b] = pc[b] /\ line'[b] = line[b]
            /\ opened'[b] = opened[b] /\ crt0'[b] = crt0[b]
        BY <2>2
      <3>. QED
        BY <2>1, <3>1 DEF Pending, At, Dir, Elf
    <2>3. CASE pc'[b] \notin Writing
      BY <2>3 DEF Pending, At, Writing
    <2>. QED
      BY <2>2, <2>3
  <1>2. \A e \in Elfs : Settled(e)' => Settled(e)
    BY DEF Settled, Elf
  <1>3. \A e \in Elfs : Matches(e) => Matches(e)'
    BY DEF Matches
  <1>. QED
    BY <1>1, <1>2, <1>3, GdbinitMatchesIs, GdbinitMatchesNext

(* The step of a build that is about to write one of the two files, or has *)
(* written the first of them.                                              *)
LEMMA OpenGdbinitMatches ==
  ASSUME TInv, ApartInv, PendingInv, GdbinitMatches, NEW c \in Builds, OpenGdbinit(c)
  PROVE  PendingInv' /\ GdbinitMatches'
  <1>1. Active(c) /\ c \in DOMAIN pc
    BY DEF OpenGdbinit, At, Active, Ends, TInv
  <1>2. pc' = [pc EXCEPT ![c] = "write_gdbinit"]
    BY <1>1, StatementsFollow DEF OpenGdbinit, At, Then
  <1>3. gdbinit' = [gdbinit EXCEPT ![Dir(c)] = Truncated] /\ Dir(c) \in DOMAIN gdbinit
    BY <1>1, ActiveDir DEF OpenGdbinit
  <1>4. UNCHANGED << line, opened, crt0, output, torn >>
    BY DEF OpenGdbinit
  <1>5. ASSUME NEW b \in Builds
        PROVE  Pending(b)'
    <2>1. CASE b = c
      BY <1>1, <1>2, <1>3, <1>4, <2>1 DEF Pending, At, Dir, Elf
    <2>2. ASSUME b # c, pc'[b] \in Writing
          PROVE  gdbinit'[Dir(b)'] = gdbinit[Dir(b)] /\ pc'[b] = pc[b]
      <3>1. pc'[b] = pc[b] /\ Active(b)
        BY <1>2, <2>2, WritingActive DEF TInv
      <3>2. Dir(b) # Dir(c) /\ Dir(b) \in DOMAIN gdbinit
        BY <1>1, <2>2, <3>1, ApartDiffers, ActiveDir DEF ApartInv, Dir, Elf
      <3>. QED
        BY <1>3, <1>4, <3>1, <3>2 DEF Dir, Elf
    <2>. QED
      BY <1>4, <2>1, <2>2 DEF PendingInv, Pending, At, Dir, Elf, Writing
  <1>6. ASSUME NEW e \in Elfs \ torn, Settled(e)'
        PROVE  Matches(e)'
    <2>1. dirname[e] # Dir(c)
      BY <1>3, <1>6 DEF Settled
    <2>2. gdbinit'[dirname[e]] = gdbinit[dirname[e]]
      BY <1>3, <1>6, <2>1 DEF TInv
    <2>3. \A b \in Builds : Elf(b) = e => pc[b] \notin Writing
      BY <1>1, <1>2, <1>4, <1>6, <2>1 DEF Settled, Elf, Dir, TInv
    <2>4. Matches(e)
      BY <1>6, <2>2, <2>3, GdbinitMatchesIs DEF Settled
    <2>. QED
      BY <1>4, <2>2, <2>4 DEF Matches
  <1>. QED
    BY <1>4, <1>5, <1>6, GdbinitMatchesNext DEF PendingInv

LEMMA WriteGdbinitMatches ==
  ASSUME TInv, ApartInv, PendingInv, GdbinitMatches, NEW c \in Builds, WriteGdbinit(c)
  PROVE  PendingInv' /\ GdbinitMatches'
  <1>. DEFINE new == << << Elf(c), opened[c] >>, crt0[c], align_text(line[c].argv) >>
  <1>1. Active(c) /\ c \in DOMAIN pc
    BY DEF WriteGdbinit, At, Active, Ends, TInv
  <1>2. pc' = [pc EXCEPT ![c] = "output"]
    BY <1>1, StatementsFollow DEF WriteGdbinit, At, Then
  <1>3. gdbinit' = [gdbinit EXCEPT ![Dir(c)] = new] /\ Dir(c) \in DOMAIN gdbinit
    BY <1>1, ActiveDir DEF WriteGdbinit
  <1>4. UNCHANGED << line, opened, crt0, output, torn >>
    BY DEF WriteGdbinit
  <1>5. ASSUME NEW b \in Builds
        PROVE  Pending(b)'
    <2>1. CASE b = c
      BY <1>1, <1>2, <1>3, <1>4, <2>1 DEF Pending, At, Dir, Elf
    <2>2. ASSUME b # c, pc'[b] \in Writing
          PROVE  gdbinit'[Dir(b)'] = gdbinit[Dir(b)] /\ pc'[b] = pc[b]
      <3>1. pc'[b] = pc[b] /\ Active(b)
        BY <1>2, <2>2, WritingActive DEF TInv
      <3>2. Dir(b) # Dir(c) /\ Dir(b) \in DOMAIN gdbinit
        BY <1>1, <2>2, <3>1, ApartDiffers, ActiveDir DEF ApartInv, Dir, Elf
      <3>. QED
        BY <1>3, <1>4, <3>1, <3>2 DEF Dir, Elf
    <2>. QED
      BY <1>4, <2>1, <2>2 DEF PendingInv, Pending, At, Dir, Elf, Writing
  <1>6. ASSUME NEW e \in Elfs \ torn, Settled(e)'
        PROVE  Matches(e)'
    <2>1. Elf(c) # e
      BY <1>1, <1>2, <1>4, <1>6 DEF Settled, Elf, Writing
    <2>2. dirname[e] # Dir(c)
      <3>1. new[1][1] = Elf(c)
        OBVIOUS
      <3>. HIDE DEF new
      <3>. QED
        BY <1>3, <1>6, <2>1, <3>1 DEF Settled
    <2>3. gdbinit'[dirname[e]] = gdbinit[dirname[e]]
      BY <1>3, <1>6, <2>2 DEF TInv
    <2>4. \A b \in Builds : Elf(b) = e => pc[b] \notin Writing
      BY <1>1, <1>2, <1>4, <1>6, <2>1 DEF Settled, Elf, TInv
    <2>5. Matches(e)
      BY <1>6, <2>3, <2>4, GdbinitMatchesIs DEF Settled
    <2>. QED
      BY <1>4, <2>3, <2>5 DEF Matches
  <1>. QED
    BY <1>4, <1>5, <1>6, GdbinitMatchesNext DEF PendingInv

LEMMA OpenOutputMatches ==
  ASSUME TInv, PendingInv, GdbinitMatches, NEW c \in Builds, OpenOutput(c)
  PROVE  PendingInv' /\ GdbinitMatches'
  <1>1. Active(c) /\ c \in DOMAIN pc
    BY DEF OpenOutput, At, Active, Ends, TInv
  <1>2. pc[c] = "output" /\ pc' = [pc EXCEPT ![c] = "write_output"]
    BY <1>1, StatementsFollow DEF OpenOutput, At, Then
  <1>3. output' = [output EXCEPT ![Elf(c)] = Truncated]
    BY DEF OpenOutput
  <1>4. UNCHANGED << line, opened, crt0, gdbinit, torn >>
    BY DEF OpenOutput
  <1>5. PendingInv'
    <2> SUFFICES ASSUME NEW b \in Builds PROVE Pending(b)'
      BY DEF PendingInv
    <2>1. Pending(b)
      BY DEF PendingInv
    <2>2. CASE b = c
      BY <1>1, <1>2, <1>4, <2>1, <2>2 DEF Pending, At, Dir, Elf
    <2>3. CASE b # c
      <3>1. pc'[b] = pc[b]
        BY <1>2, <2>3, StepFrame DEF Step
      <3>. QED
        BY <1>4, <2>1, <3>1 DEF Pending, At, Dir, Elf
    <2>. QED
      BY <2>2, <2>3
  <1>6. ASSUME NEW e \in Elfs \ torn, Settled(e)'
        PROVE  Matches(e)'
    <2>1. Elf(c) # e
      BY <1>1, <1>2, <1>4, <1>6 DEF Settled, Elf, Writing
    <2>2. output'[e] = output[e]
      BY <1>3, <1>6, <2>1 DEF TInv
    <2>3. Settled(e)
      BY <1>1, <1>2, <1>4, <1>6, <2>1 DEF Settled, Elf, TInv
    <2>. QED
      BY <1>4, <1>6, <2>2, <2>3, GdbinitMatchesIs DEF Matches
  <1>. QED
    BY <1>4, <1>5, <1>6, GdbinitMatchesIs, GdbinitMatchesNext

LEMMA WriteOutputMatches ==
  ASSUME TInv, PendingInv, GdbinitMatches, NEW c \in Builds, WriteOutput(c)
  PROVE  PendingInv' /\ GdbinitMatches'
  <1>. DEFINE new == << << Elf(c), opened[c] >>, crt0[c], align_text(line[c].argv),
                        part[c] >>
  <1>1. Active(c) /\ c \in DOMAIN pc /\ Elf(c) \in Elfs
    BY ActiveDir DEF WriteOutput, At, Active, Ends, TInv
  <1>2. pc[c] = "write_output" /\ pc' = [pc EXCEPT ![c] = "ok"]
    BY <1>1, StatementsFollow DEF WriteOutput, At, Then
  <1>3. output' = [output EXCEPT ![Elf(c)] = new] /\ torn' = torn \ {Elf(c)}
    BY DEF WriteOutput
  <1>4. gdbinit' = gdbinit
    BY DEF WriteOutput
  <1>5. \A b \in Builds \ {c} :
          /\ pc'[b] = pc[b] /\ line'[b] = line[b]
          /\ opened'[b] = opened[b] /\ crt0'[b] = crt0[b]
    BY StepFrame DEF Step
  <1>6. PendingInv'
    <2>1. Pending(c)'
      BY <1>1, <1>2 DEF Pending, At
    <2>2. ASSUME NEW b \in Builds \ {c}
          PROVE  Pending(b)'
      <3>1. Pending(b)
        BY DEF PendingInv
      <3>2. /\ pc'[b] = pc[b] /\ line'[b] = line[b]
            /\ opened'[b] = opened[b] /\ crt0'[b] = crt0[b]
        BY <1>5
      <3>. QED
        BY <1>4, <3>1, <3>2 DEF Pending, At, Dir, Elf
    <2>. QED
      BY <2>1, <2>2 DEF PendingInv
  <1>7. ASSUME NEW e \in Elfs \ torn', Settled(e)'
        PROVE  Matches(e)'
    <2>1. CASE e = Elf(c)
      <3>1. output'[e] = new
        BY <1>1, <1>3, <2>1 DEF TInv
      <3>2. gdbinit[dirname[e]] = << << Elf(c), opened[c] >>, crt0[c],
                                     align_text(line[c].argv) >>
        BY <1>2, <2>1 DEF PendingInv, Pending, Dir
      <3>3. SubSeq(new, 1, 3) = << << Elf(c), opened[c] >>, crt0[c],
                                   align_text(line[c].argv) >>
        BY FirstThree
      <3>4. new \notin {NoFile, Truncated}
        BY DEF NoFile, Truncated
      <3>. QED
        BY <1>4, <3>1, <3>2, <3>3, <3>4 DEF Matches
    <2>2. CASE e # Elf(c)
      <3>1. output'[e] = output[e] /\ e \notin torn
        BY <1>3, <1>7, <2>2 DEF TInv
      <3>2. Settled(e)
        BY <1>4, <1>5, <1>7, <2>2 DEF Settled, Elf
      <3>. QED
        BY <1>4, <1>7, <3>1, <3>2, GdbinitMatchesIs DEF Matches
    <2>. QED
      BY <2>1, <2>2
  <1>. QED
    BY <1>6, <1>7, GdbinitMatchesNext

LEMMA FailMatches ==
  ASSUME TInv, PendingInv, GdbinitMatches, NEW c \in Builds, Fail(c)
  PROVE  PendingInv' /\ GdbinitMatches'
  <1>1. Active(c) /\ c \in DOMAIN pc /\ Elf(c) \in Elfs /\ pc'[c] = "failed"
    BY ActiveDir DEF Fail, TInv
  <1>2. UNCHANGED << gdbinit, output >>
    BY DEF Fail
  <1>3. \A b \in Builds \ {c} :
          /\ pc'[b] = pc[b] /\ line'[b] = line[b]
          /\ opened'[b] = opened[b] /\ crt0'[b] = crt0[b]
    BY StepFrame DEF Step
  <1>4. PendingInv'
    <2>1. Pending(c)'
      BY <1>1 DEF Pending, At
    <2>2. \A b \in Builds \ {c} : Pending(b)'
      BY <1>2, <1>3 DEF PendingInv, Pending, At, Dir, Elf
    <2>. QED
      BY <2>1, <2>2 DEF PendingInv
  <1>5. ASSUME NEW e \in Elfs \ torn', Settled(e)'
        PROVE  Settled(e) /\ e \notin torn
    <2>1. e \notin torn /\ (e = Elf(c) => pc[c] \notin {"output", "write_output"})
      BY <1>5 DEF Fail
    <2>2. e = Elf(c) => pc[c] # "write_gdbinit"
      BY <1>2, <1>5 DEF PendingInv, Pending, At, Dir, Settled
    <2>. QED
      BY <1>2, <1>3, <1>5, <2>1, <2>2 DEF Settled, Elf, Writing
  <1>6. \A e \in Elfs : Matches(e) => Matches(e)'
    BY <1>2 DEF Matches
  <1>. QED
    BY <1>4, <1>5, <1>6, GdbinitMatchesIs, GdbinitMatchesNext

LEMMA StepMatches ==
  ASSUME TInv, ApartInv, PendingInv, GdbinitMatches, [Next]_vars
  PROVE  PendingInv' /\ GdbinitMatches'
  <1>1. ASSUME NEW b \in Builds, NEW l \in Lines, Begin(b, l) \/ Refuse(b, l)
        PROVE  PendingInv' /\ GdbinitMatches'
    <2>1. pc[b] \notin Writing /\ pc'[b] \notin Writing
      BY <1>1 DEF Begin, Refuse, Writing, Active, Ends, TInv
    <2>2. \A c \in Builds \ {b} :
            /\ pc'[c] = pc[c] /\ line'[c] = line[c]
            /\ opened'[c] = opened[c] /\ crt0'[c] = crt0[c]
      BY <1>1 DEF Begin, Refuse, TInv
    <2>3. UNCHANGED << gdbinit, output, torn >>
      BY <1>1 DEF Begin, Refuse, fileVars
    <2>. QED
      BY <2>1, <2>2, <2>3, QuietGdbinit
  <1>2. ASSUME NEW c \in Builds, Step(c)
        PROVE  PendingInv' /\ GdbinitMatches'
    <2>1. \A b \in Builds \ {c} :
            /\ pc'[b] = pc[b] /\ line'[b] = line[b]
            /\ opened'[b] = opened[b] /\ crt0'[b] = crt0[b]
      BY <1>2, StepFrame
    <2>2. c \in DOMAIN pc
      BY DEF TInv
    <2>3. CASE StartMakeOfCrt0(c) \/ MakeOfCrt0(c) \/ MakeReturned(c)
      <3>1. pc[c] \notin Writing /\ pc'[c] \notin Writing
        BY <2>2, <2>3, StatementsFollow
        DEF StartMakeOfCrt0, MakeOfCrt0, MakeReturned, At, Then, Writing, buildVars
      <3>2. UNCHANGED << gdbinit, output, torn >>
        BY <2>3 DEF StartMakeOfCrt0, MakeOfCrt0, MakeReturned, fileVars
      <3>. QED
        BY <2>1, <3>1, <3>2, QuietGdbinit
    <2>4. CASE ReadCrt0(c) \/ Export(c) \/ ReadPartition(c)
      <3>1. pc[c] \notin Writing /\ pc'[c] \notin Writing
        BY <2>2, <2>4, StatementsFollow DEF ReadCrt0, Export, ReadPartition, At, Then, Writing
      <3>2. UNCHANGED << gdbinit, output, torn >>
        BY <2>4 DEF ReadCrt0, Export, ReadPartition, fileVars
      <3>. QED
        BY <2>1, <3>1, <3>2, QuietGdbinit
    <2>5. CASE Objcopy(c) \/ RemovePartition(c)
      <3>1. pc[c] \notin Writing /\ pc'[c] \notin Writing
        BY <2>2, <2>5, StatementsFollow DEF Objcopy, RemovePartition, At, Then, Writing
      <3>2. UNCHANGED << gdbinit, output, torn >>
        BY <2>5 DEF Objcopy, RemovePartition
      <3>. QED
        BY <2>1, <3>1, <3>2, QuietGdbinit
    <2>. QED
      BY <1>2, <2>3, <2>4, <2>5, OpenGdbinitMatches, WriteGdbinitMatches,
         OpenOutputMatches, WriteOutputMatches, FailMatches DEF Step
  <1>3. ASSUME \/ \E e \in WellNamed : Link(e)
               \/ \E f \in Sources : Edit(f)
               \/ UNCHANGED vars
        PROVE  PendingInv' /\ GdbinitMatches'
    BY <1>3, QuietGdbinit DEF Link, Edit, vars, buildVars, fileVars
  <1>. QED
    BY <1>1, <1>2, <1>3 DEF Next

LEMMA InitMatches == Init => PendingInv /\ GdbinitMatches
  <1>. SUFFICES ASSUME Init PROVE PendingInv /\ GdbinitMatches
    OBVIOUS
  <1>1. PendingInv
    BY DEF Init, PendingInv, Pending, At
  <1>2. \A e \in Elfs : ~Settled(e)
    BY DEF Init, Settled
  <1>. QED
    BY <1>1, <1>2, GdbinitMatchesIs

(* Whatever fails, and wherever: of the programs whose last build was not  *)
(* stopped between its two files, the gdbinit file that names one is about *)
(* its FAE file.                                                           *)
THEOREM GdbinitIsRight == Careful => (Spec => []GdbinitMatches)
  <1>. SUFFICES ASSUME Careful
                PROVE  Spec => []GdbinitMatches
    OBVIOUS
  <1>1. TInv /\ ApartInv /\ PendingInv /\ GdbinitMatches /\ [Next]_vars
          => (PendingInv /\ GdbinitMatches)'
    BY StepMatches
  <1>. QED
    BY <1>1, InitMatches, CarefulAlways, TypesAlways, PTL DEF Spec
-----------------------------------------------------------------------------
(***************************************************************************)
(* The loader that is embedded.                                            *)
(*                                                                         *)
(* make realclean all in crt0 is a straight line of commands: what it has  *)
(* left to do tells which files are of the sources as they are.            *)
(***************************************************************************)
Origin(f) == {<< f, disk[f].time >>}

(* A source is its own origin.                                             *)
SourcesInv == \A f \in Sources : disk[f].of = Origin(f)

LoaderSources == {"crt0/crt0.c", "crt0/link.ld", "src/include"}

(* What a part of the loader is made of, when all is current.              *)
CurrentOf(target) ==
  UNION {Origin(f) : f \in IF target = "build/crt0.o" THEN {"crt0/crt0.c", "src/include"}
                                                      ELSE LoaderSources}

Current(target) == Exists(target) /\ disk[target].of = CurrentOf(target)

ObjectGone == ~Exists("build/crt0.o")

UpdateLoader == Update("crt0", "build/crt0.fae")
RemoveParts == Remove({"build/crt0.fae", "build/crt0.elf"})
RemoveObject == Remove({"build/crt0.o"})
LinkAndPack == << Recipe("build/crt0.elf"), Recipe("build/crt0.fae") >>
FromObject == << Recipe("build/crt0.o"), Recipe("build/crt0.elf"), Recipe("build/crt0.fae") >>
FromDirectory == << Recipe("build"), Recipe("build/crt0.o"),
                    Recipe("build/crt0.elf"), Recipe("build/crt0.fae") >>

Progress(p) ==
  \/ todo[p] = << RemoveObject, RemoveParts, UpdateLoader >>
  \/ ObjectGone /\ todo[p] = << RemoveParts, UpdateLoader >>
  \/ ObjectGone /\ todo[p] = << UpdateLoader >>
  \/ ObjectGone /\ todo[p] = FromDirectory
  \/ ObjectGone /\ todo[p] = FromObject
  \/ Current("build/crt0.o") /\ todo[p] = LinkAndPack
  \/ Current("build/crt0.elf") /\ todo[p] = << Recipe("build/crt0.fae") >>
  \/ Current("build/crt0.fae") /\ todo[p] = << >>

Loaders == {"build/crt0.o", "build/crt0.elf", "build/crt0.fae"}

ReadsCurrent(p) ==
  read[p] # << >> /\ Goal(p) \in Loaders => read[p][1] = CurrentOf(Goal(p))

LoaderBuilt(b) ==
  /\ At(b, "make") /\ status[b] = "running" => Progress(b) /\ ReadsCurrent(b)
  /\ At(b, "make") /\ status[b] = "ok" => Current("build/crt0.fae")
  /\ At(b, "read_crt0") => Current("build/crt0.fae")
  /\ pc[b] \in HasCrt0 => crt0[b] = CurrentOf("build/crt0.fae")

(* A build that runs make is one that was given no crt0.                    *)
Asks(b) == pc[b] \in {"start_make", "make"} => Default(b)

Keeps(b) == Active(b) /\ Default(b) /\ NoEditSince(b) => LoaderBuilt(b)

LoaderInv == SourcesInv /\ \A b \in Builds : Asks(b) /\ Keeps(b)

-----------------------------------------------------------------------------
(* No make writes to a source.                                             *)
LEMMA SourcesKept ==
  ASSUME MakeInv, NEW p \in Makers, MakeStep(p)
  PROVE  \A f \in Sources : disk'[f] = disk[f]
  <1>1. CASE WriteTarget(p)
    <2>1. Goal(p) \in Targets /\ "build" \in Targets
      BY <1>1, WriteChanges DEF Targets
    <2>. QED
      BY <1>1, <2>1, WriteChanges, RuleFacts
  <1>2. CASE RemoveFiles(p)
    <2>1. "build" \in Targets
      BY DEF Targets
    <2>. QED
      BY <1>2, <2>1, RemoveFacts, RuleFacts
  <1>. QED
    BY <1>1, <1>2 DEF MakeStep, LookAtTimes, ReadInputs, MakeEnds, MakeFails

(* The commands left are different from each other.                        *)
LEMMA HeadsAre ==
  /\ UpdateLoader.do = "update" /\ UpdateLoader.dir = "crt0"
  /\ UpdateLoader.what = {"build/crt0.fae"}
  /\ RemoveParts.do = "remove" /\ RemoveParts.what = {"build/crt0.fae", "build/crt0.elf"}
  /\ RemoveObject.do = "remove" /\ RemoveObject.what = {"build/crt0.o"}
  /\ \A t : Recipe(t).do = "recipe" /\ Recipe(t).what = {t}
  BY DEF UpdateLoader, RemoveParts, RemoveObject, Update, Remove, Recipe

(* Each list of commands begins with one and goes on with the next.        *)
LEMMA Lists ==
  ASSUME NEW p \in Makers
  PROVE  /\ todo[p] = << RemoveObject, RemoveParts, UpdateLoader >> =>
              /\ Head(todo[p]) = RemoveObject
              /\ Tail(todo[p]) = << RemoveParts, UpdateLoader >>
         /\ todo[p] = << RemoveParts, UpdateLoader >> =>
              Head(todo[p]) = RemoveParts /\ Tail(todo[p]) = << UpdateLoader >>
         /\ todo[p] = << UpdateLoader >> =>
              Head(todo[p]) = UpdateLoader /\ Tail(todo[p]) = << >>
         /\ todo[p] = FromDirectory =>
              /\ Head(todo[p]).do = "recipe" /\ Goal(p) = "build"
              /\ Tail(todo[p]) = FromObject
         /\ todo[p] = FromObject =>
              /\ Head(todo[p]).do = "recipe" /\ Goal(p) = "build/crt0.o"
              /\ Tail(todo[p]) = LinkAndPack
         /\ todo[p] = LinkAndPack =>
              /\ Head(todo[p]).do = "recipe" /\ Goal(p) = "build/crt0.elf"
              /\ Tail(todo[p]) = << Recipe("build/crt0.fae") >>
         /\ todo[p] = << Recipe("build/crt0.fae") >> =>
              /\ Head(todo[p]).do = "recipe" /\ Goal(p) = "build/crt0.fae"
              /\ Tail(todo[p]) = << >>
  <1>1. \A target : Head(todo[p]) = Recipe(target)
                      => Head(todo[p]).do = "recipe" /\ Goal(p) = target
    BY HeadsAre DEF Goal
  <1>2. /\ Head(FromDirectory) = Recipe("build") /\ Tail(FromDirectory) = FromObject
        /\ Head(FromObject) = Recipe("build/crt0.o") /\ Tail(FromObject) = LinkAndPack
        /\ Head(LinkAndPack) = Recipe("build/crt0.elf")
        /\ Tail(LinkAndPack) = << Recipe("build/crt0.fae") >>
    BY DEF FromDirectory, FromObject, LinkAndPack
  <1>3. Head(<< Recipe("build/crt0.fae") >>) = Recipe("build/crt0.fae")
        /\ Tail(<< Recipe("build/crt0.fae") >>) = << >>
    OBVIOUS
  <1>4. /\ Head(<< RemoveObject, RemoveParts, UpdateLoader >>) = RemoveObject
        /\ Tail(<< RemoveObject, RemoveParts, UpdateLoader >>)
             = << RemoveParts, UpdateLoader >>
        /\ Head(<< RemoveParts, UpdateLoader >>) = RemoveParts
        /\ Tail(<< RemoveParts, UpdateLoader >>) = << UpdateLoader >>
        /\ Head(<< UpdateLoader >>) = UpdateLoader /\ Tail(<< UpdateLoader >>) = << >>
    OBVIOUS
  <1>5. \A target : Recipe(target).do = "recipe"
    BY HeadsAre
  <1>. QED
    BY <1>1, <1>2, <1>3, <1>4, <1>5, Zenon

LEMMA LookBuilds ==
  ASSUME MakeInv, NEW p \in Makers, LookAtTimes(p), ObjectGone,
         todo[p] = << UpdateLoader >>
  PROVE  todo'[p] \in {FromDirectory, FromObject}
  <1>. DEFINE chain == << "build", "build/crt0.o", "build/crt0.elf", "build/crt0.fae" >>
              parts == << "build/crt0.o", "build/crt0.elf", "build/crt0.fae" >>
  <1>1. /\ Head(todo[p]).dir = "crt0" /\ Goal(p) = "build/crt0.fae"
        /\ Tail(todo[p]) = << >>
    BY Lists, HeadsAre DEF Goal
  <1>2. Chain("crt0", "build/crt0.fae") = chain /\ chain # << >>
    BY DEF Chain
  <1>3. FirstStale(chain) = 2
    <2>1. OutOfDate(chain[2])
      BY DEF OutOfDate, ObjectGone
    <2>2. Len(chain) = 4
      OBVIOUS
    <2>. HIDE DEF chain
    <2>3. \A i \in 2 .. (Len(chain) + 1) :
            (/\ \A j \in 2 .. (i - 1) : ~OutOfDate(chain[j])
             /\ i <= Len(chain) => OutOfDate(chain[i])) <=> i = 2
      BY <2>1, <2>2
    <2>. QED
      BY <2>2, <2>3 DEF FirstStale
  <1>4. SubSeq(chain, 2, 4) = parts
    <2>1. chain \in Seq(Targets) /\ parts \in Seq(Targets)
      BY DEF Targets
    <2>2. Len(chain) = 4 /\ chain[2] = parts[1] /\ chain[3] = parts[2] /\ chain[4] = parts[3]
      OBVIOUS
    <2>3. Len(parts) = 3
      OBVIOUS
    <2>. HIDE DEF chain, parts
    <2>4. /\ SubSeq(chain, 2, 4) \in Seq(Targets) /\ Len(SubSeq(chain, 2, 4)) = 3
          /\ \A i \in 1 .. 3 : SubSeq(chain, 2, 4)[i] = chain[2 + i - 1]
      <3>1. \A i \in 2 .. 4 : chain[i] \in Targets
        <4>1. 2 .. 4 \subseteq 1 .. Len(chain)
          BY <2>2
        <4>. QED
          BY <2>1, <4>1, ElementOfSeq
      <3>2. 4 - 2 + 1 = 3
        OBVIOUS
      <3>. QED
        BY <3>1, <3>2, SubSeqProperties
    <2>5. \A i \in 1 .. 3 : SubSeq(chain, 2, 4)[i] = parts[i]
      BY <2>2, <2>4
    <2>. QED
      BY <2>1, <2>3, <2>4, <2>5, SeqEqual
  <1>5. ToMake(chain) \in {chain, parts}
    <2>1. Len(chain) = 4 /\ chain[1] = "build"
      OBVIOUS
    <2>2. << "build" >> \o parts = chain
      <3>. DEFINE first == << "build" >>
      <3>1. first \in Seq(Targets) /\ parts \in Seq(Targets) /\ chain \in Seq(Targets)
        BY DEF Targets
      <3>2. /\ Len(first) = 1 /\ Len(parts) = 3 /\ Len(chain) = 4
            /\ first[1] = chain[1] /\ parts[1] = chain[2] /\ parts[2] = chain[3]
            /\ parts[3] = chain[4]
        OBVIOUS
      <3>. HIDE DEF first, chain, parts
      <3>3. /\ first \o parts \in Seq(Targets)
            /\ Len(first \o parts) = Len(first) + Len(parts)
            /\ \A i \in 1 .. Len(first) + Len(parts) : (first \o parts)[i] =
                 IF i <= Len(first) THEN first[i] ELSE parts[i - Len(first)]
        BY <3>1, ConcatProperties, Zenon
      <3>4. /\ Len(first \o parts) = Len(chain)
            /\ \A i \in 1 .. Len(first \o parts) : (first \o parts)[i] = chain[i]
        BY <3>2, <3>3
      <3>5. first \o parts \in Seq(Targets) /\ chain \in Seq(Targets)
        BY <3>1, <3>3
      <3>. HIDE DEF first
      <3>6. first \o parts = chain
        BY <3>4, <3>5, SeqEqual, Zenon
      <3>. QED
        BY <3>6 DEF first
    <2>3. << >> \o parts = parts
      OBVIOUS
    <2>. HIDE DEF chain, parts
    <2>. QED
      BY <1>3, <1>4, <2>1, <2>2, <2>3 DEF ToMake
  <1>6. Recipes(chain) = FromDirectory /\ Recipes(parts) = FromObject
    BY DEF Recipes, FromDirectory, FromObject
  <1>7. FromDirectory \o << >> = FromDirectory /\ FromObject \o << >> = FromObject
    BY DEF FromDirectory, FromObject
  <1>8. todo'[p] = Recipes(ToMake(chain)) \o << >>
    <2>. HIDE DEF chain
    <2>. QED
      BY <1>1, <1>2 DEF LookAtTimes, MakeInv
  <1>. QED
    BY <1>5, <1>6, <1>7, <1>8

(* What a recipe reads is made of the sources as they are.                 *)
LEMMA ReadsRight ==
  ASSUME MakeInv, SourcesInv, NEW p \in Makers, ReadInputs(p), Progress(p)
  PROVE  ReadsCurrent(p)'
  <1>1. read'[p] = << UNION {disk[f].of : f \in Inputs(Goal(p))} >>
        /\ disk' = disk /\ todo' = todo
    BY DEF ReadInputs, MakeInv
  <1>2. Goal(p)' = Goal(p)
    BY <1>1 DEF Goal
  <1>3. ASSUME Goal(p) = "build/crt0.o"
        PROVE  UNION {disk[f].of : f \in Inputs(Goal(p))} = CurrentOf(Goal(p))
    <2>1. Inputs(Goal(p)) = {"crt0/crt0.c", "src/include"}
      BY <1>3 DEF Inputs, Prerequisites, Rules, Sources, Targets
    <2>2. \A f \in Inputs(Goal(p)) : disk[f].of = Origin(f)
      BY <2>1 DEF SourcesInv, Sources
    <2>. QED
      BY <1>3, <2>1, <2>2 DEF CurrentOf
  <1>4. ASSUME Goal(p) = "build/crt0.elf"
        PROVE  UNION {disk[f].of : f \in Inputs(Goal(p))} = CurrentOf(Goal(p))
    <2>1. Inputs(Goal(p)) = {"build/crt0.o", "crt0/link.ld"}
      BY <1>4 DEF Inputs, Prerequisites, Rules, Sources, Targets
    <2>2. Current("build/crt0.o")
      BY <1>4, HeadsAre, Lists DEF Progress, ReadInputs, Does
    <2>3. disk["crt0/link.ld"].of = Origin("crt0/link.ld")
      BY DEF SourcesInv, Sources
    <2>. QED
      BY <1>4, <2>1, <2>2, <2>3 DEF CurrentOf, Current, LoaderSources
  <1>5. ASSUME Goal(p) = "build/crt0.fae"
        PROVE  UNION {disk[f].of : f \in Inputs(Goal(p))} = CurrentOf(Goal(p))
    <2>1. Inputs(Goal(p)) = {"build/crt0.elf"}
      BY <1>5 DEF Inputs, Prerequisites, Rules, Sources, Targets
    <2>2. Current("build/crt0.elf")
      BY <1>5, HeadsAre, Lists DEF Progress, ReadInputs, Does
    <2>. QED
      BY <1>5, <2>1, <2>2 DEF CurrentOf, Current
  <1>. QED
    BY <1>1, <1>2, <1>3, <1>4, <1>5 DEF ReadsCurrent, Loaders, CurrentOf, Origin

(* No source changes: what is current stays so while it is not written.    *)
LEMMA CurrentStays ==
  ASSUME \A f \in Sources : disk'[f] = disk[f]
  PROVE  /\ SourcesInv => SourcesInv'
         /\ \A t : CurrentOf(t)' = CurrentOf(t)
         /\ \A t : disk'[t] = disk[t] /\ Current(t) => Current(t)'
  <1>1. \A f \in Sources : Origin(f)' = Origin(f)
    BY DEF Origin
  <1>2. ASSUME NEW t PROVE CurrentOf(t)' = CurrentOf(t)
    <2>1. \A f \in {"crt0/crt0.c", "src/include"} : Origin(f)' = Origin(f)
      BY <1>1 DEF Sources
    <2>2. \A f \in LoaderSources : Origin(f)' = Origin(f)
      BY <1>1 DEF Sources, LoaderSources
    <2>. QED
      BY <2>1, <2>2 DEF CurrentOf, LoaderSources
  <1>3. SourcesInv => SourcesInv'
    BY <1>1 DEF SourcesInv
  <1>. QED
    BY <1>2, <1>3 DEF Current, Exists

(* A recipe that ends leaves what it made of the sources as they are.      *)
LEMMA WriteProgress ==
  ASSUME MakeInv, NEW p \in Makers, WriteTarget(p), Progress(p), ReadsCurrent(p)
  PROVE  Progress(p)' /\ ReadsCurrent(p)'
  <1>1. /\ todo'[p] = Tail(todo[p]) /\ disk'[Goal(p)].of = read[p][1]
        /\ Goal(p) # "build" => disk'[Goal(p)].time = clock + 1
        /\ \A f \in (Sources \cup Targets) \ {Goal(p), "build"} : disk'[f] = disk[f]
        /\ clock \in Nat
    BY WriteChanges
  <1>2. \A t : CurrentOf(t)' = CurrentOf(t)
    BY SourcesKept, CurrentStays DEF MakeStep
  <1>3. ASSUME NEW t \in Loaders, Goal(p) = t
        PROVE  Current(t)'
    <2>1. disk'[t].of = CurrentOf(t)
      BY <1>1, <1>3 DEF ReadsCurrent, WriteTarget
    <2>2. disk'[t].time = clock + 1
      BY <1>1, <1>3 DEF Loaders
    <2>3. disk'[t] # Absent
      BY <1>1, <2>2 DEF Absent
    <2>. QED
      BY <1>2, <2>1, <2>3 DEF Current, Exists
  <1>4. read'[p] = << >>
    BY DEF WriteTarget, MakeInv
  <1>5. todo[p] # << >> /\ Head(todo[p]).do = "recipe"
    BY DEF WriteTarget, Does
  <1>6. CASE todo[p] = FromDirectory
    <2>1. Goal(p) = "build" /\ todo'[p] = FromObject
      BY <1>1, <1>6, Lists
    <2>2. disk'["build/crt0.o"] = disk["build/crt0.o"]
      BY <1>1, <2>1 DEF Targets
    <2>3. ObjectGone
      BY <1>5, <1>6, <2>1, HeadsAre, Lists DEF Progress
    <2>. QED
      BY <1>4, <2>1, <2>2, <2>3 DEF Progress, ReadsCurrent, ObjectGone, Exists
  <1>7. CASE todo[p] = FromObject
    <2>1. Current("build/crt0.o")' /\ todo'[p] = LinkAndPack
      BY <1>1, <1>3, <1>7, Lists DEF Loaders
    <2>. QED
      BY <1>4, <2>1 DEF Progress, ReadsCurrent
  <1>8. CASE todo[p] = LinkAndPack
    <2>1. Current("build/crt0.elf")' /\ todo'[p] = << Recipe("build/crt0.fae") >>
      BY <1>1, <1>3, <1>8, Lists DEF Loaders
    <2>. QED
      BY <1>4, <2>1 DEF Progress, ReadsCurrent, Recipe
  <1>9. CASE todo[p] = << Recipe("build/crt0.fae") >>
    <2>1. Current("build/crt0.fae")' /\ todo'[p] = << >>
      BY <1>1, <1>3, <1>9, Lists DEF Loaders
    <2>. QED
      BY <1>4, <2>1 DEF Progress, ReadsCurrent
  <1>. QED
    BY <1>5, <1>6, <1>7, <1>8, <1>9, HeadsAre, Lists DEF Progress

LEMMA RemoveProgress ==
  ASSUME MakeInv, NEW p \in Makers, RemoveFiles(p), Progress(p)
  PROVE  Progress(p)' /\ ReadsCurrent(p)'
  <1>1. /\ todo[p] # << >> /\ Head(todo[p]).do = "remove"
        /\ todo'[p] = Tail(todo[p])
        /\ disk'["build/crt0.o"] = IF "build/crt0.o" \in Head(todo[p]).what
                                     THEN Absent ELSE disk["build/crt0.o"]
    BY RemoveFacts DEF Targets
  <1>2. read'[p] = << >>
    BY <1>1 DEF RemoveFiles, MakeInv, Does
  <1>3. CASE todo[p] = << RemoveObject, RemoveParts, UpdateLoader >>
    <2>1. disk'["build/crt0.o"] = Absent /\ todo'[p] = << RemoveParts, UpdateLoader >>
      BY <1>1, <1>3, Lists, HeadsAre
    <2>. QED
      BY <1>2, <2>1 DEF Progress, ReadsCurrent, ObjectGone, Exists
  <1>4. CASE ObjectGone /\ todo[p] = << RemoveParts, UpdateLoader >>
    <2>1. disk'["build/crt0.o"] = Absent /\ todo'[p] = << UpdateLoader >>
      BY <1>1, <1>4, Lists, HeadsAre DEF ObjectGone, Exists
    <2>. QED
      BY <1>2, <2>1 DEF Progress, ReadsCurrent, ObjectGone, Exists
  <1>. QED
    BY <1>1, <1>3, <1>4, HeadsAre, Lists DEF Progress

(* The whole run of make: the object file goes, is made again of the       *)
(* sources as they are, and so are the parts that follow.                  *)
LEMMA LoaderProgress ==
  ASSUME MakeInv, SourcesInv, NEW p \in Makers, MakeStep(p),
         status[p] = "running" => Progress(p) /\ ReadsCurrent(p)
  PROVE  /\ status[p] = "running"
         /\ status'[p] = "running" => Progress(p)' /\ ReadsCurrent(p)'
         /\ status'[p] = "ok" => Current("build/crt0.fae")'
  <1>1. status[p] = "running" /\ Progress(p) /\ ReadsCurrent(p)
    BY DEF MakeStep, LookAtTimes, ReadInputs, WriteTarget, RemoveFiles,
           MakeEnds, MakeFails, Does
  <1>2. CASE LookAtTimes(p)
    <2>1. todo[p] = << UpdateLoader >> /\ ObjectGone
      BY <1>1, <1>2, HeadsAre, Lists DEF Progress, LookAtTimes, Does
    <2>2. todo'[p] \in {FromDirectory, FromObject} /\ disk' = disk
      BY <1>2, <2>1, LookBuilds DEF LookAtTimes
    <2>3. read'[p] = << >> /\ status'[p] = "running"
      BY <1>2 DEF LookAtTimes, Does, MakeInv
    <2>. QED
      BY <1>1, <2>2, <2>1, <2>3 DEF Progress, ReadsCurrent, ObjectGone, Exists
  <1>3. CASE ReadInputs(p)
    <2>1. UNCHANGED << disk, todo, status >>
      BY <1>3 DEF ReadInputs
    <2>2. Progress(p)'
      BY <1>1, <2>1 DEF Progress, ObjectGone, Exists, Current, CurrentOf, Origin
    <2>. QED
      BY <1>1, <1>3, <2>1, <2>2, ReadsRight
  <1>4. CASE WriteTarget(p)
    BY <1>1, <1>4, WriteProgress DEF WriteTarget
  <1>5. CASE RemoveFiles(p)
    BY <1>1, <1>5, RemoveProgress DEF RemoveFiles
  <1>6. CASE MakeEnds(p)
    <2>1. todo[p] = << >> /\ disk' = disk /\ status'[p] # "running"
      BY <1>6 DEF MakeEnds, MakeInv
    <2>2. Current("build/crt0.fae")
      BY <1>1, <2>1 DEF Progress, FromDirectory, FromObject, LinkAndPack
    <2>. QED
      BY <1>1, <2>1, <2>2 DEF Current, Exists, CurrentOf, Origin
  <1>7. CASE MakeFails(p)
    BY <1>1, <1>7 DEF MakeFails, MakeInv
  <1>. QED
    BY <1>2, <1>3, <1>4, <1>5, <1>6, <1>7 DEF MakeStep

(* A step that leaves alone what one build and the files are.              *)
LEMMA LoaderStays ==
  ASSUME NEW b \in Builds, Asks(b) /\ Keeps(b), disk' = disk,
         pc'[b] = pc[b], line'[b] = line[b], began'[b] = began[b], crt0'[b] = crt0[b],
         todo'[b] = todo[b], read'[b] = read[b], status'[b] = status[b]
  PROVE  Asks(b)' /\ Keeps(b)'
  <1>1. /\ Active(b)' = Active(b) /\ Default(b)' = Default(b)
        /\ NoEditSince(b)' = NoEditSince(b)
    BY DEF Active, Default, NoEditSince
  <1>2. \A t : Current(t)' = Current(t) /\ CurrentOf(t)' = CurrentOf(t)
    BY DEF Current, Exists, CurrentOf, Origin
  <1>3. Progress(b)' = Progress(b) /\ ReadsCurrent(b)' = ReadsCurrent(b)
    <2>1. Goal(b)' = Goal(b) /\ ObjectGone' = ObjectGone
      BY DEF Goal, ObjectGone, Exists
    <2>. QED
      BY <1>2, <2>1 DEF Progress, ReadsCurrent
  <1>4. LoaderBuilt(b)' = LoaderBuilt(b)
    BY <1>2, <1>3 DEF LoaderBuilt, At
  <1>. QED
    BY <1>1, <1>4 DEF Asks, Keeps

(* A build that begins, or is refused.                                     *)
LEMMA BeginLoader ==
  ASSUME TInv, BeganInv, LoaderInv, NEW b \in Builds, NEW l \in Lines,
         Begin(b, l) \/ Refuse(b, l)
  PROVE  LoaderInv'
  <1>1. UNCHANGED << makeVars, began, crt0 >>
    BY DEF Begin, Refuse
  <1>2. SourcesInv'
    BY <1>1 DEF LoaderInv, SourcesInv, Origin, makeVars
  <1>3. \A c \in Builds \ {b} : pc'[c] = pc[c] /\ line'[c] = line[c]
    BY DEF Begin, Refuse, TInv
  <1>4. \A c \in Builds \ {b} : Asks(c)' /\ Keeps(c)'
    BY <1>1, <1>3, LoaderStays DEF LoaderInv, makeVars
  <1>5. CASE Begin(b, l)
    <2>1. /\ line'[b] = l
          /\ pc'[b] = IF crt0_path(l.argv) = "None" THEN "start_make" ELSE "read_crt0"
      BY <1>5 DEF Begin, TInv
    <2>. QED
      BY <1>2, <1>4, <2>1
      DEF LoaderInv, Asks, Keeps, Default, LoaderBuilt, At, HasCrt0, HasPartition
  <1>6. CASE Refuse(b, l)
    <2>1. pc'[b] = "failed"
      BY <1>6 DEF Refuse, TInv
    <2>. QED
      BY <1>2, <1>4, <2>1 DEF LoaderInv, Asks, Keeps, Active, Ends
  <1>. QED
    BY <1>5, <1>6

LEMMA StartLoader ==
  ASSUME TInv, BeganInv, LoaderInv, NEW c \in Builds, StartMakeOfCrt0(c)
  PROVE  LoaderInv'
  <1>1. /\ disk' = disk /\ line' = line /\ crt0' = crt0
        /\ StartMake(c, "crt0", << "realclean", "all" >>)
    BY DEF StartMakeOfCrt0
  <1>2. pc[c] = "start_make" /\ pc' = [pc EXCEPT ![c] = "make"]
    BY StatementsFollow DEF StartMakeOfCrt0, At, Then, TInv
  <1>3. todo'[c] = << RemoveObject, RemoveParts, UpdateLoader >> /\ read'[c] = << >>
    <2>1. /\ todo'[c] = AllCommands("crt0", << "realclean", "all" >>)
          /\ read'[c] = << >>
      BY <1>1 DEF StartMake, TInv, MakeInv, Builds
    <2>2. /\ Commands("crt0", "realclean") = << RemoveObject, RemoveParts >>
          /\ Commands("crt0", "all") = << UpdateLoader >>
      BY DEF Commands, Phony, RemoveObject, RemoveParts, UpdateLoader
    <2>3. AllCommands("crt0", << "realclean", "all" >>)
            = Commands("crt0", "realclean") \o Commands("crt0", "all")
      BY DEF AllCommands
    <2>4. << RemoveObject, RemoveParts >> \o << UpdateLoader >>
            = << RemoveObject, RemoveParts, UpdateLoader >>
      <3>. DEFINE first == << RemoveObject, RemoveParts >>
                  last  == << UpdateLoader >>
                  all   == << RemoveObject, RemoveParts, UpdateLoader >>
                  S     == {RemoveObject, RemoveParts, UpdateLoader}
      <3>1. first \in Seq(S) /\ last \in Seq(S) /\ all \in Seq(S)
        OBVIOUS
      <3>2. /\ Len(first) = 2 /\ Len(last) = 1 /\ Len(all) = 3
            /\ first[1] = all[1] /\ first[2] = all[2] /\ last[1] = all[3]
        OBVIOUS
      <3>. HIDE DEF first, last, all, S
      <3>3. /\ first \o last \in Seq(S)
            /\ Len(first \o last) = Len(first) + Len(last)
            /\ \A i \in 1 .. Len(first) + Len(last) : (first \o last)[i] =
                 IF i <= Len(first) THEN first[i] ELSE last[i - Len(first)]
        BY <3>1, ConcatProperties, Zenon
      <3>4. /\ Len(first \o last) = Len(all)
            /\ \A i \in 1 .. Len(first \o last) : (first \o last)[i] = all[i]
        BY <3>2, <3>3
      <3>5. first \o last = all
        BY <3>1, <3>3, <3>4, SeqEqual, Zenon
      <3>. QED
        BY <3>5 DEF first, last, all
    <2>. QED
      BY <2>1, <2>2, <2>3, <2>4
  <1>4. status'[c] = "running"
    BY <1>1 DEF StartMake, TInv, MakeInv, Builds
  <1>5. SourcesInv'
    BY <1>1 DEF LoaderInv, SourcesInv, Origin
  <1>6. ASSUME NEW b \in Builds \ {c}
        PROVE  Asks(b)' /\ Keeps(b)'
    <2>1. pc'[b] = pc[b] /\ began'[b] = began[b]
      BY <1>2 DEF StartMakeOfCrt0, TInv, BeganInv
    <2>2. todo'[b] = todo[b] /\ read'[b] = read[b] /\ status'[b] = status[b]
      BY <1>1 DEF StartMake, TInv, MakeInv, Builds
    <2>. QED
      BY <1>1, <2>1, <2>2, LoaderStays DEF LoaderInv
  <1>7. pc'[c] = "make"
    BY <1>2 DEF TInv
  <1>8. Asks(c)'
    BY <1>1, <1>2 DEF LoaderInv, Asks, Default
  <1>9. LoaderBuilt(c)'
    BY <1>3, <1>4, <1>7
    DEF LoaderBuilt, At, HasCrt0, HasPartition, Progress, ReadsCurrent
  <1>. QED
    BY <1>5, <1>6, <1>8, <1>9 DEF LoaderInv, Keeps

(* Only one build runs make, or reads what it made.                        *)
LEMMA OneDefault ==
  ASSUME ApartInv, NEW b \in Builds, NEW c \in Builds, Active(b), Active(c),
         Default(b), Default(c)
  PROVE  b = c
  BY DEF ApartInv, Apart, Writes, Default

LEMMA MakeLoader ==
  ASSUME TInv, BeganInv, ApartInv, LoaderInv, NEW c \in Builds, MakeOfCrt0(c)
  PROVE  LoaderInv'
  <1>1. pc[c] = "make" /\ MakeStep(c) /\ UNCHANGED << pc, line, began, crt0 >>
    BY DEF MakeOfCrt0, At, buildVars
  <1>2. Active(c) /\ Default(c)
    BY <1>1 DEF Active, Ends, LoaderInv, Asks
  <1>3. \A f \in Sources : disk'[f] = disk[f]
    BY <1>1, SourcesKept DEF TInv, Builds
  <1>4. SourcesInv'
    BY <1>3, CurrentStays DEF LoaderInv
  <1>5. \A b \in Builds : Asks(b)'
    BY <1>1 DEF LoaderInv, Asks, Default
  <1>6. ASSUME NEW b \in Builds \ {c}
        PROVE  Keeps(b)'
    <2>1. ~Active(b) \/ ~Default(b)
      BY <1>2, OneDefault
    <2>. QED
      BY <1>1, <2>1 DEF Keeps, Active, Default
  <1>7. Keeps(c)'
    <2>. SUFFICES ASSUME NoEditSince(c)'
                  PROVE  LoaderBuilt(c)'
      BY DEF Keeps
    <2>1. NoEditSince(c)
      BY <1>1, <1>3 DEF NoEditSince
    <2>2. LoaderBuilt(c)
      BY <1>2, <2>1 DEF LoaderInv, Keeps
    <2>3. status[c] = "running" => Progress(c) /\ ReadsCurrent(c)
      BY <1>1, <2>2 DEF LoaderBuilt, At
    <2>4. /\ status'[c] = "running" => Progress(c)' /\ ReadsCurrent(c)'
          /\ status'[c] = "ok" => Current("build/crt0.fae")'
      BY <1>1, <2>3, LoaderProgress DEF TInv, LoaderInv, Builds
    <2>. QED
      BY <1>1, <2>4 DEF LoaderBuilt, At, HasCrt0, HasPartition
  <1>. QED
    BY <1>4, <1>5, <1>6, <1>7 DEF LoaderInv

(* The other statements leave make and its files alone.                    *)
LEMMA StatementFrame ==
  ASSUME TInv, BeganInv, NEW c \in Builds, Step(c),
         ~StartMakeOfCrt0(c), ~MakeOfCrt0(c)
  PROVE  UNCHANGED makeVars /\ \A b \in Builds \ {c} : began'[b] = began[b]
  <1>1. CASE WriteOutput(c) \/ Fail(c)
    BY <1>1 DEF WriteOutput, Fail, Forget, BeganInv
  <1>2. CASE \/ MakeReturned(c) \/ ReadCrt0(c) \/ Export(c)
             \/ Objcopy(c) \/ ReadPartition(c) \/ RemovePartition(c)
             \/ OpenGdbinit(c) \/ WriteGdbinit(c) \/ OpenOutput(c)
    BY <1>2 DEF MakeReturned, ReadCrt0, Export, Objcopy, ReadPartition,
                RemovePartition, OpenGdbinit, WriteGdbinit, OpenOutput
  <1>. QED
    BY <1>1, <1>2 DEF Step

LEMMA StatementLoader ==
  ASSUME TInv, BeganInv, LoaderInv, NEW c \in Builds, Step(c),
         ~StartMakeOfCrt0(c), ~MakeOfCrt0(c)
  PROVE  LoaderInv'
  <1>1. UNCHANGED makeVars /\ \A b \in Builds \ {c} : began'[b] = began[b]
    BY StatementFrame
  <1>2. SourcesInv' /\ \A t : Current(t)' = Current(t) /\ CurrentOf(t)' = CurrentOf(t)
    BY <1>1 DEF LoaderInv, SourcesInv, Current, Exists, CurrentOf, Origin, makeVars
  <1>3. \A b \in Builds \ {c} : Asks(b)' /\ Keeps(b)'
    BY <1>1, StepFrame, LoaderStays DEF LoaderInv, makeVars
  <1>4. c \in DOMAIN pc
    BY DEF TInv
  <1>5. CASE MakeReturned(c)
    <2>1. /\ pc[c] = "make" /\ status[c] = "ok" /\ pc'[c] = "read_crt0"
          /\ UNCHANGED << line, began >>
      BY <1>4, <1>5, StatementsFollow DEF MakeReturned, At, Then
    <2>2. Keeps(c) /\ Active(c)
      BY <2>1 DEF LoaderInv, Active, Ends
    <2>3. Keeps(c)'
      BY <1>1, <1>2, <2>1, <2>2
      DEF Keeps, Default, NoEditSince, LoaderBuilt, At, HasCrt0, HasPartition, makeVars
    <2>. QED
      BY <1>2, <1>3, <2>1, <2>3 DEF LoaderInv, Asks
  <1>6. CASE ReadCrt0(c)
    <2>1. /\ pc[c] = "read_crt0" /\ pc'[c] = "export" /\ UNCHANGED << line, began >>
          /\ crt0'[c] = Crt0File(c)[1]
      BY <1>4, <1>6, StatementsFollow DEF ReadCrt0, At, Then, TInv
    <2>2. Keeps(c) /\ Active(c)
      BY <2>1 DEF LoaderInv, Active, Ends
    <2>3. ASSUME Default(c), Current("build/crt0.fae")
          PROVE  crt0'[c] = CurrentOf("build/crt0.fae")
      BY <2>1, <2>3 DEF Crt0File, Current
    <2>4. Keeps(c)'
      BY <1>1, <1>2, <2>1, <2>2, <2>3
      DEF Keeps, Default, NoEditSince, LoaderBuilt, At, HasCrt0, HasPartition, makeVars
    <2>. QED
      BY <1>2, <1>3, <2>1, <2>4 DEF LoaderInv, Asks
  <1>7. CASE \/ Export(c) \/ Objcopy(c) \/ ReadPartition(c) \/ RemovePartition(c)
             \/ OpenGdbinit(c) \/ WriteGdbinit(c) \/ OpenOutput(c)
    <2>1. pc[c] \in HasCrt0 /\ pc'[c] \in HasCrt0
      BY <1>4, <1>7, StatementsFollow
      DEF Export, Objcopy, ReadPartition, RemovePartition, OpenGdbinit, WriteGdbinit,
          OpenOutput, At, Then, HasCrt0, HasPartition
    <2>2. UNCHANGED << line, began, crt0 >>
      BY <1>7 DEF Export, Objcopy, ReadPartition, RemovePartition, OpenGdbinit,
                  WriteGdbinit, OpenOutput
    <2>3. Keeps(c) /\ Active(c)
      BY <2>1 DEF LoaderInv, Active, Ends, HasCrt0, HasPartition
    <2>4. pc'[c] \notin {"start_make", "make", "read_crt0"}
      BY <2>1 DEF HasCrt0, HasPartition
    <2>5. Keeps(c)'
      BY <1>1, <1>2, <2>1, <2>2, <2>3, <2>4
      DEF Keeps, Default, NoEditSince, LoaderBuilt, At, makeVars
    <2>. QED
      BY <1>2, <1>3, <2>4, <2>5 DEF LoaderInv, Asks
  <1>8. CASE WriteOutput(c) \/ Fail(c)
    <2>1. pc'[c] \in {"ok", "failed"}
      BY <1>4, <1>8, StatementsFollow DEF WriteOutput, Fail, At, Then
    <2>2. Asks(c)' /\ Keeps(c)'
      BY <2>1 DEF Asks, Keeps, Active, Ends
    <2>. QED
      BY <1>2, <1>3, <2>2 DEF LoaderInv
  <1>. QED
    BY <1>5, <1>6, <1>7, <1>8 DEF Step

(* After an edit, no build has begun its make since.                       *)
LEMMA EditLoader ==
  ASSUME TInv, BeganInv, LoaderInv, NEW f \in Sources, Edit(f)
  PROVE  LoaderInv'
  <1>1. disk' = [disk EXCEPT ![f] = Written({<< f, clock + 1 >>})]
    BY DEF Edit, EditSource
  <1>2. /\ disk'[f].time = clock + 1 /\ disk'[f].of = {<< f, clock + 1 >>}
        /\ \A g \in Sources \ {f} : disk'[g] = disk[g]
    BY <1>1 DEF TInv, MakeInv, Written
  <1>3. SourcesInv'
    BY <1>2 DEF LoaderInv, SourcesInv, Origin
  <1>4. UNCHANGED << pc, line, began >>
    BY DEF Edit, buildVars
  <1>5. \A b \in Builds : ~NoEditSince(b)'
    BY <1>2, <1>4 DEF NoEditSince, BeganInv
  <1>6. \A b \in Builds : Asks(b)'
    BY <1>4 DEF LoaderInv, Asks, Default
  <1>. QED
    BY <1>3, <1>5, <1>6 DEF LoaderInv, Keeps

LEMMA StepLoader == TInv /\ BeganInv /\ ApartInv /\ LoaderInv /\ [Next]_vars => LoaderInv'
  <1>. SUFFICES ASSUME TInv, BeganInv, ApartInv, LoaderInv, [Next]_vars
                PROVE  LoaderInv'
    OBVIOUS
  <1>1. ASSUME UNCHANGED << makeVars, buildVars >>
        PROVE  LoaderInv'
    <2>1. SourcesInv'
      BY <1>1 DEF LoaderInv, SourcesInv, Origin, makeVars
    <2>2. \A b \in Builds : Asks(b)' /\ Keeps(b)'
      BY <1>1, LoaderStays DEF LoaderInv, makeVars, buildVars
    <2>. QED
      BY <2>1, <2>2 DEF LoaderInv
  <1>2. ASSUME NEW c \in Builds, Step(c)
        PROVE  LoaderInv'
    BY <1>2, StartLoader, MakeLoader, StatementLoader
  <1>3. CASE \E e \in WellNamed \cap Changing : Link(e)
    BY <1>1, <1>3 DEF Link
  <1>4. CASE UNCHANGED vars
    BY <1>1, <1>4 DEF vars
  <1>. QED
    BY <1>2, <1>3, <1>4, BeginLoader, EditLoader DEF Next

LEMMA InitLoader == Init => LoaderInv
  <1>. SUFFICES ASSUME Init PROVE LoaderInv
    OBVIOUS
  <1>1. SourcesInv
    BY DEF Init, MakeInit, SourcesInv, Origin
  <1>2. \A b \in Builds : pc[b] = "none"
    BY DEF Init
  <1>. QED
    BY <1>1, <1>2 DEF LoaderInv, Asks, Keeps, Active, Ends

LEMMA WritesCurrent ==
  ASSUME TInv, LoaderInv, NEW b \in Builds, WriteOutput(b), Default(b), NoEditSince(b)
  PROVE  output'[Elf(b)][2] =
           {<< f, disk[f].time >> : f \in Sources \ {"src/stdriot.c"}}
  <1>1. pc[b] = "write_output" /\ Active(b)
    BY DEF WriteOutput, At, Active, Ends
  <1>2. Elf(b) \in Elfs
    BY <1>1, ActiveDir
  <1>3. output'[Elf(b)] = << << Elf(b), opened[b] >>, crt0[b],
                             align_text(line[b].argv), part[b] >>
    BY <1>2 DEF WriteOutput, TInv
  <1>4. crt0[b] = CurrentOf("build/crt0.fae")
    BY <1>1 DEF LoaderInv, Keeps, LoaderBuilt, HasCrt0, HasPartition
  <1>5. LoaderSources = Sources \ {"src/stdriot.c"}
    BY DEF LoaderSources, Sources
  <1>6. CurrentOf("build/crt0.fae") = UNION {Origin(f) : f \in LoaderSources}
    BY DEF CurrentOf
  <1>7. UNION {Origin(f) : f \in LoaderSources}
          = {<< f, disk[f].time >> : f \in LoaderSources}
    BY DEF Origin
  <1>. QED
    BY <1>3, <1>4, <1>5, <1>6, <1>7

(* A build without an option that succeeds embeds the loader of the        *)
(* sources as they are, if none was edited since its make began: whatever  *)
(* was in the directory build, and whatever is built beside it.            *)
THEOREM EmbeddedIsCurrent == Careful => (Spec => EmbeddedCrt0Current)
  <1>. SUFFICES ASSUME Careful
                PROVE  Spec => EmbeddedCrt0Current
    OBVIOUS
  <1>1. TInv /\ LoaderInv /\ [Next]_vars
          => [\A b \in Builds :
                Succeeds(b) /\ Default(b) /\ NoEditSince(b) =>
                  output'[Elf(b)][2] =
                    {<< f, disk[f].time >> : f \in Sources \ {"src/stdriot.c"}}]_vars
    BY OnlyWriteSucceeds, WritesCurrent
  <1>2. TInv /\ BeganInv /\ ApartInv /\ LoaderInv /\ [Next]_vars => LoaderInv'
    BY StepLoader
  <1>3. Spec => []LoaderInv
    BY <1>2, InitLoader, TypesAlways, BeganAlways, CarefulAlways, PTL DEF Spec
  <1>. QED
    BY <1>1, <1>3, TypesAlways, PTL DEF Spec, EmbeddedCrt0Current
=============================================================================
