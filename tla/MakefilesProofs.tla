--------------------------- MODULE MakefilesProofs ---------------------------
(***************************************************************************)
(* Proofs about edits and runs of make, for every bound.  The types hold   *)
(* for every set of makers, whether sources are edited during recipes or   *)
(* not, and what make builds for one maker and edits between recipes.      *)
(***************************************************************************)
EXTENDS Makefiles, MakeProofs

-----------------------------------------------------------------------------
(***************************************************************************)
(* Types.                                                                  *)
(***************************************************************************)
TInv ==
  /\ MakeInv
  /\ asked \in [Makers -> Invocations]
  /\ began \in [Makers -> 0 .. clock]
  /\ settled \in BOOLEAN
  /\ makes \in 0 .. MaxMakes /\ edits \in 0 .. MaxEdits

(* The goals of a run of make stand for commands.                          *)
LEMMA InvocationType ==
  ASSUME NEW i \in Invocations
  PROVE  AllCommands(i.dir, i.goals) \in Seq(Command)
<1>1. i.dir \in {"root", "crt0"}
  BY DEF Invocations
<1>2. \/ Len(i.goals) = 1 /\ i.goals[1] \in {"all", "clean", "realclean"}
      \/ Len(i.goals) = 2 /\ i.goals[1] = "realclean" /\ i.goals[2] = "all"
  BY DEF Invocations
<1>3. /\ Len(i.goals) = 1 => Commands(i.dir, i.goals[1]) \in Seq(Command)
      /\ Len(i.goals) = 2 => /\ Commands(i.dir, i.goals[1]) \in Seq(Command)
                             /\ Commands(i.dir, i.goals[2]) \in Seq(Command)
  BY <1>1, <1>2, CommandsType
<1> QED
  BY <1>2, <1>3, ConcatProperties DEF AllCommands

(* Every target is missing at first, and nothing runs.                     *)
LEMMA InitTypes == Init => TInv
<1> SUFFICES ASSUME Init PROVE TInv
  OBVIOUS
<1>1. MakeInv
  BY InitMakeInv DEF Init
<1>2. All \in Invocations
  BY DEF All, Invocations
<1>3. asked \in [Makers -> Invocations]
  BY <1>2 DEF Init
<1>4. clock \in Nat
  BY <1>1 DEF MakeInv
<1>5. began \in [Makers -> 0 .. clock]
  BY <1>4 DEF Init
<1>6. settled \in BOOLEAN
  BY Zenon DEF Init
<1>7. makes \in 0 .. MaxMakes /\ edits \in 0 .. MaxEdits
  BY MakefilesAssumption DEF Init
<1> QED
  BY <1>1, <1>3, <1>5, <1>6, <1>7 DEF TInv

(* The clock of the files never goes back.                                 *)
LEMMA ClockGrows ==
  ASSUME TInv, clock' \in {clock, clock + 1}
  PROVE  \A p \in Makers : began[p] \in 0 .. clock'
BY DEF TInv, MakeInv

(* Every run of make, command of it and edit keeps the types.              *)
LEMMA StepTypes == TInv /\ [Next]_vars => TInv'
<1> SUFFICES ASSUME TInv, [Next]_vars PROVE TInv'
  OBVIOUS
<1>1. MakeInv
  BY DEF TInv
<1>2. ASSUME NEW p \in Makers, NEW i \in Invocations, Run(p, i)
      PROVE  TInv'
  <2>1. MakeInv'
    BY <1>1, <1>2, InvocationType, StartMakeInv DEF Run
  <2>2. clock' = clock /\ clock \in Nat
    BY <1>1, <1>2 DEF Run, MakeInv
  <2>3. began' \in [Makers -> 0 .. clock']
    BY <1>2, <2>2 DEF Run, TInv
  <2>4. makes' \in 0 .. MaxMakes /\ edits' \in 0 .. MaxEdits
    BY <1>2, MakefilesAssumption DEF Run, TInv
  <2>5. asked' \in [Makers -> Invocations] /\ settled' \in BOOLEAN
    BY <1>2 DEF Run, TInv
  <2> QED
    BY <2>1, <2>3, <2>4, <2>5 DEF TInv
<1>3. ASSUME NEW p \in Makers, Work(p)
      PROVE  TInv'
  <2>1. MakeInv'
    BY <1>1, <1>3, StepMakeInv DEF Work
  <2>2. clock' \in {clock, clock + 1}
    BY <1>3 DEF Work, MakeStep, LookAtTimes, ReadInputs, WriteTarget,
                RemoveFiles, MakeEnds, MakeFails
  <2>3. began' \in [Makers -> 0 .. clock']
    BY <1>3, <2>2, ClockGrows DEF Work, TInv
  <2>4. settled' \in BOOLEAN
    BY <1>3 DEF Work
  <2>5. UNCHANGED << asked, makes, edits >>
    BY <1>3 DEF Work
  <2> QED
    BY <2>1, <2>3, <2>4, <2>5 DEF TInv
<1>4. ASSUME NEW f \in Sources, Edit(f)
      PROVE  TInv'
  <2>1. MakeInv'
    BY <1>1, <1>4, EditMakeInv DEF Edit
  <2>2. clock' \in {clock, clock + 1}
    BY <1>4 DEF Edit, EditSource
  <2>3. began' \in [Makers -> 0 .. clock']
    BY <1>4, <2>2, ClockGrows DEF Edit, TInv
  <2>4. makes' \in 0 .. MaxMakes /\ edits' \in 0 .. MaxEdits
    BY <1>4, MakefilesAssumption DEF Edit, TInv
  <2>5. asked' \in [Makers -> Invocations] /\ settled' \in BOOLEAN
    BY <1>4 DEF Edit, TInv
  <2> QED
    BY <2>1, <2>3, <2>4, <2>5 DEF TInv
<1>5. ASSUME UNCHANGED vars
      PROVE  TInv'
  <2>1. MakeInv'
    BY <1>1, <1>5, StutterMakeInv DEF vars
  <2> QED
    BY <1>5, <2>1 DEF vars, makeVars, TInv
<1> QED
  BY <1>2, <1>3, <1>4, <1>5 DEF Next

(* Whatever is edited and made, by whom and in any order, each file has a  *)
(* time that has passed and is made of versions of sources that there were,*)
(* and only a make that is running has commands left.                      *)
THEOREM TypeCorrect == Spec => []TypeOK
<1>1. Init => TInv
  BY InitTypes
<1>2. TInv /\ [Next]_vars => TInv'
  BY StepTypes
<1>3. TInv => TypeOK
  BY MakeInvType DEF TInv, TypeOK
<1> QED
  BY <1>1, <1>2, <1>3, PTL DEF Spec

-----------------------------------------------------------------------------
(***************************************************************************)
(* What make builds.  One developer runs make, and does not edit while a   *)
(* recipe runs.                                                            *)
(***************************************************************************)
OneMaker == \A p, q \in Makers : p = q

OnTime(p) == status[p] \in {"running", "ok"} /\ NoEditSince(p)

(* What a run of make promises from its first command on.                  *)
LibraryPromised(p) ==
  OnTime(p) /\ asked[p].dir = "root"
    /\ asked[p].goals \in {<< "all" >>, << "realclean", "all" >>}
  => Promised(p, "build/libfae.a")

AllPromised(p) == OnTime(p) /\ asked[p] = All => WillExist(p)

CleanPromised(p) ==
  OnTime(p) /\ asked[p].goals = << "realclean", "all" >> =>
    /\ Promised(p, "build/crt0.fae") /\ LoaderGoes(p)
    /\ ObjectNew(p, "build/crt0.o")
    /\ asked[p].dir = "root" => ObjectNew(p, "build/stdriot.o")

(* Nothing is out of date to make at the root, and nothing is removed.     *)
Settled ==
  /\ Exists("build") /\ Exists("build/crt0.fae")
  /\ ~OutOfDate("build/stdriot.o") /\ ~OutOfDate("build/libfae.a")
  /\ \A p \in Makers : \A i \in 1 .. Len(todo[p]) :
       todo[p][i] \in {Update("root", "build/libfae.a"), Update("root", "build/crt0.fae")}

RunInv ==
  /\ TInv /\ FilesInv
  /\ \A p \in Makers : /\ ReadCurrent(p) /\ Orderly(todo[p])
                       /\ LibraryPromised(p) /\ AllPromised(p) /\ CleanPromised(p)
  /\ settled => Settled

-----------------------------------------------------------------------------
(***************************************************************************)
(* The first commands of a run of make.                                    *)
(***************************************************************************)
LEMMA FirstCommands ==
  ASSUME NEW s, NEW root, NEW lib, NEW crt, NEW obj, NEW crto, NEW keep, NEW wipe,
         root = Update("root", "build/crt0.fae"), lib = Update("root", "build/libfae.a"),
         crt = Update("crt0", "build/crt0.fae"),
         obj = Remove({"build/stdriot.o"}), crto = Remove({"build/crt0.o"}),
         keep = Remove({"build/crt0.fae", "build/crt0.elf"}), wipe = Remove(Targets),
         s \in {<< lib, root >>, << crt >>, << obj, crto >>, << crto >>,
                << obj, crto, keep, wipe >>, << crto, keep >>,
                << obj, crto, keep, wipe, lib, root >>, << crto, keep, crt >>}
  PROVE  Orderly(s)
  <1>1. /\ root.do = "update" /\ lib.do = "update" /\ crt.do = "update"
        /\ obj.do = "remove" /\ crto.do = "remove" /\ keep.do = "remove"
        /\ wipe.do = "remove" /\ root # lib /\ root # crt /\ lib # crt
        /\ \A t : Recipe(t).do = "recipe"
    BY DEF Update, Remove, Recipe
  <1>2. \A i \in 1 .. Len(s) : s[i].do \in {"update", "remove"}
    BY <1>1
  <1>3. Followed(s)
    BY <1>1, <1>2 DEF Followed
  <1>4. RemovesFirst(s)
    BY <1>1 DEF RemovesFirst
  <1>5. \A i, j \in 1 .. Len(s) : s[i] = root /\ s[j] \in {root, crt} => i = j
    <2>1. /\ root \notin {lib, crt, obj, crto, keep, wipe}
          /\ crt \notin {lib, obj, crto, keep, wipe}
      BY <1>1
    <2>2. CASE s = << lib, root >>
      BY <2>1, <2>2
    <2>3. CASE s \in {<< crt >>, << obj, crto >>, << crto >>, << obj, crto, keep, wipe >>,
                      << crto, keep >>, << crto, keep, crt >>}
      <3>1. \A i \in 1 .. Len(s) : s[i] # root
        BY <2>1, <2>3
      <3>. QED
        BY <3>1
    <2>4. CASE s = << obj, crto, keep, wipe, lib, root >>
      <3>1. \A i \in 1 .. 6 : s[i] \in {root, crt} => i = 6
        BY <2>1, <2>4
      <3>. QED
        BY <2>1, <2>4, <3>1
    <2>. QED
      BY <2>2, <2>3, <2>4
  <1>6. OneLoader(s)
    BY <1>1, <1>2, <1>5 DEF OneLoader
  <1>. QED
    BY <1>3, <1>4, <1>6 DEF Orderly

LEMMA JoinSix ==
  ASSUME NEW a, NEW b, NEW c, NEW d, NEW e, NEW f
  PROVE  << a, b, c, d >> \o << e, f >> = << a, b, c, d, e, f >>
  <1>. DEFINE S == {a, b, c, d, e, f}
  <1>. DEFINE s == << a, b, c, d >>
              t == << e, f >>
              u == << a, b, c, d, e, f >>
  <1>1. s \in Seq(S) /\ t \in Seq(S) /\ u \in Seq(S)
    OBVIOUS
  <1>2. /\ Len(s) = 4 /\ Len(t) = 2 /\ Len(u) = 6
        /\ s[1] = a /\ s[2] = b /\ s[3] = c /\ s[4] = d /\ t[1] = e /\ t[2] = f
        /\ u[1] = a /\ u[2] = b /\ u[3] = c /\ u[4] = d /\ u[5] = e /\ u[6] = f
    OBVIOUS
  <1>. HIDE DEF s, t, u, S
  <1>3. /\ s \o t \in Seq(S) /\ Len(s \o t) = 6
        /\ \A i \in 1 .. 6 : (s \o t)[i] = IF i <= 4 THEN s[i] ELSE t[i - 4]
    <2>1. /\ s \o t \in Seq(S) /\ Len(s \o t) = Len(s) + Len(t)
          /\ \A i \in 1 .. Len(s) + Len(t) :
               (s \o t)[i] = IF i <= Len(s) THEN s[i] ELSE t[i - Len(s)]
      BY <1>1, ConcatProperties
    <2>2. Len(s) + Len(t) = 6
      BY <1>2
    <2>. QED
      BY <1>2, <2>1, <2>2
  <1>4. \A i \in 1 .. 6 : (s \o t)[i] = u[i]
    BY <1>2, <1>3
  <1>5. s \o t = u
    BY <1>1, <1>2, <1>3, <1>4, SeqEqual
  <1>. QED
    BY <1>5 DEF s, t, u

LEMMA JoinThree ==
  ASSUME NEW a, NEW b, NEW c
  PROVE  << a, b >> \o << c >> = << a, b, c >>
  <1>. DEFINE S == {a, b, c}
  <1>. DEFINE s == << a, b >>
              t == << c >>
              u == << a, b, c >>
  <1>1. s \in Seq(S) /\ t \in Seq(S) /\ u \in Seq(S)
    OBVIOUS
  <1>2. /\ Len(s) = 2 /\ Len(t) = 1 /\ Len(u) = 3
        /\ s[1] = a /\ s[2] = b /\ t[1] = c
        /\ u[1] = a /\ u[2] = b /\ u[3] = c
    OBVIOUS
  <1>. HIDE DEF s, t, u, S
  <1>3. /\ s \o t \in Seq(S) /\ Len(s \o t) = 3
        /\ \A i \in 1 .. 3 : (s \o t)[i] = IF i <= 2 THEN s[i] ELSE t[i - 2]
    <2>1. /\ s \o t \in Seq(S) /\ Len(s \o t) = Len(s) + Len(t)
          /\ \A i \in 1 .. Len(s) + Len(t) :
               (s \o t)[i] = IF i <= Len(s) THEN s[i] ELSE t[i - Len(s)]
      BY <1>1, ConcatProperties
    <2>2. Len(s) + Len(t) = 3
      BY <1>2
    <2>. QED
      BY <1>2, <2>1, <2>2
  <1>4. \A i \in 1 .. 3 : (s \o t)[i] = u[i]
    BY <1>2, <1>3
  <1>5. s \o t = u
    BY <1>1, <1>2, <1>3, <1>4, SeqEqual
  <1>. QED
    BY <1>5 DEF s, t, u

LEMMA InvocationCommands ==
  ASSUME NEW i \in Invocations
  PROVE  LET s    == AllCommands(i.dir, i.goals)
             root == Update("root", "build/crt0.fae")
             lib  == Update("root", "build/libfae.a")
             crt  == Update("crt0", "build/crt0.fae")
             obj  == Remove({"build/stdriot.o"})
             crto == Remove({"build/crt0.o"})
             keep == Remove({"build/crt0.fae", "build/crt0.elf"})
             wipe == Remove(Targets)
         IN  /\ i.dir = "root" =>
                  /\ i.goals = << "all" >> => s = << lib, root >>
                  /\ i.goals = << "clean" >> => s = << obj, crto >>
                  /\ i.goals = << "realclean" >> => s = << obj, crto, keep, wipe >>
                  /\ i.goals = << "realclean", "all" >>
                       => s = << obj, crto, keep, wipe, lib, root >>
             /\ i.dir = "crt0" =>
                  /\ i.goals = << "all" >> => s = << crt >>
                  /\ i.goals = << "clean" >> => s = << crto >>
                  /\ i.goals = << "realclean" >> => s = << crto, keep >>
                  /\ i.goals = << "realclean", "all" >> => s = << crto, keep, crt >>
             /\ i.dir \in {"root", "crt0"}
             /\ i.goals \in {<< "all" >>, << "clean" >>, << "realclean" >>,
                             << "realclean", "all" >>}
  <1>1. /\ i.dir \in {"root", "crt0"}
        /\ i.goals \in {<< "all" >>, << "clean" >>, << "realclean" >>,
                        << "realclean", "all" >>}
    BY DEF Invocations
  <1>2. /\ i.goals = << "all" >> => AllCommands(i.dir, i.goals) = Commands(i.dir, "all")
        /\ i.goals = << "clean" >> => AllCommands(i.dir, i.goals) = Commands(i.dir, "clean")
        /\ i.goals = << "realclean" >>
             => AllCommands(i.dir, i.goals) = Commands(i.dir, "realclean")
        /\ i.goals = << "realclean", "all" >>
             => AllCommands(i.dir, i.goals)
                  = Commands(i.dir, "realclean") \o Commands(i.dir, "all")
    <2>1. /\ Len(<< "all" >>) = 1 /\ << "all" >>[1] = "all"
          /\ Len(<< "clean" >>) = 1 /\ << "clean" >>[1] = "clean"
          /\ Len(<< "realclean" >>) = 1 /\ << "realclean" >>[1] = "realclean"
          /\ Len(<< "realclean", "all" >>) = 2
          /\ << "realclean", "all" >>[1] = "realclean"
          /\ << "realclean", "all" >>[2] = "all"
      OBVIOUS
    <2>. QED
      BY <2>1 DEF AllCommands
  <1>. DEFINE root == Update("root", "build/crt0.fae")
              lib  == Update("root", "build/libfae.a")
              crt  == Update("crt0", "build/crt0.fae")
              obj  == Remove({"build/stdriot.o"})
              crto == Remove({"build/crt0.o"})
              keep == Remove({"build/crt0.fae", "build/crt0.elf"})
              wipe == Remove(Targets)
  <1>3. /\ Commands("root", "all") = << lib, root >>
        /\ Commands("root", "clean") = << obj, crto >>
        /\ Commands("root", "realclean") = << obj, crto, keep, wipe >>
        /\ Commands("crt0", "all") = << crt >>
        /\ Commands("crt0", "clean") = << crto >>
        /\ Commands("crt0", "realclean") = << crto, keep >>
    BY DEF Commands, Phony
  <1>. HIDE DEF root, lib, crt, obj, crto, keep, wipe
  <1>4. /\ << obj, crto, keep, wipe >> \o << lib, root >>
             = << obj, crto, keep, wipe, lib, root >>
        /\ << crto, keep >> \o << crt >> = << crto, keep, crt >>
    BY JoinSix, JoinThree
  <1>. QED
    BY <1>1, <1>2, <1>3, <1>4 DEF root, lib, crt, obj, crto, keep, wipe

(* Whatever it was asked, a make begins in good order.                     *)
LEMMA StartOrderly ==
  ASSUME NEW i \in Invocations
  PROVE  Orderly(AllCommands(i.dir, i.goals))
  BY InvocationCommands, FirstCommands

(* A make that begins is still to look at every goal it was asked.         *)
LEMMA StartPromises ==
  ASSUME MakeInv, NEW p \in Makers, NEW i \in Invocations,
         todo'[p] = AllCommands(i.dir, i.goals)
  PROVE  /\ i.dir = "root" /\ i.goals \in {<< "all" >>, << "realclean", "all" >>}
              => Promised(p, "build/libfae.a")'
         /\ i = All => WillExist(p)'
         /\ i.goals = << "realclean", "all" >> =>
              /\ Promised(p, "build/crt0.fae")' /\ LoaderGoes(p)'
              /\ ObjectNew(p, "build/crt0.o")'
              /\ i.dir = "root" => ObjectNew(p, "build/stdriot.o")'
  <1>. DEFINE s    == todo'[p]
              root == Update("root", "build/crt0.fae")
              lib  == Update("root", "build/libfae.a")
              crt  == Update("crt0", "build/crt0.fae")
              obj  == Remove({"build/stdriot.o"})
              crto == Remove({"build/crt0.o"})
              keep == Remove({"build/crt0.fae", "build/crt0.elf"})
              wipe == Remove(Targets)
  <1>1. /\ i.dir = "root" /\ i.goals = << "all" >> => s = << lib, root >>
        /\ i.dir = "root" /\ i.goals = << "realclean", "all" >>
             => s = << obj, crto, keep, wipe, lib, root >>
        /\ i.dir = "crt0" /\ i.goals = << "realclean", "all" >>
             => s = << crto, keep, crt >>
        /\ i.dir \in {"root", "crt0"}
    BY InvocationCommands
  <1>2. /\ root.do = "update" /\ lib.do = "update" /\ crt.do = "update" /\ root # crt
        /\ obj.do = "remove" /\ crto.do = "remove" /\ keep.do = "remove"
        /\ "build/stdriot.o" \in obj.what /\ "build/crt0.o" \in crto.what
        /\ "build/crt0.fae" \in keep.what
    BY DEF Update, Remove
  <1>. HIDE DEF s, root, lib, crt, obj, crto, keep, wipe
  <1>3. s = << lib, root >>
          => Has(s, lib) /\ Has(s, root) /\ NoRemoves(s)
    BY <1>2 DEF Has, NoRemoves
  <1>4. s = << obj, crto, keep, wipe, lib, root >>
          => /\ Has(s, lib) /\ Has(s, root) /\ Clears(s, "build/crt0.fae")
             /\ Clears(s, "build/crt0.o") /\ Clears(s, "build/stdriot.o")
    <2>. SUFFICES ASSUME s = << obj, crto, keep, wipe, lib, root >>
                  PROVE  /\ Has(s, lib) /\ Has(s, root) /\ Clears(s, "build/crt0.fae")
                         /\ Clears(s, "build/crt0.o") /\ Clears(s, "build/stdriot.o")
      OBVIOUS
    <2>1. /\ Len(s) = 6 /\ s[1] = obj /\ s[2] = crto /\ s[3] = keep
          /\ s[5] = lib /\ s[6] = root
      OBVIOUS
    <2>. HIDE DEF s
    <2>. QED
      BY <1>2, <2>1 DEF Has, Clears
  <1>5. s = << crto, keep, crt >>
          => Has(s, crt) /\ ~Has(s, root) /\ Clears(s, "build/crt0.o")
    <2>. SUFFICES ASSUME s = << crto, keep, crt >>
                  PROVE  Has(s, crt) /\ ~Has(s, root) /\ Clears(s, "build/crt0.o")
      OBVIOUS
    <2>1. Len(s) = 3 /\ s[1] = crto /\ s[2] = keep /\ s[3] = crt
      OBVIOUS
    <2>. QED
      BY <1>2, <2>1 DEF Has, Clears
  <1>6. /\ Has(s, lib) => Looks(s, "build/libfae.a")
        /\ Has(s, root) \/ Has(s, crt) => Looks(s, "build/crt0.fae")
    BY DEF Looks, root, lib, crt
  <1>7. i.dir = "root" /\ i.goals \in {<< "all" >>, << "realclean", "all" >>}
          => Promised(p, "build/libfae.a")'
    BY <1>1, <1>3, <1>4, <1>6 DEF Promised, s
  <1>8. i = All => WillExist(p)'
    BY <1>1, <1>3, <1>6 DEF WillExist, s, All
  <1>9. i.goals = << "realclean", "all" >> => Promised(p, "build/crt0.fae")'
    BY <1>1, <1>4, <1>5, <1>6 DEF Promised, s
  <1>10. i.goals = << "realclean", "all" >> => LoaderGoes(p)'
    BY <1>1, <1>4, <1>5 DEF LoaderGoes, s, root
  <1>11. i.goals = << "realclean", "all" >> =>
           /\ ObjectNew(p, "build/crt0.o")'
           /\ i.dir = "root" => ObjectNew(p, "build/stdriot.o")'
    BY <1>1, <1>4, <1>5 DEF ObjectNew, s
  <1>. QED
    BY <1>7, <1>8, <1>9, <1>10, <1>11

-----------------------------------------------------------------------------
(***************************************************************************)
(* Steps.                                                                  *)
(***************************************************************************)
LEMMA InitRuns == Init => RunInv
  <1>. SUFFICES ASSUME Init PROVE RunInv
    OBVIOUS
  <1>1. TInv /\ FilesInv
    BY InitTypes, InitFilesInv DEF Init
  <1>2. Orderly(<< >>)
    BY DEF Orderly, Followed, RemovesFirst, OneLoader
  <1>3. \A p \in Makers : status[p] = "idle" /\ todo[p] = << >> /\ read[p] = << >>
    BY DEF Init, MakeInit
  <1>4. settled = FALSE
    BY DEF Init
  <1>. QED
    BY <1>1, <1>2, <1>3, <1>4
       DEF RunInv, ReadCurrent, LibraryPromised, AllPromised, CleanPromised, OnTime

LEMMA RunKeepsRuns ==
  ASSUME OneMaker, RunInv, NEW p \in Makers, NEW i \in Invocations, Run(p, i)
  PROVE  RunInv'
  <1>1. TInv'
    BY StepTypes DEF RunInv, Next
  <1>2. /\ MakeInv /\ \A q \in Makers : q = p
        /\ todo'[p] = AllCommands(i.dir, i.goals) /\ read'[p] = << >>
        /\ asked'[p] = i /\ UNCHANGED disk /\ settled' = (settled /\ i = All)
    BY DEF OneMaker, RunInv, Run, StartMake, TInv, MakeInv
  <1>3. FilesInv'
    BY <1>2 DEF RunInv, FilesInv, Exists, Absent
  <1>4. ReadCurrent(p)' /\ Orderly(todo'[p])
    BY <1>2, StartOrderly DEF ReadCurrent
  <1>5. LibraryPromised(p)' /\ AllPromised(p)' /\ CleanPromised(p)'
    BY <1>2, StartPromises DEF LibraryPromised, AllPromised, CleanPromised, All
  <1>6. ASSUME settled'
        PROVE  Settled'
    <2>1. Settled /\ i.dir = "root" /\ i.goals = << "all" >>
      <3>1. settled /\ i = All
        BY <1>2, <1>6, Zenon
      <3>. QED
        BY <3>1 DEF RunInv, All
    <2>2. todo'[p] = << Update("root", "build/libfae.a"), Update("root", "build/crt0.fae") >>
      BY <1>2, <2>1, InvocationCommands
    <2>3. \A k \in 1 .. Len(todo'[p]) :
            todo'[p][k] \in {Update("root", "build/libfae.a"), Update("root", "build/crt0.fae")}
      BY <2>2
    <2>. QED
      BY <1>2, <2>1, <2>3 DEF Settled, OutOfDate, Exists
  <1>. QED
    BY <1>1, <1>2, <1>3, <1>4, <1>5, <1>6 DEF RunInv

(* When nothing is out of date, make only finds that.                      *)
LEMMA SettledStays ==
  ASSUME OneMaker, MakeInv, NEW p \in Makers, MakeStep(p), Settled
  PROVE  Settled'
  <1>1. \A q \in Makers : q = p
    BY DEF OneMaker
  <1>2. todo[p] # << >> =>
          /\ Head(todo[p]).do = "update" /\ Goal(p) \in Goals
          /\ Head(todo[p]) = Update("root", Goal(p))
    <2>. SUFFICES ASSUME todo[p] # << >>
                  PROVE  /\ Head(todo[p]).do = "update" /\ Goal(p) \in Goals
                         /\ Head(todo[p]) = Update("root", Goal(p))
      OBVIOUS
    <2>1. todo[p] \in Seq(Command)
      BY DEF MakeInv
    <2>2. PICK g \in Goals : Head(todo[p]) = Update("root", g)
      BY <2>1, TailFacts DEF Settled, Goals
    <2>3. Update("root", g).what = {g} /\ Update("root", g).do = "update"
      BY DEF Update
    <2>4. Goal(p) = g
      BY <2>2, <2>3 DEF Goal
    <2>. QED
      BY <2>2, <2>3, <2>4
  <1>3. LookAtTimes(p) \/ MakeEnds(p)
    BY <1>2 DEF MakeStep, ReadInputs, WriteTarget, RemoveFiles, MakeFails, Does
  <1>4. UNCHANGED disk
    BY <1>3 DEF LookAtTimes, MakeEnds
  <1>5. CASE LookAtTimes(p)
    <2>1. todo[p] \in Seq(Command) /\ todo[p] # << >>
      BY <1>5 DEF LookAtTimes, Does, MakeInv
    <2>2. Head(todo[p]).dir = "root"
      BY <1>2, <2>1 DEF Update
    <2>3. PICK more : /\ Added(p, "root", Goal(p), more)
                      /\ todo'[p] = more \o Tail(todo[p])
      BY <1>5, <2>2, UpdateAdds
    <2>4. ASSUME Goal(p) = "build/libfae.a"
          PROVE  more = << >>
      <3>1. ~OutOfDate("build")
        BY RuleFacts DEF Settled, OutOfDate
      <3>2. \A t \in {"build"} \cup Parts("build/libfae.a") : ~OutOfDate(t)
        BY <3>1 DEF Settled, Parts
      <3>. QED
        BY <2>3, <2>4, <3>2 DEF Added
    <2>5. ASSUME Goal(p) = "build/crt0.fae"
          PROVE  more = << >>
      BY <2>3, <2>5 DEF Added, Settled
    <2>6. more = << >> /\ Tail(todo[p]) \in Seq(Command)
      BY <1>2, <2>1, <2>4, <2>5, TailFacts, <2>3 DEF Goals
    <2>7. todo'[p] = Tail(todo[p])
      BY <2>3, <2>6, ConcatEmptySeq
    <2>8. \A k \in 1 .. Len(Tail(todo[p])) : Tail(todo[p])[k] \in
            {Update("root", "build/libfae.a"), Update("root", "build/crt0.fae")}
      <3>1. \A k \in 1 .. Len(Tail(todo[p])) :
              k + 1 \in 1 .. Len(todo[p]) /\ Tail(todo[p])[k] = todo[p][k + 1]
        BY <2>1, TailFacts
      <3>. QED
        BY <3>1 DEF Settled
    <2>. QED
      BY <1>1, <1>4, <2>7, <2>8 DEF Settled, OutOfDate, Exists
  <1>6. CASE MakeEnds(p)
    BY <1>4, <1>6 DEF Settled, OutOfDate, Exists, MakeEnds
  <1>. QED
    BY <1>3, <1>5, <1>6

LEMMA WorkKeepsRuns ==
  ASSUME OneMaker, RunInv, NEW p \in Makers, Work(p)
  PROVE  RunInv'
  <1>1. TInv'
    BY StepTypes DEF RunInv, Next
  <1>2. /\ MakeInv /\ \A q \in Makers : q = p
        /\ MakeStep(p) /\ FilesInv /\ ReadCurrent(p) /\ Orderly(todo[p])
        /\ UNCHANGED << asked, began >>
    BY DEF OneMaker, RunInv, Work, TInv
  <1>3. /\ FilesInv' /\ ReadCurrent(p)' /\ Orderly(todo'[p])
        /\ \A f \in Sources : disk'[f] = disk[f]
        /\ status[p] = "running"
    BY <1>2, StepKeeps
  <1>4. NoEditSince(p)' <=> NoEditSince(p)
    BY <1>2, <1>3 DEF NoEditSince
  <1>5. OnTime(p)' => OnTime(p) /\ status'[p] # "failed"
    BY <1>3, <1>4 DEF OnTime
  <1>6. LibraryPromised(p)'
    BY <1>2, <1>5, StepKeeps DEF RunInv, LibraryPromised, Goals
  <1>7. AllPromised(p)'
    BY <1>2, <1>5, StepKeeps DEF RunInv, AllPromised, All
  <1>8. CleanPromised(p)'
    BY <1>2, <1>5, StepKeeps DEF RunInv, CleanPromised, Goals, Objects
  <1>9. ASSUME settled'
        PROVE  Settled'
    <2>1. CASE settled
      BY <1>2, <2>1, SettledStays DEF RunInv
    <2>2. CASE ~settled
      <3>1. status'[p] = "ok" /\ asked[p] = All /\ NoEditSince(p)
        BY <1>9, <2>2 DEF Work
      <3>2. MakeEnds(p)
        BY <1>2, <1>3, <3>1
           DEF MakeStep, LookAtTimes, ReadInputs, WriteTarget, RemoveFiles, MakeFails, MakeInv
      <3>3. todo[p] = << >> /\ UNCHANGED << disk, todo >>
        BY <3>2 DEF MakeEnds
      <3>4. /\ Promised(p, "build/libfae.a") /\ WillExist(p)
        BY <1>3, <3>1 DEF RunInv, LibraryPromised, AllPromised, OnTime, All
      <3>5. /\ \A c : ~Has(todo[p], c)
            /\ \A g : ~Looks(todo[p], g)
        BY <3>3 DEF Has, Looks
      <3>6. /\ Exists("build") /\ Exists("build/crt0.fae")
            /\ ~OutOfDate("build/stdriot.o") /\ ~OutOfDate("build/libfae.a")
        BY <3>4, <3>5 DEF Promised, WillExist, Parts
      <3>. QED
        BY <1>2, <3>3, <3>6 DEF Settled, OutOfDate, Exists
    <2>. QED
      BY <2>1, <2>2
  <1>. QED
    BY <1>1, <1>2, <1>3, <1>6, <1>7, <1>8, <1>9 DEF RunInv

LEMMA EditKeepsRuns ==
  ASSUME ~EditDuringRecipes, RunInv, NEW f \in Sources, Edit(f)
  PROVE  RunInv'
  <1>1. TInv'
    BY StepTypes DEF RunInv, Next
  <1>2. /\ MakeInv /\ FilesInv /\ EditSource(f)
        /\ \A p \in Makers : began[p] \in 0 .. clock
    BY DEF RunInv, Edit, TInv
  <1>3. FilesInv' /\ clock \in Nat /\ disk'[f].time = clock + 1
    BY <1>2, EditKeeps
  <1>4. \A p \in Makers : read[p] = << >>
    BY <1>2 DEF EditSource
  <1>5. \A p \in Makers : ReadCurrent(p)'
    BY <1>4 DEF ReadCurrent, Edit
  <1>6. \A p \in Makers : ~NoEditSince(p)'
    <2>. SUFFICES ASSUME NEW p \in Makers PROVE ~(disk'[f].time <= began'[p])
      BY DEF NoEditSince
    <2>. QED
      BY <1>2, <1>3 DEF Edit
  <1>7. \A p \in Makers : LibraryPromised(p)' /\ AllPromised(p)' /\ CleanPromised(p)'
    BY <1>6 DEF LibraryPromised, AllPromised, CleanPromised, OnTime
  <1>8. settled' = FALSE /\ \A p \in Makers : Orderly(todo'[p])
    BY DEF Edit, RunInv
  <1>. QED
    BY <1>1, <1>3, <1>5, <1>7, <1>8 DEF RunInv

LEMMA StutterKeepsRuns ==
  ASSUME RunInv, UNCHANGED vars
  PROVE  RunInv'
  <1>1. TInv'
    BY StepTypes DEF RunInv
  <1>2. UNCHANGED << disk, clock, todo, read, status, asked, began, settled >>
    BY DEF vars, makeVars
  <1>3. FilesInv'
    BY <1>2 DEF RunInv, FilesInv, Exists
  <1>4. \A p \in Makers : ReadCurrent(p)' /\ Orderly(todo'[p])
    BY <1>2 DEF RunInv, ReadCurrent, Goal
  <1>5. \A p \in Makers : LibraryPromised(p)' /\ AllPromised(p)' /\ CleanPromised(p)'
    BY <1>2 DEF RunInv, LibraryPromised, AllPromised, CleanPromised, OnTime, NoEditSince,
                Promised, OutOfDate, LoaderGoes, ObjectNew, WillExist, Exists
  <1>6. settled' => Settled'
    BY <1>2 DEF RunInv, Settled, OutOfDate, Exists
  <1>. QED
    BY <1>1, <1>3, <1>4, <1>5, <1>6 DEF RunInv

LEMMA StepRuns ==
  ASSUME OneMaker, ~EditDuringRecipes
  PROVE  RunInv /\ [Next]_vars => RunInv'
  BY RunKeepsRuns, WorkKeepsRuns, EditKeepsRuns, StutterKeepsRuns DEF Next

LEMMA RunsKept ==
  ASSUME OneMaker, ~EditDuringRecipes
  PROVE  Spec => []RunInv
  <1>1. Init => RunInv
    BY InitRuns
  <1>2. RunInv /\ [Next]_vars => RunInv'
    BY StepRuns
  <1>. QED
    BY <1>1, <1>2, PTL DEF Spec

-----------------------------------------------------------------------------
(***************************************************************************)
(* What the promises come to.                                              *)
(***************************************************************************)

(* Of a make that has ended nothing is left: what it promised is there.    *)
LEMMA PromiseKept ==
  ASSUME MakeInv, NEW p \in Makers, status[p] = "ok", NEW g \in Goals, Promised(p, g)
  PROVE  \A t \in Parts(g) : ~OutOfDate(t)
  <1>1. todo[p] = << >>
    BY DEF MakeInv
  <1>2. (\A c : ~Has(todo[p], c)) /\ (\A x : ~Looks(todo[p], x))
    BY <1>1 DEF Has, Looks
  <1>. QED
    BY <1>2 DEF Promised

(* What is not out of date is made of its prerequisites.                   *)
LEMMA MadeOfPrerequisites ==
  ASSUME MakeInv, FilesInv, NEW t \in Targets, ~OutOfDate(t), NEW f \in Prerequisites(t)
  PROVE  disk[f].of \subseteq disk[t].of
  <1>1. /\ Exists(t) /\ ~(disk[f].time > disk[t].time)
        /\ f \in Sources \cup Targets
    BY RuleFacts DEF OutOfDate
  <1>2. disk[f].time \in 0 .. clock /\ disk[t].time \in 0 .. clock /\ clock \in Nat
    BY <1>1 DEF MakeInv
  <1>. QED
    BY <1>1, <1>2 DEF FilesInv

LEMMA LibraryFollows == RunInv => LibraryCurrent
  <1>. SUFFICES ASSUME RunInv, NEW p \in Makers, Succeeded(p, << "all" >>),
                       asked[p].dir = "root"
                PROVE  MadeOf("build/libfae.a", "src/stdriot.c")
    BY DEF LibraryCurrent
  <1>1. MakeInv /\ FilesInv /\ status[p] = "ok" /\ Promised(p, "build/libfae.a")
    BY DEF RunInv, TInv, Succeeded, LibraryPromised, OnTime
  <1>2. ~OutOfDate("build/stdriot.o") /\ ~OutOfDate("build/libfae.a")
    BY <1>1, PromiseKept DEF Parts, Goals
  <1>3. /\ "src/stdriot.c" \in Prerequisites("build/stdriot.o")
        /\ "build/stdriot.o" \in Prerequisites("build/libfae.a")
    BY DEF Prerequisites, Rules, Sources, Targets
  <1>4. disk["src/stdriot.c"].of \subseteq disk["build/libfae.a"].of
    BY <1>1, <1>2, <1>3, MadeOfPrerequisites DEF Targets
  <1>5. << "src/stdriot.c", disk["src/stdriot.c"].time >> \in disk["src/stdriot.c"].of
    BY <1>1 DEF FilesInv, Sources
  <1>. QED
    BY <1>4, <1>5 DEF MadeOf

LEMMA CleanBuildFollows == RunInv => CleanBuildCurrent
  <1>. SUFFICES ASSUME RunInv, NEW p \in Makers, Succeeded(p, << "realclean", "all" >>)
                PROVE  /\ \A f \in {"crt0/crt0.c", "crt0/link.ld", "src/include"} :
                            MadeOf("build/crt0.fae", f) /\ MadeOf("build/crt0.elf", f)
                       /\ asked[p].dir = "root" =>
                            \A f \in {"src/stdriot.c", "src/include"} :
                              MadeOf("build/libfae.a", f)
    BY DEF CleanBuildCurrent
  <1>1. /\ MakeInv /\ FilesInv /\ status[p] = "ok" /\ todo[p] = << >>
        /\ Promised(p, "build/crt0.fae") /\ ObjectNew(p, "build/crt0.o")
        /\ asked[p].dir = "root" =>
             Promised(p, "build/libfae.a") /\ ObjectNew(p, "build/stdriot.o")
    BY DEF RunInv, TInv, MakeInv, Succeeded, LibraryPromised, CleanPromised, OnTime
  <1>2. /\ ~OutOfDate("build/crt0.o") /\ ~OutOfDate("build/crt0.elf")
        /\ ~OutOfDate("build/crt0.fae")
        /\ asked[p].dir = "root" =>
             ~OutOfDate("build/stdriot.o") /\ ~OutOfDate("build/libfae.a")
    BY <1>1, PromiseKept DEF Parts, Goals
  <1>3. /\ "crt0/crt0.c" \in Prerequisites("build/crt0.o")
        /\ "build/crt0.o" \in Prerequisites("build/crt0.elf")
        /\ "crt0/link.ld" \in Prerequisites("build/crt0.elf")
        /\ "build/crt0.elf" \in Prerequisites("build/crt0.fae")
        /\ "src/stdriot.c" \in Prerequisites("build/stdriot.o")
        /\ "build/stdriot.o" \in Prerequisites("build/libfae.a")
    BY DEF Prerequisites, Rules, Sources, Targets
  <1>4. /\ disk["crt0/crt0.c"].of \subseteq disk["build/crt0.o"].of
        /\ disk["build/crt0.o"].of \subseteq disk["build/crt0.elf"].of
        /\ disk["crt0/link.ld"].of \subseteq disk["build/crt0.elf"].of
        /\ disk["build/crt0.elf"].of \subseteq disk["build/crt0.fae"].of
    BY <1>1, <1>2, <1>3, MadeOfPrerequisites DEF Targets
  <1>5. asked[p].dir = "root" =>
          /\ disk["src/stdriot.c"].of \subseteq disk["build/stdriot.o"].of
          /\ disk["build/stdriot.o"].of \subseteq disk["build/libfae.a"].of
    BY <1>1, <1>2, <1>3, MadeOfPrerequisites DEF Targets
  <1>6. \A t : ~Clears(todo[p], t)
    BY <1>1 DEF Clears
  <1>7. /\ disk["src/include"].of \subseteq disk["build/crt0.o"].of
        /\ asked[p].dir = "root" =>
             disk["src/include"].of \subseteq disk["build/stdriot.o"].of
    BY <1>1, <1>2, <1>6 DEF ObjectNew, OutOfDate
  <1>8. \A f \in Sources : << f, disk[f].time >> \in disk[f].of
    BY <1>1 DEF FilesInv
  <1>. QED
    BY <1>4, <1>5, <1>7, <1>8 DEF MadeOf, Sources

LEMMA NothingToDo == RunInv => NoNeedlessWork
  <1>1. \A dir, goal : Update(dir, goal).do = "update"
    BY DEF Update
  <1>. QED
    BY <1>1 DEF RunInv, Settled, NoNeedlessWork

-----------------------------------------------------------------------------
(***************************************************************************)
(* Theorems.                                                               *)
(***************************************************************************)

(* Whatever was edited, cleaned or interrupted before: when make all has   *)
(* succeeded at the root and nothing was edited since it began, the library*)
(* is compiled from stdriot.c as it is.                                    *)
THEOREM LibraryAlwaysCurrent ==
  OneMaker /\ ~EditDuringRecipes => (Spec => []LibraryCurrent)
  <1>. SUFFICES ASSUME OneMaker, ~EditDuringRecipes PROVE Spec => []LibraryCurrent
    OBVIOUS
  <1>. QED
    BY RunsKept, LibraryFollows, PTL

(* What make realclean all builds is made of every source as it is, of the *)
(* headers that no rule names too.                                         *)
THEOREM CleanBuildAlwaysCurrent ==
  OneMaker /\ ~EditDuringRecipes => (Spec => []CleanBuildCurrent)
  <1>. SUFFICES ASSUME OneMaker, ~EditDuringRecipes PROVE Spec => []CleanBuildCurrent
    OBVIOUS
  <1>. QED
    BY RunsKept, CleanBuildFollows, PTL

(* make all after make all runs no recipe, and removes nothing, although   *)
(* the files of build are older than the directory they were made in.      *)
THEOREM NeverNeedlessWork ==
  OneMaker /\ ~EditDuringRecipes => (Spec => []NoNeedlessWork)
  <1>. SUFFICES ASSUME OneMaker, ~EditDuringRecipes PROVE Spec => []NoNeedlessWork
    OBVIOUS
  <1>. QED
    BY RunsKept, NothingToDo, PTL
=============================================================================
