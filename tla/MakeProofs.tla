----------------------------- MODULE MakeProofs ------------------------------
(***************************************************************************)
(* What holds of the files and of each run of make, whoever runs it and    *)
(* whatever is edited: lemmas for the modules that extend Make.            *)
(***************************************************************************)
EXTENDS Make, SequenceTheorems, TLAPS

-----------------------------------------------------------------------------
(***************************************************************************)
(* The invariant.                                                          *)
(***************************************************************************)
Command ==
  [do : {"update"}, dir : {"root", "crt0"},
   what : {{"build/libfae.a"}, {"build/crt0.fae"}}]
    \cup [do : {"recipe"}, dir : {"any"}, what : {{target} : target \in Targets}]
    \cup [do : {"remove"}, dir : {"any"}, what : SUBSET Targets]

(* Versions of sources, up to now.                                         *)
Origins(now) == SUBSET (Sources \X (1 .. now))

MakeInv ==
  /\ clock \in Nat
  /\ disk \in [Sources \cup Targets -> [time : 0 .. clock, of : Origins(clock)]]
  /\ \A t \in Targets : disk[t].time = 0 => disk[t] = Absent
  /\ status \in [Makers -> {"idle", "running", "ok", "failed"}]
  /\ todo \in [Makers -> Seq(Command)]
  /\ read \in [Makers -> Seq(Origins(clock))]
  /\ \A p \in Makers :
       /\ status[p] # "running" => todo[p] = << >>
       /\ read[p] # << >> => Does(p, "recipe")

LEMMA MakeInvType == MakeInv => MakeTypeOK
  BY DEF MakeInv, MakeTypeOK, Origins

-----------------------------------------------------------------------------
(***************************************************************************)
(* Rules and commands.                                                     *)
(***************************************************************************)

(* Recipes read sources and targets.                                       *)
LEMMA InputsType == \A t \in Targets : Inputs(t) \subseteq Sources \cup Targets
  BY DEF Targets, Sources, Prerequisites, Inputs

LEMMA ChainType ==
  ASSUME NEW dir, NEW goal
  PROVE  \/ Chain(dir, goal) = << >>
         \/ Chain(dir, goal) \in Seq(Targets) /\ Len(Chain(dir, goal)) \in 3 .. 4
  <1>1. << "build", "build/stdriot.o", "build/libfae.a" >> \in Seq(Targets)
    BY DEF Targets
  <1>2. << "build", "build/crt0.o", "build/crt0.elf", "build/crt0.fae" >>
          \in Seq(Targets)
    BY DEF Targets
  <1>. QED
    BY <1>1, <1>2 DEF Chain

LEMMA FirstStaleType ==
  ASSUME NEW chain \in Seq(Targets), Len(chain) \in 3 .. 4
  PROVE  /\ FirstStale(chain) \in 2 .. (Len(chain) + 1)
         /\ \A j \in 2 .. (FirstStale(chain) - 1) : ~OutOfDate(chain[j])
         /\ FirstStale(chain) <= Len(chain) => OutOfDate(chain[FirstStale(chain)])
  <1>. SUFFICES \E i \in 2 .. (Len(chain) + 1) :
                  /\ \A j \in 2 .. (i - 1) : ~OutOfDate(chain[j])
                  /\ i <= Len(chain) => OutOfDate(chain[i])
    BY DEF FirstStale
  <1>1. CASE Len(chain) = 3
    BY <1>1, SMTT(20)
  <1>2. CASE Len(chain) = 4
    BY <1>2, SMTT(20)
  <1>. QED
    BY <1>1, <1>2

LEMMA ToMakeType ==
  ASSUME NEW chain \in Seq(Targets), Len(chain) \in 3 .. 4
  PROVE  ToMake(chain) \in Seq(Targets)
  <1>1. chain[1] \in Targets
    BY ElementOfSeq
  <1>2. SubSeq(chain, FirstStale(chain), Len(chain)) \in Seq(Targets)
    BY FirstStaleType, SubSeqProperties
  <1>3. (IF << chain[2], chain[1] >> \in OrderOnly /\ ~Exists(chain[1])
           THEN << chain[1] >> ELSE << >>) \in Seq(Targets)
    BY <1>1
  <1>. QED
    BY <1>2, <1>3, ConcatProperties DEF ToMake

LEMMA RecipesType ==
  ASSUME NEW targets \in Seq(Targets)
  PROVE  Recipes(targets) \in Seq(Command)
  <1>1. \A i \in 1 .. Len(targets) : Recipe(targets[i]) \in Command
    BY ElementOfSeq DEF Recipe, Command
  <1>. QED
    BY <1>1, LenProperties, IsASeq DEF Recipes

LEMMA CommandsType ==
  ASSUME NEW dir \in {"root", "crt0"}, NEW goal \in {"all", "clean", "realclean"}
  PROVE  Commands(dir, goal) \in Seq(Command)
  <1>1. \A d \in {"root", "crt0"}, g \in {"build/libfae.a", "build/crt0.fae"} :
          Update(d, g) \in Command
    BY DEF Update, Command
  <1>2. /\ Remove({"build/stdriot.o"}) \in Command
        /\ Remove({"build/crt0.o"}) \in Command
        /\ Remove({"build/crt0.fae", "build/crt0.elf"}) \in Command
        /\ Remove(Targets) \in Command
    BY DEF Remove, Command, Targets
  <1>. DEFINE keep  == Remove({"build/crt0.fae", "build/crt0.elf"})
              obj   == Remove({"build/stdriot.o"})
              crt   == Remove({"build/crt0.o"})
              wipe  == Remove(Targets)
              up(d, g) == Update(d, g)
  <1>3. /\ Commands("root", "all")
             = << up("root", "build/libfae.a"), up("root", "build/crt0.fae") >>
        /\ Commands("root", "clean") = << obj, crt >>
        /\ Commands("root", "realclean") = << obj, crt, keep, wipe >>
        /\ Commands("crt0", "all") = << up("crt0", "build/crt0.fae") >>
        /\ Commands("crt0", "clean") = << crt >>
        /\ Commands("crt0", "realclean") = << crt, keep >>
    BY DEF Commands, Phony
  <1>4. \A d \in {"root", "crt0"}, g \in {"build/libfae.a", "build/crt0.fae"} :
          up(d, g) \in Command
    BY <1>1
  <1>5. obj \in Command /\ crt \in Command /\ keep \in Command /\ wipe \in Command
    BY <1>2
  <1>. HIDE DEF up, obj, crt, keep, wipe
  <1>6. /\ << up("root", "build/libfae.a"), up("root", "build/crt0.fae") >> \in Seq(Command)
        /\ << up("crt0", "build/crt0.fae") >> \in Seq(Command)
    BY <1>4
  <1>7. /\ << obj, crt >> \in Seq(Command)
        /\ << obj, crt, keep, wipe >> \in Seq(Command)
        /\ << crt >> \in Seq(Command)
        /\ << crt, keep >> \in Seq(Command)
    BY <1>5
  <1>. QED
    BY <1>3, <1>6, <1>7

-----------------------------------------------------------------------------
(***************************************************************************)
(* Steps.                                                                  *)
(***************************************************************************)
LEMMA InitMakeInv == MakeInit => MakeInv
  <1>. SUFFICES ASSUME MakeInit PROVE MakeInv
    OBVIOUS
  <1>1. disk \in [Sources \cup Targets -> [time : 0 .. clock, of : Origins(clock)]]
    BY DEF MakeInit, Absent, Origins
  <1>2. todo \in [Makers -> Seq(Command)] /\ read \in [Makers -> Seq(Origins(clock))]
    BY DEF MakeInit
  <1>3. \A t \in Targets : disk[t] = Absent
    BY DEF MakeInit, Sources, Targets
  <1>. QED
    BY <1>1, <1>2, <1>3 DEF MakeInit, MakeInv

(* What a version was made of stays a version.                             *)
LEMMA OriginsGrow ==
  ASSUME NEW n \in Nat
  PROVE  /\ Origins(n) \subseteq Origins(n + 1)
         /\ Seq(Origins(n)) \subseteq Seq(Origins(n + 1))
         /\ [time : 0 .. n, of : Origins(n)]
              \subseteq [time : 0 .. (n + 1), of : Origins(n + 1)]
  <1>1. Origins(n) \subseteq Origins(n + 1)
    BY DEF Origins
  <1>2. Seq(Origins(n)) \subseteq Seq(Origins(n + 1))
    BY <1>1, SeqMonotonic
  <1>. QED
    BY <1>1, <1>2

LEMMA StartMakeInv ==
  ASSUME MakeInv, NEW p \in Makers, NEW dir, NEW goals,
         StartMake(p, dir, goals), UNCHANGED << disk, clock >>,
         AllCommands(dir, goals) \in Seq(Command)
  PROVE  MakeInv'
  BY DEF MakeInv, StartMake, Does

LEMMA UpdateInv ==
  ASSUME MakeInv, NEW p \in Makers, LookAtTimes(p)
  PROVE  MakeInv'
  <1>. DEFINE cmd == Head(todo[p])
              more == IF Chain(cmd.dir, Goal(p)) # << >>
                        THEN Recipes(ToMake(Chain(cmd.dir, Goal(p))))
                        ELSE IF Exists(Goal(p)) THEN << >> ELSE Commands("crt0", "all")
  <1>1. more \in Seq(Command)
    <2>1. Chain(cmd.dir, Goal(p)) # << >>
            => Recipes(ToMake(Chain(cmd.dir, Goal(p)))) \in Seq(Command)
      BY ChainType, ToMakeType, RecipesType
    <2>2. Commands("crt0", "all") \in Seq(Command)
      BY CommandsType
    <2>. QED
      BY <2>1, <2>2
  <1>2. todo[p] \in Seq(Command) /\ todo[p] # << >>
    BY DEF MakeInv, LookAtTimes, Does
  <1>3. more \o Tail(todo[p]) \in Seq(Command)
    BY <1>1, <1>2, HeadTailProperties, ConcatProperties
  <1>4. todo' = [todo EXCEPT ![p] = more \o Tail(todo[p])]
    BY DEF LookAtTimes
  <1>. HIDE DEF more
  <1>5. status[p] = "running" /\ read[p] = << >>
    BY DEF LookAtTimes, Does, MakeInv
  <1>6. todo' \in [Makers -> Seq(Command)] /\ todo \in [Makers -> Seq(Command)]
    BY <1>3, <1>4 DEF MakeInv
  <1>7. UNCHANGED << disk, clock, read, status >>
    BY DEF LookAtTimes
  <1>8. ASSUME NEW q \in Makers
        PROVE  /\ status[q] # "running" => todo'[q] = << >>
               /\ read[q] # << >> => Does(q, "recipe")'
    <2>1. CASE q = p
      BY <1>5, <2>1
    <2>2. CASE q # p
      <3>1. todo'[q] = todo[q]
        BY <1>4, <1>6, <2>2
      <3>. QED
        BY <1>7, <3>1 DEF MakeInv, Does
    <2>. QED
      BY <2>1, <2>2
  <1>. QED
    BY <1>6, <1>7, <1>8 DEF MakeInv

(* The target of a recipe.                                                 *)
LEMMA GoalType ==
  ASSUME MakeInv, NEW p \in Makers, Does(p, "recipe")
  PROVE  Goal(p) \in Targets
  <1>1. Head(todo[p]) \in Command
    BY HeadTailProperties DEF MakeInv, Does
  <1>2. \E target \in Targets : Head(todo[p]).what = {target}
    BY <1>1 DEF Command, Does
  <1>. QED
    BY <1>2 DEF Goal

LEMMA ReadInv ==
  ASSUME MakeInv, NEW p \in Makers, ReadInputs(p)
  PROVE  MakeInv'
  <1>1. Inputs(Goal(p)) \subseteq Sources \cup Targets
    BY GoalType, InputsType DEF ReadInputs
  <1>2. UNION {disk[f].of : f \in Inputs(Goal(p))} \in Origins(clock)
    BY <1>1 DEF MakeInv, Origins
  <1>3. << UNION {disk[f].of : f \in Inputs(Goal(p))} >> \in Seq(Origins(clock))
    BY <1>2
  <1>4. read' \in [Makers -> Seq(Origins(clock))]
    BY <1>3 DEF ReadInputs, MakeInv
  <1>5. \A q \in Makers : read'[q] # << >> => Does(q, "recipe")
    BY DEF ReadInputs, MakeInv
  <1>. QED
    BY <1>4, <1>5 DEF MakeInv, ReadInputs, Does

LEMMA WriteInv ==
  ASSUME MakeInv, NEW p \in Makers, WriteTarget(p)
  PROVE  MakeInv'
  <1>1. read[p][1] \in Origins(clock)
    BY EmptySeq, ElementOfSeq, LenProperties DEF WriteTarget, MakeInv
  <1>2. clock \in Nat /\ clock' = clock + 1
    BY DEF WriteTarget, MakeInv
  <1>3. Written(read[p][1]) \in [time : 0 .. clock', of : Origins(clock')]
    BY <1>1, <1>2, OriginsGrow DEF Written
  <1>4. disk' \in [Sources \cup Targets -> [time : 0 .. clock', of : Origins(clock')]]
    <2>1. PICK entry \in {disk["build"].time, clock + 1} :
            disk' = [disk EXCEPT ![Goal(p)] = Written(read[p][1]),
                                 !["build"].time = entry]
      BY DEF WriteTarget
    <2>. DEFINE made == [disk EXCEPT ![Goal(p)] = Written(read[p][1])]
    <2>2. made \in [Sources \cup Targets -> [time : 0 .. clock', of : Origins(clock')]]
      BY <1>2, <1>3, OriginsGrow DEF MakeInv
    <2>3. "build" \in Sources \cup Targets
      BY DEF Targets
    <2>4. entry \in 0 .. clock'
      BY <1>2, <2>1, <2>3 DEF MakeInv
    <2>5. disk' = [made EXCEPT !["build"].time = entry]
      BY <2>1
    <2>. HIDE DEF made
    <2>. QED
      BY <2>2, <2>3, <2>4, <2>5
  <1>5. \A t \in Targets : disk'[t].time = 0 => disk'[t] = Absent
    <2>1. PICK entry \in {disk["build"].time, clock + 1} :
            /\ Exists(Goal(p)) \/ entry = clock + 1
            /\ disk' = [disk EXCEPT ![Goal(p)] = Written(read[p][1]),
                                    !["build"].time = entry]
      BY DEF WriteTarget
    <2>. DEFINE made == [disk EXCEPT ![Goal(p)] = Written(read[p][1])]
    <2>2. /\ DOMAIN made = Sources \cup Targets
          /\ \A f \in Sources \cup Targets :
               made[f] = IF f = Goal(p) THEN Written(read[p][1]) ELSE disk[f]
          /\ disk' = [made EXCEPT !["build"].time = entry]
      BY <2>1 DEF MakeInv
    <2>3. \A t \in Targets : made[t].time = 0 => made[t] = Absent
      BY <1>2, <2>2 DEF MakeInv, Written
    <2>4. "build" \in Targets /\ disk["build"].time \in Int
      BY DEF Targets, MakeInv
    <2>. HIDE DEF made
    <2>5. \A t \in Targets \ {"build"} : disk'[t] = made[t]
      BY <2>2
    <2>6. disk'["build"].time = entry
      BY <2>2, <2>4, <1>4
    <2>7. entry # 0
      <3>1. CASE Goal(p) = "build"
        <4>1. disk["build"].time = 0 => ~Exists("build")
          BY <2>4 DEF MakeInv, Exists
        <4>. QED
          BY <1>2, <2>1, <3>1, <4>1
      <3>2. CASE Goal(p) # "build"
        <4>1. Exists("build")
          BY <3>2 DEF WriteTarget
        <4>2. disk["build"].time # 0
          BY <2>4, <4>1 DEF MakeInv, Exists
        <4>. QED
          BY <1>2, <2>1, <4>2
      <3>. QED
        BY <3>1, <3>2
    <2>. QED
      BY <2>3, <2>5, <2>6, <2>7
  <1>6. Tail(todo[p]) \in Seq(Command)
    BY HeadTailProperties DEF WriteTarget, Does, MakeInv
  <1>7. todo' \in [Makers -> Seq(Command)]
    BY <1>6 DEF WriteTarget, MakeInv
  <1>8. read' \in [Makers -> Seq(Origins(clock'))]
    BY <1>2, OriginsGrow DEF WriteTarget, MakeInv
  <1>9. /\ status' = status /\ status[p] = "running"
        /\ read' = [read EXCEPT ![p] = << >>] /\ todo' = [todo EXCEPT ![p] = Tail(@)]
    BY DEF WriteTarget, Does
  <1>10. ASSUME NEW q \in Makers
         PROVE  /\ status'[q] # "running" => todo'[q] = << >>
                /\ read'[q] # << >> => Does(q, "recipe")'
    BY <1>9 DEF MakeInv, Does
  <1>. QED
    BY <1>2, <1>4, <1>7, <1>8, <1>5, <1>9, <1>10 DEF MakeInv

LEMMA RemoveInv ==
  ASSUME MakeInv, NEW p \in Makers, RemoveFiles(p)
  PROVE  MakeInv'
  <1>. DEFINE gone == {f \in Head(todo[p]).what : Exists(f)}
  <1>1. /\ disk' = [f \in DOMAIN disk |->
                      IF f \in gone THEN Absent
                      ELSE IF f = "build" /\ gone # {} THEN Written({}) ELSE disk[f]]
        /\ clock' = IF gone = {} THEN clock ELSE clock + 1
    BY DEF RemoveFiles
  <1>. HIDE DEF gone
  <1>2. clock \in Nat /\ clock' \in {clock, clock + 1}
    BY <1>1 DEF MakeInv
  <1>3. /\ Absent \in [time : 0 .. clock', of : Origins(clock')]
        /\ gone # {} => Written({}) \in [time : 0 .. clock', of : Origins(clock')]
        /\ [time : 0 .. clock, of : Origins(clock)]
             \subseteq [time : 0 .. clock', of : Origins(clock')]
    BY <1>1, <1>2, OriginsGrow DEF Absent, Written, Origins
  <1>4. disk' \in [Sources \cup Targets -> [time : 0 .. clock', of : Origins(clock')]]
    BY <1>1, <1>3 DEF MakeInv
  <1>5. read' \in [Makers -> Seq(Origins(clock'))]
    BY <1>2, OriginsGrow DEF RemoveFiles, MakeInv
  <1>6. \A t \in Targets : disk'[t].time = 0 => disk'[t] = Absent
    BY <1>1, <1>2 DEF MakeInv, Written
  <1>7. Tail(todo[p]) \in Seq(Command)
    BY HeadTailProperties DEF RemoveFiles, Does, MakeInv
  <1>8. status[p] = "running" /\ read[p] = << >>
    BY DEF RemoveFiles, Does, MakeInv
  <1>. QED
    <2>1. todo' \in [Makers -> Seq(Command)] /\ UNCHANGED << read, status >>
      BY <1>7 DEF MakeInv, RemoveFiles
    <2>2. \A q \in Makers : status'[q] # "running" => todo'[q] = << >>
      BY <1>8, <2>1 DEF MakeInv, RemoveFiles
    <2>3. \A q \in Makers : read'[q] # << >> => q # p /\ Does(q, "recipe")
      BY <1>8, <2>1 DEF MakeInv
    <2>4. \A q \in Makers : read'[q] # << >> => Does(q, "recipe")'
      BY <2>1, <2>3 DEF MakeInv, RemoveFiles, Does
    <2>. QED
      BY <2>1, <2>2, <2>4, <1>2, <1>4, <1>5, <1>6 DEF MakeInv

LEMMA EndInv ==
  ASSUME MakeInv, NEW p \in Makers, MakeEnds(p) \/ MakeFails(p)
  PROVE  MakeInv'
  <1>1. CASE MakeEnds(p)
    BY <1>1 DEF MakeInv, MakeEnds, Does
  <1>2. CASE MakeFails(p)
    BY <1>2 DEF MakeInv, MakeFails, Does
  <1>. QED
    BY <1>1, <1>2

LEMMA StepMakeInv ==
  ASSUME MakeInv, NEW p \in Makers, MakeStep(p)
  PROVE  MakeInv'
  BY UpdateInv, ReadInv, WriteInv, RemoveInv, EndInv DEF MakeStep

LEMMA EditMakeInv ==
  ASSUME MakeInv, NEW f \in Sources, EditSource(f), UNCHANGED << todo, read, status >>
  PROVE  MakeInv'
  <1>1. clock \in Nat /\ clock' = clock + 1
    BY DEF EditSource, MakeInv
  <1>2. Written({<< f, clock + 1 >>}) \in [time : 0 .. clock', of : Origins(clock')]
    BY <1>1 DEF Written, Origins
  <1>3. disk' \in [Sources \cup Targets -> [time : 0 .. clock', of : Origins(clock')]]
    BY <1>1, <1>2, OriginsGrow DEF EditSource, MakeInv
  <1>4. read' \in [Makers -> Seq(Origins(clock'))]
    BY <1>1, OriginsGrow DEF MakeInv
  <1>5. \A t \in Targets : disk'[t] = disk[t]
    BY DEF EditSource, MakeInv, Sources, Targets
  <1>. QED
    BY <1>1, <1>3, <1>4, <1>5 DEF MakeInv, Does

LEMMA StutterMakeInv == MakeInv /\ UNCHANGED makeVars => MakeInv'
  BY DEF MakeInv, makeVars, Does

-----------------------------------------------------------------------------
(***************************************************************************)
(* What is left to do, as a sequence of commands.                          *)
(***************************************************************************)
Has(s, command) == \E i \in 1 .. Len(s) : s[i] = command

Looks(s, goal) == \E dir \in {"root", "crt0"} : Has(s, Update(dir, goal))

Clears(s, target) ==
  \E i \in 1 .. Len(s) : s[i].do = "remove" /\ target \in s[i].what

NoRemoves(s) == \A i \in 1 .. Len(s) : s[i].do # "remove"

(* Files are removed before anything is looked at or made.                 *)
RemovesFirst(s) ==
  \A i, j \in 1 .. Len(s) : i < j /\ s[j].do = "remove" => s[i].do = "remove"

(* When a target will be made again, so will be what is made of it.        *)
Followed(s) ==
  \A t, u \in Targets : \A i \in 1 .. Len(s) :
    t \in Prerequisites(u) /\ s[i] = Recipe(t)
      => \E j \in (i + 1) .. Len(s) : s[j] = Recipe(u)

(* make at the root looks at the loader once, and before any other does.   *)
OneLoader(s) ==
  \A i, j \in 1 .. Len(s) :
    /\ s[i] = Update("root", "build/crt0.fae")
    /\ s[j] \in {Update("root", "build/crt0.fae"), Update("crt0", "build/crt0.fae"),
                 Recipe("build/crt0.fae")}
    => i = j

Orderly(s) == Followed(s) /\ RemovesFirst(s) /\ OneLoader(s)

Parts(goal) ==
  IF goal = "build/libfae.a"
    THEN {"build/stdriot.o", "build/libfae.a"}
    ELSE {"build/crt0.o", "build/crt0.elf", "build/crt0.fae"}

(***************************************************************************)
(* What holds of the files.                                                *)
(***************************************************************************)

(* A source is its own origin.  A target that is not older than one of its *)
(* prerequisites is made of what that is made of.                          *)
FilesInv ==
  /\ \A f \in Sources : disk[f].time > 0 /\ disk[f].of = {<< f, disk[f].time >>}
  /\ \A t \in Targets : \A f \in Prerequisites(t) :
       Exists(t) /\ disk[f].time <= disk[t].time => disk[f].of \subseteq disk[t].of

(* What a recipe has read is what is there.                                *)
ReadCurrent(p) ==
  read[p] # << >> => read[p][1] = UNION {disk[f].of : f \in Inputs(Goal(p))}

(***************************************************************************)
(* What a run of make promises, as long as it does not fail.               *)
(***************************************************************************)

(* What is out of date will be made, once the times were looked at.        *)
Promised(p, goal) ==
  /\ ~NoRemoves(todo[p]) => Looks(todo[p], goal)
  /\ ~Looks(todo[p], goal) =>
       \A t \in Parts(goal) : OutOfDate(t) => Has(todo[p], Recipe(t))

(* The make at the root will find no loader.                               *)
LoaderGoes(p) ==
  Has(todo[p], Update("root", "build/crt0.fae"))
    => Clears(todo[p], "build/crt0.fae") \/ ~Exists("build/crt0.fae")

(* An object that was there before the run will go.                        *)
ObjectNew(p, object) ==
  \/ Clears(todo[p], object)
  \/ ~Exists(object)
  \/ disk["src/include"].of \subseteq disk[object].of

(* What the root needs will be there.                                      *)
WillExist(p) ==
  /\ NoRemoves(todo[p])
  /\ \/ Looks(todo[p], "build/libfae.a") \/ Exists("build")
     \/ Has(todo[p], Recipe("build"))
  /\ \/ Looks(todo[p], "build/crt0.fae") \/ Exists("build/crt0.fae")
     \/ Has(todo[p], Recipe("build/crt0.fae"))

-----------------------------------------------------------------------------
(***************************************************************************)
(* Sequences of commands.                                                  *)
(***************************************************************************)
LEMMA TailFacts ==
  ASSUME NEW s \in Seq(Command), s # << >>
  PROVE  /\ Tail(s) \in Seq(Command) /\ Head(s) = s[1] /\ Head(s) \in Command
         /\ Len(s) \in Nat \ {0} /\ Len(Tail(s)) = Len(s) - 1
         /\ \A i \in 1 .. Len(Tail(s)) : Tail(s)[i] = s[i + 1]
  <1>1. Len(s) \in Nat \ {0}
    BY EmptySeq
  <1>2. Head(s) = s[1]
    BY <1>1
  <1>3. /\ Head(s) \in Command /\ Tail(s) \in Seq(Command)
        /\ Len(Tail(s)) = Len(s) - 1
        /\ \A i \in 1 .. Len(Tail(s)) : Tail(s)[i] = s[i + 1]
    BY HeadTailProperties
  <1>. QED
    BY <1>1, <1>2, <1>3

LEMMA HasTail ==
  ASSUME NEW s \in Seq(Command), s # << >>, NEW command
  PROVE  Has(s, command) <=> command = Head(s) \/ Has(Tail(s), command)
  <1>1. ASSUME Has(s, command), command # Head(s) PROVE Has(Tail(s), command)
    <2>1. PICK i \in 1 .. Len(s) : s[i] = command
      BY <1>1 DEF Has
    <2>2. i - 1 \in 1 .. Len(Tail(s)) /\ Tail(s)[i - 1] = command
      BY <1>1, <2>1, TailFacts
    <2>. QED
      BY <2>2 DEF Has
  <1>2. ASSUME Has(Tail(s), command) PROVE Has(s, command)
    <2>1. PICK i \in 1 .. Len(Tail(s)) : Tail(s)[i] = command
      BY <1>2 DEF Has
    <2>2. i + 1 \in 1 .. Len(s) /\ s[i + 1] = command
      BY <2>1, TailFacts
    <2>. QED
      BY <2>2 DEF Has
  <1>3. Has(s, Head(s))
    BY TailFacts DEF Has
  <1>. QED
    BY <1>1, <1>2, <1>3

LEMMA HasConcat ==
  ASSUME NEW s \in Seq(Command), NEW t \in Seq(Command), NEW command
  PROVE  Has(s \o t, command) <=> Has(s, command) \/ Has(t, command)
  <1>0. Len(s) \in Nat /\ Len(t) \in Nat
    OBVIOUS
  <1>1. /\ Len(s \o t) = Len(s) + Len(t)
        /\ \A i \in 1 .. Len(s) + Len(t) :
             (s \o t)[i] = IF i <= Len(s) THEN s[i] ELSE t[i - Len(s)]
    BY ConcatProperties
  <1>2. ASSUME Has(s \o t, command) PROVE Has(s, command) \/ Has(t, command)
    <2>1. PICK i \in 1 .. Len(s) + Len(t) : (s \o t)[i] = command
      BY <1>1, <1>2 DEF Has
    <2>2. CASE i <= Len(s)
      BY <1>0, <1>1, <2>1, <2>2 DEF Has
    <2>3. CASE ~(i <= Len(s))
      <3>1. i - Len(s) \in 1 .. Len(t) /\ t[i - Len(s)] = command
        BY <1>0, <1>1, <2>1, <2>3
      <3>. QED
        BY <3>1 DEF Has
    <2>. QED
      BY <2>2, <2>3
  <1>3. ASSUME Has(s, command) PROVE Has(s \o t, command)
    <2>1. PICK i \in 1 .. Len(s) : s[i] = command
      BY <1>3 DEF Has
    <2>2. i \in 1 .. Len(s) + Len(t) /\ (s \o t)[i] = command
      BY <1>0, <1>1, <2>1
    <2>. QED
      BY <1>1, <2>2 DEF Has
  <1>4. ASSUME Has(t, command) PROVE Has(s \o t, command)
    <2>1. PICK i \in 1 .. Len(t) : t[i] = command
      BY <1>4 DEF Has
    <2>2. Len(s) + i \in 1 .. Len(s) + Len(t) /\ (s \o t)[Len(s) + i] = command
      BY <1>0, <1>1, <2>1
    <2>. QED
      BY <1>1, <2>2 DEF Has
  <1>. QED
    BY <1>2, <1>3, <1>4

LEMMA NoRemovesTail ==
  ASSUME NEW s \in Seq(Command), s # << >>, RemovesFirst(s)
  PROVE  /\ RemovesFirst(Tail(s))
         /\ Head(s).do # "remove" => NoRemoves(s) /\ NoRemoves(Tail(s))
  <1>1. RemovesFirst(Tail(s))
    <2>. SUFFICES ASSUME NEW i \in 1 .. Len(Tail(s)), NEW j \in 1 .. Len(Tail(s)),
                         i < j, Tail(s)[j].do = "remove"
                  PROVE  Tail(s)[i].do = "remove"
      BY DEF RemovesFirst
    <2>1. /\ i + 1 \in 1 .. Len(s) /\ j + 1 \in 1 .. Len(s) /\ i + 1 < j + 1
          /\ Tail(s)[i] = s[i + 1] /\ Tail(s)[j] = s[j + 1]
      BY TailFacts
    <2>. QED
      BY <2>1 DEF RemovesFirst
  <1>2. ASSUME Head(s).do # "remove" PROVE NoRemoves(s)
    <2>. SUFFICES ASSUME NEW i \in 1 .. Len(s), s[i].do = "remove" PROVE FALSE
      BY DEF NoRemoves
    <2>1. 1 \in 1 .. Len(s) /\ i # 1 /\ 1 < i
      BY <1>2, TailFacts
    <2>. QED
      BY <1>2, <2>1, TailFacts DEF RemovesFirst
  <1>3. NoRemoves(s) => NoRemoves(Tail(s))
    BY TailFacts DEF NoRemoves
  <1>. QED
    BY <1>1, <1>2, <1>3

LEMMA FollowedTail ==
  ASSUME NEW s \in Seq(Command), s # << >>, Followed(s)
  PROVE  /\ Followed(Tail(s))
         /\ \A t, u \in Targets : t \in Prerequisites(u) /\ Head(s) = Recipe(t)
              => Has(Tail(s), Recipe(u))
  <1>1. ASSUME NEW t \in Targets, NEW u \in Targets, NEW i \in 1 .. Len(s),
               t \in Prerequisites(u), s[i] = Recipe(t)
        PROVE  \E j \in i .. Len(Tail(s)) : Tail(s)[j] = Recipe(u)
    <2>1. PICK j \in (i + 1) .. Len(s) : s[j] = Recipe(u)
      BY <1>1 DEF Followed
    <2>2. j - 1 \in i .. Len(Tail(s)) /\ Tail(s)[j - 1] = s[j]
      BY <2>1, TailFacts
    <2>. QED
      BY <2>1, <2>2
  <1>2. ASSUME NEW t \in Targets, NEW u \in Targets, NEW i \in 1 .. Len(Tail(s)),
               t \in Prerequisites(u), Tail(s)[i] = Recipe(t)
        PROVE  \E j \in (i + 1) .. Len(Tail(s)) : Tail(s)[j] = Recipe(u)
    <2>1. i + 1 \in 1 .. Len(s) /\ s[i + 1] = Recipe(t)
      BY <1>2, TailFacts
    <2>. QED
      BY <1>1, <1>2, <2>1
  <1>3. ASSUME NEW t \in Targets, NEW u \in Targets,
               t \in Prerequisites(u), Head(s) = Recipe(t)
        PROVE  Has(Tail(s), Recipe(u))
    <2>1. 1 \in 1 .. Len(s) /\ s[1] = Recipe(t)
      BY <1>3, TailFacts
    <2>. QED
      BY <1>1, <1>3, <2>1 DEF Has
  <1>. QED
    BY <1>2, <1>3 DEF Followed

LEMMA FollowedConcat ==
  ASSUME NEW s \in Seq(Command), NEW t \in Seq(Command), Followed(s), Followed(t)
  PROVE  Followed(s \o t)
  <1>0. Len(s) \in Nat /\ Len(t) \in Nat
    OBVIOUS
  <1>1. /\ Len(s \o t) = Len(s) + Len(t)
        /\ \A i \in 1 .. Len(s) + Len(t) :
             (s \o t)[i] = IF i <= Len(s) THEN s[i] ELSE t[i - Len(s)]
    BY ConcatProperties
  <1>. SUFFICES ASSUME NEW x \in Targets, NEW u \in Targets,
                       NEW i \in 1 .. Len(s) + Len(t),
                       x \in Prerequisites(u), (s \o t)[i] = Recipe(x)
                PROVE  \E j \in (i + 1) .. (Len(s) + Len(t)) : (s \o t)[j] = Recipe(u)
    BY <1>1 DEF Followed
  <1>2. CASE i <= Len(s)
    <2>1. PICK j \in (i + 1) .. Len(s) : s[j] = Recipe(u)
      BY <1>0, <1>1, <1>2 DEF Followed
    <2>. QED
      BY <1>0, <1>1, <2>1
  <1>3. CASE ~(i <= Len(s))
    <2>1. i - Len(s) \in 1 .. Len(t) /\ t[i - Len(s)] = Recipe(x)
      BY <1>0, <1>1, <1>3
    <2>2. PICK j \in (i - Len(s) + 1) .. Len(t) : t[j] = Recipe(u)
      BY <2>1 DEF Followed
    <2>3. /\ j + Len(s) \in (i + 1) .. (Len(s) + Len(t))
          /\ j + Len(s) \in 1 .. Len(s) + Len(t)
          /\ ~(j + Len(s) <= Len(s)) /\ (j + Len(s)) - Len(s) = j
      BY <1>0, <2>2, <2>1
    <2>4. (s \o t)[j + Len(s)] = Recipe(u)
      BY <1>1, <2>2, <2>3
    <2>. QED
      BY <2>3, <2>4
  <1>. QED
    BY <1>2, <1>3

-----------------------------------------------------------------------------
(***************************************************************************)
(* What looking at the times adds.                                         *)
(***************************************************************************)

(* The first of a chain is a directory, which is made when it is missing.  *)
Headed(chain) == << chain[2], chain[1] >> \in OrderOnly /\ chain[1] = "build"

LEMMA ChainHeaded ==
  ASSUME NEW dir, NEW goal, Chain(dir, goal) # << >>
  PROVE  Headed(Chain(dir, goal))
  BY DEF Chain, Headed, OrderOnly

LEMMA ToMakeHas ==
  ASSUME NEW chain \in Seq(Targets), Len(chain) \in 3 .. 4, Headed(chain)
  PROVE  /\ \A i \in 1 .. Len(chain) : OutOfDate(chain[i]) =>
              \E k \in 1 .. Len(ToMake(chain)) : ToMake(chain)[k] = chain[i]
         /\ \A k \in 1 .. Len(ToMake(chain)) :
              \/ ToMake(chain)[k] = chain[1]
              \/ \E i \in 2 .. Len(chain) :
                   /\ ToMake(chain)[k] = chain[i]
                   /\ i < Len(chain) =>
                        /\ k + 1 \in 1 .. Len(ToMake(chain))
                        /\ ToMake(chain)[k + 1] = chain[i + 1]
         /\ (\A i \in 1 .. Len(chain) : ~OutOfDate(chain[i])) => Len(ToMake(chain)) = 0
  <1>. DEFINE first == IF << chain[2], chain[1] >> \in OrderOnly /\ ~Exists(chain[1])
                         THEN << chain[1] >> ELSE << >>
              n     == Len(chain)
              m     == FirstStale(chain)
              rest  == SubSeq(chain, m, n)
  <1>1. /\ n \in 3 .. 4 /\ \A i \in 1 .. n : chain[i] \in Targets
        /\ m \in 2 .. (n + 1) /\ \A j \in 2 .. (m - 1) : ~OutOfDate(chain[j])
        /\ m <= n => OutOfDate(chain[m])
    BY FirstStaleType, ElementOfSeq
  <1>2. /\ first \in Seq(Targets) /\ Len(first) \in 0 .. 1
        /\ Len(first) = 1 <=> OutOfDate(chain[1])
        /\ Len(first) = 1 => first[1] = chain[1]
    <2>1. OutOfDate(chain[1]) <=> ~Exists(chain[1])
      BY DEF Headed, OutOfDate, Prerequisites, Rules
    <2>. QED
      BY <1>1, <2>1 DEF Headed
  <1>. HIDE DEF m
  <1>3. /\ rest \in Seq(Targets)
        /\ Len(rest) = n - m + 1
        /\ \A i \in 1 .. n - m + 1 : rest[i] = chain[m + i - 1]
    BY <1>1, SubSeqProperties
  <1>4. ToMake(chain) = first \o rest
    BY DEF ToMake, m
  <1>. HIDE DEF first, rest
  <1>5. /\ Len(ToMake(chain)) = Len(first) + n - m + 1
        /\ \A k \in 1 .. (Len(first) + n - m + 1) :
             ToMake(chain)[k] = IF k <= Len(first) THEN first[k]
                                ELSE chain[m + (k - Len(first)) - 1]
    <2>1. /\ Len(ToMake(chain)) = Len(first) + Len(rest)
          /\ \A k \in 1 .. (Len(first) + Len(rest)) :
               ToMake(chain)[k] = IF k <= Len(first) THEN first[k]
                                                     ELSE rest[k - Len(first)]
      BY <1>2, <1>3, <1>4, ConcatProperties
    <2>2. \A k \in 1 .. (Len(first) + Len(rest)) :
            ~(k <= Len(first)) => k - Len(first) \in 1 .. n - m + 1
      BY <1>1, <1>2, <1>3
    <2>. QED
      BY <1>1, <1>2, <1>3, <2>1, <2>2
  <1>. HIDE DEF n
  <1>6. ASSUME NEW i \in 1 .. n, OutOfDate(chain[i])
        PROVE  \E k \in 1 .. Len(ToMake(chain)) : ToMake(chain)[k] = chain[i]
    <2>1. CASE i = 1
      <3>1. 1 \in 1 .. Len(ToMake(chain)) /\ 1 <= Len(first)
        BY <1>1, <1>2, <1>5, <1>6, <2>1
      <3>2. ToMake(chain)[1] = chain[i]
        BY <1>1, <1>2, <1>5, <2>1, <3>1
      <3>. QED
        BY <3>1, <3>2
    <2>2. CASE i # 1
      <3>. DEFINE k == i - m + 1 + Len(first)
      <3>1. m <= i
        BY <1>1, <1>6, <2>2
      <3>2. /\ k \in 1 .. (Len(first) + n - m + 1)
            /\ ~(k <= Len(first)) /\ m + (k - Len(first)) - 1 = i
        BY <1>1, <1>2, <3>1
      <3>3. ToMake(chain)[k] = chain[i]
        BY <1>5, <3>2
      <3>. QED
        BY <1>5, <3>2, <3>3
    <2>. QED
      BY <2>1, <2>2
  <1>7. ASSUME NEW k \in 1 .. Len(ToMake(chain)), ToMake(chain)[k] # chain[1]
        PROVE  \E i \in 2 .. n :
                 /\ ToMake(chain)[k] = chain[i]
                 /\ i < n =>
                      /\ k + 1 \in 1 .. Len(ToMake(chain))
                      /\ ToMake(chain)[k + 1] = chain[i + 1]
    <2>. DEFINE i == m + (k - Len(first)) - 1
    <2>1. ~(k <= Len(first))
      BY <1>2, <1>5, <1>7
    <2>2. i \in 2 .. n /\ ToMake(chain)[k] = chain[i]
      BY <1>1, <1>2, <1>5, <2>1
    <2>3. i < n => /\ k + 1 \in 1 .. Len(ToMake(chain))
                   /\ ~(k + 1 <= Len(first))
                   /\ m + (k + 1 - Len(first)) - 1 = i + 1
      BY <1>1, <1>2, <1>5, <2>1
    <2>4. i < n => ToMake(chain)[k + 1] = chain[i + 1]
      BY <1>5, <2>3
    <2>. QED
      BY <2>2, <2>3, <2>4
  <1>8. (\A i \in 1 .. n : ~OutOfDate(chain[i])) => Len(ToMake(chain)) = 0
    BY <1>1, <1>2, <1>5
  <1>. QED
    BY <1>6, <1>7, <1>8 DEF n

(* Recipes of targets have no other commands among them.                   *)
LEMMA RecipesHave ==
  ASSUME NEW targets \in Seq(Targets), NEW command
  PROVE  Has(Recipes(targets), command)
           <=> \E k \in 1 .. Len(targets) : command = Recipe(targets[k])
  <1>1. /\ Len(Recipes(targets)) = Len(targets) /\ Len(targets) \in Nat
        /\ \A k \in 1 .. Len(targets) : Recipes(targets)[k] = Recipe(targets[k])
    BY DEF Recipes
  <1>. QED
    BY <1>1 DEF Has

(* The chain of a goal links each target to the one it is made for.        *)
LEMMA ChainFollowed ==
  ASSUME NEW dir, NEW goal, Chain(dir, goal) # << >>
  PROVE  LET s == Recipes(ToMake(Chain(dir, goal)))
         IN  /\ Followed(s)
             /\ \A i \in 1 .. Len(Chain(dir, goal)) :
                  OutOfDate(Chain(dir, goal)[i]) => Has(s, Recipe(Chain(dir, goal)[i]))
             /\ (\A i \in 1 .. Len(Chain(dir, goal)) : ~OutOfDate(Chain(dir, goal)[i]))
                  => s = << >>
  <1>. DEFINE chain == Chain(dir, goal)
              made  == ToMake(chain)
  <1>1. chain \in Seq(Targets) /\ Len(chain) \in 3 .. 4 /\ Headed(chain)
    BY ChainType, ChainHeaded
  <1>2. made \in Seq(Targets)
    BY <1>1, ToMakeType
  <1>3. ASSUME NEW t \in Targets, NEW u \in Targets, t \in Prerequisites(u)
        PROVE  /\ chain[1] # t
               /\ \A i \in 2 .. Len(chain) :
                    chain[i] = t => i < Len(chain) /\ chain[i + 1] = u
    <2>1. t # "build"
      BY <1>3 DEF Prerequisites, Rules
    <2>2. chain[1] = "build"
      BY DEF Chain
    <2>3. \/ chain = << "build", "build/stdriot.o", "build/libfae.a" >>
          \/ chain = << "build", "build/crt0.o", "build/crt0.elf", "build/crt0.fae" >>
      BY DEF Chain
    <2>4. /\ t = "build/stdriot.o" => u = "build/libfae.a"
          /\ t = "build/crt0.o" => u = "build/crt0.elf"
          /\ t = "build/crt0.elf" => u = "build/crt0.fae"
          /\ t \notin {"build/libfae.a", "build/crt0.fae"}
      BY <1>3 DEF Prerequisites, Rules
    <2>. HIDE DEF chain
    <2>5. CASE chain = << "build", "build/stdriot.o", "build/libfae.a" >>
      BY <2>1, <2>2, <2>4, <2>5
    <2>6. CASE chain = << "build", "build/crt0.o", "build/crt0.elf", "build/crt0.fae" >>
      BY <2>1, <2>2, <2>4, <2>6
    <2>. QED
      BY <2>3, <2>5, <2>6
  <1>. HIDE DEF chain
  <1>4. Len(Recipes(made)) = Len(made) /\ Len(made) \in Nat
        /\ \A k \in 1 .. Len(made) : Recipes(made)[k] = Recipe(made[k])
    BY <1>2 DEF Recipes
  <1>5. Followed(Recipes(made))
    <2>. SUFFICES ASSUME NEW t \in Targets, NEW u \in Targets, NEW k \in 1 .. Len(made),
                         t \in Prerequisites(u), Recipe(made[k]) = Recipe(t)
                  PROVE  \E j \in (k + 1) .. Len(made) : Recipe(made[j]) = Recipe(u)
      BY <1>4 DEF Followed
    <2>1. made[k] = t
      BY Zenon DEF Recipe
    <2>2. made[k] # chain[1]
      BY <1>3, <2>1
    <2>3. PICK i \in 2 .. Len(chain) :
            /\ made[k] = chain[i]
            /\ i < Len(chain) => k + 1 \in 1 .. Len(made) /\ made[k + 1] = chain[i + 1]
      BY <1>1, <2>2, ToMakeHas
    <2>4. k + 1 \in 1 .. Len(made) /\ made[k + 1] = u
      BY <1>3, <2>1, <2>3
    <2>. QED
      BY <1>4, <2>4
  <1>6. ASSUME NEW i \in 1 .. Len(chain), OutOfDate(chain[i])
        PROVE  Has(Recipes(made), Recipe(chain[i]))
    BY <1>1, <1>2, <1>6, ToMakeHas, RecipesHave
  <1>7. (\A i \in 1 .. Len(chain) : ~OutOfDate(chain[i])) => Recipes(made) = << >>
    BY <1>1, <1>4, ToMakeHas DEF Recipes
  <1>. QED
    BY <1>5, <1>6, <1>7 DEF chain

LEMMA NoRemovesConcat ==
  ASSUME NEW s \in Seq(Command), NEW t \in Seq(Command), NoRemoves(s), NoRemoves(t)
  PROVE  NoRemoves(s \o t)
  <1>0. Len(s) \in Nat /\ Len(t) \in Nat
    OBVIOUS
  <1>1. /\ Len(s \o t) = Len(s) + Len(t)
        /\ \A i \in 1 .. Len(s) + Len(t) :
             (s \o t)[i] = IF i <= Len(s) THEN s[i] ELSE t[i - Len(s)]
    BY ConcatProperties
  <1>. SUFFICES ASSUME NEW i \in 1 .. Len(s) + Len(t) PROVE (s \o t)[i].do # "remove"
    BY <1>1 DEF NoRemoves
  <1>2. CASE i <= Len(s)
    BY <1>0, <1>1, <1>2 DEF NoRemoves
  <1>3. CASE ~(i <= Len(s))
    <2>1. i - Len(s) \in 1 .. Len(t)
      BY <1>0, <1>3
    <2>. QED
      BY <1>1, <1>3, <2>1 DEF NoRemoves
  <1>. QED
    BY <1>2, <1>3

LEMMA ClearsTail ==
  ASSUME NEW s \in Seq(Command), s # << >>, NEW target, Clears(s, target)
  PROVE  \/ Head(s).do = "remove" /\ target \in Head(s).what
         \/ Clears(Tail(s), target)
  <1>1. PICK i \in 1 .. Len(s) : s[i].do = "remove" /\ target \in s[i].what
    BY DEF Clears
  <1>2. CASE i = 1
    BY <1>1, <1>2, TailFacts
  <1>3. CASE i # 1
    <2>1. i - 1 \in 1 .. Len(Tail(s)) /\ Tail(s)[i - 1] = s[i]
      BY <1>3, TailFacts
    <2>. QED
      BY <1>1, <2>1 DEF Clears
  <1>. QED
    BY <1>2, <1>3

LEMMA OneLoaderTail ==
  ASSUME NEW s \in Seq(Command), s # << >>, OneLoader(s)
  PROVE  /\ OneLoader(Tail(s))
         /\ \A c \in {Update("root", "build/crt0.fae"), Update("crt0", "build/crt0.fae"),
                      Recipe("build/crt0.fae")} :
              Head(s) = Update("root", "build/crt0.fae") => ~Has(Tail(s), c)
         /\ Head(s) \in {Update("root", "build/crt0.fae"), Update("crt0", "build/crt0.fae"),
                         Recipe("build/crt0.fae")}
              => ~Has(Tail(s), Update("root", "build/crt0.fae"))
  <1>. DEFINE root == Update("root", "build/crt0.fae")
              any  == {root, Update("crt0", "build/crt0.fae"), Recipe("build/crt0.fae")}
  <1>1. \A i, j \in 1 .. Len(s) : s[i] = root /\ s[j] \in any => i = j
    BY DEF OneLoader
  <1>. HIDE DEF root, any
  <1>2. ASSUME NEW i \in 1 .. Len(Tail(s)), NEW j \in 1 .. Len(Tail(s)),
               Tail(s)[i] = root, Tail(s)[j] \in any
        PROVE  i = j
    <2>1. /\ i + 1 \in 1 .. Len(s) /\ s[i + 1] = root
          /\ j + 1 \in 1 .. Len(s) /\ s[j + 1] \in any
      BY <1>2, TailFacts
    <2>2. i + 1 = j + 1
      BY <1>1, <2>1
    <2>. QED
      BY <2>2
  <1>3. ASSUME NEW j \in 1 .. Len(Tail(s))
        PROVE  /\ Head(s) = root => Tail(s)[j] \notin any
               /\ Head(s) \in any => Tail(s)[j] # root
    <2>1. 1 \in 1 .. Len(s) /\ j + 1 \in 1 .. Len(s) /\ j + 1 # 1
          /\ Head(s) = s[1] /\ Tail(s)[j] = s[j + 1]
      BY TailFacts
    <2>. QED
      BY <1>1, <2>1
  <1>4. OneLoader(Tail(s))
    BY <1>2 DEF OneLoader, root, any
  <1>5. \A c \in any : Head(s) = root => ~Has(Tail(s), c)
    BY <1>3 DEF Has
  <1>6. Head(s) \in any => ~Has(Tail(s), root)
    BY <1>3 DEF Has
  <1>. QED
    BY <1>4, <1>5, <1>6 DEF root, any

LEMMA OneLoaderConcat ==
  ASSUME NEW s \in Seq(Command), NEW t \in Seq(Command), OneLoader(t),
         ~Has(s, Update("root", "build/crt0.fae")),
         Has(t, Update("root", "build/crt0.fae"))
           => /\ ~Has(s, Update("crt0", "build/crt0.fae"))
              /\ ~Has(s, Recipe("build/crt0.fae"))
  PROVE  OneLoader(s \o t)
  <1>. DEFINE root == Update("root", "build/crt0.fae")
              any  == {root, Update("crt0", "build/crt0.fae"), Recipe("build/crt0.fae")}
  <1>0. Len(s) \in Nat /\ Len(t) \in Nat
    OBVIOUS
  <1>1. /\ Len(s \o t) = Len(s) + Len(t)
        /\ \A i \in 1 .. Len(s) + Len(t) :
             (s \o t)[i] = IF i <= Len(s) THEN s[i] ELSE t[i - Len(s)]
    BY ConcatProperties
  <1>2. \A i \in 1 .. Len(s) : s[i] # root
    BY DEF Has
  <1>3. ASSUME NEW i \in 1 .. Len(t), t[i] = root
        PROVE  \A j \in 1 .. Len(s) : s[j] \notin any
    BY <1>3 DEF Has
  <1>4. \A i, j \in 1 .. Len(t) : t[i] = root /\ t[j] \in any => i = j
    BY DEF OneLoader
  <1>. HIDE DEF root, any
  <1>5. ASSUME NEW i \in 1 .. Len(s) + Len(t), NEW j \in 1 .. Len(s) + Len(t),
               (s \o t)[i] = root, (s \o t)[j] \in any
        PROVE  i = j
    <2>1. ~(i <= Len(s)) /\ i - Len(s) \in 1 .. Len(t) /\ t[i - Len(s)] = root
      BY <1>0, <1>1, <1>2, <1>5
    <2>2. ~(j <= Len(s)) /\ j - Len(s) \in 1 .. Len(t) /\ t[j - Len(s)] \in any
      BY <1>0, <1>1, <1>3, <1>5, <2>1
    <2>3. i - Len(s) = j - Len(s)
      BY <1>4, <2>1, <2>2
    <2>. QED
      BY <1>0, <2>3
  <1>. QED
    BY <1>1, <1>5 DEF OneLoader, root, any

(* The commands that looking at the times puts in front of the others.     *)
Added(p, dir, goal, more) ==
  /\ more \in Seq(Command) /\ Followed(more) /\ NoRemoves(more)
  /\ ~Has(more, Update("root", "build/crt0.fae"))
  /\ goal = "build/libfae.a" =>
       /\ ~Has(more, Update("crt0", "build/crt0.fae"))
       /\ ~Has(more, Recipe("build/crt0.fae"))
       /\ \A t \in {"build"} \cup Parts("build/libfae.a") :
            OutOfDate(t) => Has(more, Recipe(t))
       /\ (\A t \in {"build"} \cup Parts("build/libfae.a") : ~OutOfDate(t))
            => more = << >>
  /\ goal = "build/crt0.fae" /\ dir = "crt0" =>
       \A t \in Parts("build/crt0.fae") : OutOfDate(t) => Has(more, Recipe(t))
  /\ goal = "build/crt0.fae" /\ dir = "root" =>
       /\ Exists("build/crt0.fae") => more = << >>
       /\ ~Exists("build/crt0.fae") => Has(more, Update("crt0", "build/crt0.fae"))

LEMMA UpdateHead ==
  ASSUME MakeInv, NEW p \in Makers, Does(p, "update")
  PROVE  /\ Goal(p) \in {"build/libfae.a", "build/crt0.fae"}
         /\ Head(todo[p]).dir \in {"root", "crt0"}
         /\ Head(todo[p]) = Update(Head(todo[p]).dir, Goal(p))
  <1>1. Head(todo[p]) \in Command /\ Head(todo[p]).do = "update"
    BY TailFacts DEF MakeInv, Does
  <1>2. Head(todo[p]) \in [do : {"update"}, dir : {"root", "crt0"},
                           what : {{"build/libfae.a"}, {"build/crt0.fae"}}]
    BY <1>1 DEF Command
  <1>3. PICK g \in {"build/libfae.a", "build/crt0.fae"} : Head(todo[p]).what = {g}
    BY <1>2
  <1>4. Goal(p) = g
    BY <1>3 DEF Goal
  <1>. QED
    BY <1>2, <1>3, <1>4 DEF Update

(* Recipes are not commands of another kind.                               *)
LEMMA OnlyRecipes ==
  ASSUME NEW targets \in Seq(Targets)
  PROVE  /\ NoRemoves(Recipes(targets))
         /\ \A dir, goal : ~Has(Recipes(targets), Update(dir, goal))
  <1>1. /\ Len(Recipes(targets)) = Len(targets) /\ Len(targets) \in Nat
        /\ \A k \in 1 .. Len(targets) : Recipes(targets)[k] = Recipe(targets[k])
    BY DEF Recipes
  <1>2. \A t : Recipe(t).do = "recipe"
    BY DEF Recipe
  <1>3. \A dir, goal : Update(dir, goal).do = "update"
    BY DEF Update
  <1>4. NoRemoves(Recipes(targets))
    BY <1>1, <1>2 DEF NoRemoves
  <1>5. \A dir, goal : ~Has(Recipes(targets), Update(dir, goal))
    BY <1>1, <1>2, <1>3 DEF Has
  <1>. QED
    BY <1>4, <1>5

(* Only what is in a chain is made for its goal.                           *)
LEMMA ToMakeInChain ==
  ASSUME NEW chain \in Seq(Targets), Len(chain) \in 3 .. 4, Headed(chain), NEW t,
         \A i \in 1 .. Len(chain) : chain[i] # t
  PROVE  ~Has(Recipes(ToMake(chain)), Recipe(t))
  <1>. SUFFICES ASSUME NEW k \in 1 .. Len(ToMake(chain)),
                       Recipe(t) = Recipe(ToMake(chain)[k])
                PROVE  FALSE
    BY ToMakeType, RecipesHave
  <1>1. ToMake(chain)[k] = t
    BY Zenon DEF Recipe
  <1>2. \E i \in 1 .. Len(chain) : ToMake(chain)[k] = chain[i]
    BY ToMakeHas
  <1>. QED
    BY <1>1, <1>2

LEMMA UpdateAdds ==
  ASSUME MakeInv, NEW p \in Makers, LookAtTimes(p)
  PROVE  \E more : /\ Added(p, Head(todo[p]).dir, Goal(p), more)
                   /\ todo'[p] = more \o Tail(todo[p])
  <1>. DEFINE dir  == Head(todo[p]).dir
              goal == Goal(p)
              more == IF Chain(dir, goal) # << >>
                        THEN Recipes(ToMake(Chain(dir, goal)))
                        ELSE IF Exists(goal) THEN << >> ELSE Commands("crt0", "all")
  <1>1. /\ dir \in {"root", "crt0"} /\ goal \in {"build/libfae.a", "build/crt0.fae"}
        /\ todo'[p] = more \o Tail(todo[p])
    BY UpdateHead DEF LookAtTimes, MakeInv
  <1>. HIDE DEF dir, goal
  <1>2. ASSUME Chain(dir, goal) # << >>
        PROVE  /\ more \in Seq(Command) /\ Followed(more) /\ NoRemoves(more)
               /\ \A d, g : ~Has(more, Update(d, g))
               /\ \A i \in 1 .. Len(Chain(dir, goal)) :
                    OutOfDate(Chain(dir, goal)[i]) => Has(more, Recipe(Chain(dir, goal)[i]))
               /\ (\A i \in 1 .. Len(Chain(dir, goal)) : ~OutOfDate(Chain(dir, goal)[i]))
                    => more = << >>
               /\ \A t : (\A i \in 1 .. Len(Chain(dir, goal)) : Chain(dir, goal)[i] # t)
                    => ~Has(more, Recipe(t))
    <2>1. more = Recipes(ToMake(Chain(dir, goal)))
      BY <1>2
    <2>2. Chain(dir, goal) \in Seq(Targets) /\ Len(Chain(dir, goal)) \in 3 .. 4
      BY <1>2, ChainType
    <2>3. ToMake(Chain(dir, goal)) \in Seq(Targets)
      BY <2>2, ToMakeType
    <2>4. Headed(Chain(dir, goal))
      BY <1>2, ChainHeaded
    <2>. HIDE DEF more
    <2>5. more \in Seq(Command) /\ NoRemoves(more) /\ \A d, g : ~Has(more, Update(d, g))
      BY <2>1, <2>3, RecipesType, OnlyRecipes
    <2>6. \A t : (\A i \in 1 .. Len(Chain(dir, goal)) : Chain(dir, goal)[i] # t)
                    => ~Has(more, Recipe(t))
      BY <2>1, <2>2, <2>4, ToMakeInChain
    <2>. QED
      BY <1>2, <2>1, <2>5, <2>6, ChainFollowed
  <1>3. CASE goal = "build/libfae.a"
    <2>1. Chain(dir, goal) = << "build", "build/stdriot.o", "build/libfae.a" >>
      BY <1>3 DEF Chain
    <2>. DEFINE chain == << "build", "build/stdriot.o", "build/libfae.a" >>
    <2>2. /\ Len(chain) = 3 /\ chain[1] = "build" /\ chain[2] = "build/stdriot.o"
          /\ chain[3] = "build/libfae.a" /\ chain # << >>
      OBVIOUS
    <2>3. Chain(dir, goal) = chain
      BY <2>1
    <2>. HIDE DEF chain, more
    <2>4. Parts("build/libfae.a") = {"build/stdriot.o", "build/libfae.a"}
      BY DEF Parts
    <2>5. /\ more \in Seq(Command) /\ Followed(more) /\ NoRemoves(more)
          /\ \A d, g : ~Has(more, Update(d, g))
      BY <1>2, <2>2, <2>3
    <2>6. \A t \in {"build"} \cup Parts("build/libfae.a") :
            OutOfDate(t) => Has(more, Recipe(t))
      <3>1. 1 \in 1 .. Len(chain) /\ 2 \in 1 .. Len(chain) /\ 3 \in 1 .. Len(chain)
        BY <2>2
      <3>2. \A i \in 1 .. Len(chain) : OutOfDate(chain[i]) => Has(more, Recipe(chain[i]))
        BY <1>2, <2>2, <2>3
      <3>3. /\ OutOfDate("build") => Has(more, Recipe("build"))
            /\ OutOfDate("build/stdriot.o") => Has(more, Recipe("build/stdriot.o"))
            /\ OutOfDate("build/libfae.a") => Has(more, Recipe("build/libfae.a"))
        BY <2>2, <3>1, <3>2
      <3>. QED
        BY <2>4, <3>3
    <2>7. (\A t \in {"build"} \cup Parts("build/libfae.a") : ~OutOfDate(t))
            => more = << >>
      <3>1. \A i \in 1 .. 3 : i = 1 \/ i = 2 \/ i = 3
        OBVIOUS
      <3>. QED
        BY <1>2, <2>2, <2>3, <2>4, <3>1
    <2>8. ~Has(more, Recipe("build/crt0.fae"))
      <3>1. \A i \in 1 .. Len(chain) : chain[i] # "build/crt0.fae"
        BY <2>2
      <3>. QED
        BY <1>2, <2>2, <2>3, <3>1
    <2>9. Added(p, dir, goal, more)
      BY <1>3, <2>5, <2>6, <2>7, <2>8 DEF Added
    <2>. QED
      BY <1>1, <2>9 DEF dir, goal
  <1>4. CASE goal = "build/crt0.fae" /\ dir = "crt0"
    <2>1. Chain(dir, goal)
            = << "build", "build/crt0.o", "build/crt0.elf", "build/crt0.fae" >>
      BY <1>4 DEF Chain
    <2>. DEFINE chain == << "build", "build/crt0.o", "build/crt0.elf", "build/crt0.fae" >>
    <2>2. /\ Len(chain) = 4 /\ chain[2] = "build/crt0.o" /\ chain[3] = "build/crt0.elf"
          /\ chain[4] = "build/crt0.fae" /\ chain # << >>
      OBVIOUS
    <2>3. Chain(dir, goal) = chain
      BY <2>1
    <2>. HIDE DEF chain, more
    <2>4. Parts("build/crt0.fae") = {"build/crt0.o", "build/crt0.elf", "build/crt0.fae"}
      BY DEF Parts
    <2>5. /\ more \in Seq(Command) /\ Followed(more) /\ NoRemoves(more)
          /\ \A d, g : ~Has(more, Update(d, g))
      BY <1>2, <2>2, <2>3
    <2>6. \A t \in Parts("build/crt0.fae") : OutOfDate(t) => Has(more, Recipe(t))
      <3>1. 2 \in 1 .. Len(chain) /\ 3 \in 1 .. Len(chain) /\ 4 \in 1 .. Len(chain)
        BY <2>2
      <3>2. \A i \in 1 .. Len(chain) : OutOfDate(chain[i]) => Has(more, Recipe(chain[i]))
        BY <1>2, <2>2, <2>3
      <3>. QED
        BY <2>2, <2>4, <3>1, <3>2
    <2>7. Added(p, dir, goal, more)
      BY <1>4, <2>5, <2>6 DEF Added
    <2>. QED
      BY <1>1, <2>7 DEF dir, goal
  <1>5. CASE goal = "build/crt0.fae" /\ dir = "root"
    <2>1. more = IF Exists(goal) THEN << >> ELSE << Update("crt0", "build/crt0.fae") >>
      BY <1>5 DEF Chain, Commands, Phony
    <2>2. Commands("crt0", "all") = << Update("crt0", "build/crt0.fae") >>
      BY DEF Commands, Phony
    <2>. HIDE DEF more
    <2>3. more \in Seq(Command)
      <3>1. Commands("crt0", "all") \in Seq(Command)
        BY CommandsType
      <3>. QED
        BY <2>1, <2>2, <3>1
    <2>4. \A t : Update("crt0", "build/crt0.fae") # Recipe(t)
      BY DEF Update, Recipe
    <2>5. Update("crt0", "build/crt0.fae") # Update("root", "build/crt0.fae")
      BY DEF Update
    <2>6. Update("crt0", "build/crt0.fae").do # "remove"
      BY DEF Update
    <2>7. \/ Exists(goal) /\ more = << >> /\ Len(more) = 0
          \/ /\ ~Exists(goal)
             /\ Len(more) = 1 /\ more[1] = Update("crt0", "build/crt0.fae")
      BY <2>1
    <2>8. Followed(more) /\ NoRemoves(more) /\ ~Has(more, Update("root", "build/crt0.fae"))
      BY <2>4, <2>5, <2>6, <2>7 DEF Followed, NoRemoves, Has
    <2>9. ~Exists(goal) => Has(more, Update("crt0", "build/crt0.fae"))
      BY <2>7 DEF Has
    <2>10. Added(p, dir, goal, more)
      BY <1>5, <2>3, <2>7, <2>8, <2>9 DEF Added
    <2>. QED
      BY <1>1, <2>10 DEF dir, goal, more
  <1>. QED
    BY <1>1, <1>3, <1>4, <1>5

-----------------------------------------------------------------------------
(***************************************************************************)
(* What each step of a make keeps, when nothing else touches the files.    *)
(***************************************************************************)
Goals == {"build/libfae.a", "build/crt0.fae"}

(* What a compiler writes.  Its rules do not name the headers it reads.    *)
Objects == {"build/crt0.o", "build/stdriot.o"}

(* What the times of the files say is taken up.                            *)
LEMMA LookOrderly ==
  ASSUME MakeInv, NEW p \in Makers, LookAtTimes(p), Orderly(todo[p])
  PROVE  Orderly(todo'[p]) /\ NoRemoves(todo[p]) /\ NoRemoves(todo'[p])
  <1>. DEFINE s    == todo[p]
              root == Update("root", "build/crt0.fae")
  <1>1. /\ s \in Seq(Command) /\ s # << >> /\ Head(s).do = "update"
        /\ Head(s) = Update(Head(s).dir, Goal(p)) /\ Goal(p) \in Goals
        /\ Head(s).dir \in {"root", "crt0"}
    BY UpdateHead DEF LookAtTimes, Does, MakeInv, Goals
  <1>2. PICK more : /\ Added(p, Head(s).dir, Goal(p), more)
                    /\ todo'[p] = more \o Tail(s)
    BY UpdateAdds
  <1>. HIDE DEF s, root
  <1>3. more \in Seq(Command) /\ Followed(more) /\ NoRemoves(more) /\ ~Has(more, root)
    BY <1>2 DEF Added, root
  <1>4. Followed(s) /\ RemovesFirst(s) /\ OneLoader(s)
    BY DEF Orderly, s
  <1>5. /\ Tail(s) \in Seq(Command) /\ Followed(Tail(s))
        /\ NoRemoves(s) /\ NoRemoves(Tail(s)) /\ OneLoader(Tail(s))
    BY <1>1, <1>4, TailFacts, FollowedTail, NoRemovesTail, OneLoaderTail
  <1>6. Followed(todo'[p]) /\ NoRemoves(todo'[p])
    BY <1>2, <1>3, <1>5, FollowedConcat, NoRemovesConcat
  <1>7. Has(Tail(s), root)
          => /\ ~Has(more, Update("crt0", "build/crt0.fae"))
             /\ ~Has(more, Recipe("build/crt0.fae"))
    <2>1. CASE Goal(p) = "build/libfae.a"
      BY <1>2, <2>1 DEF Added
    <2>2. CASE Goal(p) = "build/crt0.fae"
      BY <1>1, <1>4, <2>2, OneLoaderTail DEF root
    <2>. QED
      BY <1>1, <2>1, <2>2 DEF Goals
  <1>8. OneLoader(todo'[p])
    BY <1>2, <1>3, <1>5, <1>7, OneLoaderConcat DEF root
  <1>9. RemovesFirst(todo'[p])
    BY <1>6 DEF RemovesFirst, NoRemoves
  <1>. QED
    BY <1>5, <1>6, <1>8, <1>9 DEF Orderly, s

(* A command left is kept, the one at the head apart.                      *)
LEMMA LookKeepsCommands ==
  ASSUME MakeInv, NEW p \in Makers, LookAtTimes(p)
  PROVE  /\ \A t : Has(todo[p], Recipe(t)) => Has(todo'[p], Recipe(t))
         /\ \A dir, g : Has(todo[p], Update(dir, g)) /\ Head(todo[p]) # Update(dir, g)
              => Has(todo'[p], Update(dir, g))
         /\ Has(todo'[p], Update("root", "build/crt0.fae"))
              => Has(todo[p], Update("root", "build/crt0.fae"))
         /\ \A g \in Goals : g # Goal(p) =>
              (Looks(todo[p], g) => Looks(todo'[p], g))
  <1>. DEFINE s == todo[p]
  <1>1. /\ s \in Seq(Command) /\ s # << >> /\ Head(s).do = "update"
        /\ Head(s) = Update(Head(s).dir, Goal(p))
    BY UpdateHead DEF LookAtTimes, Does, MakeInv
  <1>2. PICK more : /\ Added(p, Head(s).dir, Goal(p), more)
                    /\ todo'[p] = more \o Tail(s)
    BY UpdateAdds
  <1>3. more \in Seq(Command) /\ ~Has(more, Update("root", "build/crt0.fae"))
    BY <1>2 DEF Added
  <1>4. \A t : Head(s) # Recipe(t)
    BY <1>1 DEF Recipe
  <1>5. Tail(s) \in Seq(Command)
    BY <1>1, TailFacts
  <1>6. \A c : Has(todo'[p], c) <=> Has(more, c) \/ Has(Tail(s), c)
    <2>1. \A c : Has(more \o Tail(s), c) <=> Has(more, c) \/ Has(Tail(s), c)
      BY <1>3, <1>5, HasConcat
    <2>. QED
      BY <1>2, <2>1
  <1>7. \A c : Has(s, c) <=> c = Head(s) \/ Has(Tail(s), c)
    BY <1>1, HasTail
  <1>8. \A dir, g : g # Goal(p) => Head(s) # Update(dir, g)
    <2>. SUFFICES ASSUME NEW dir, NEW g, Update(Head(s).dir, Goal(p)) = Update(dir, g)
                  PROVE  g = Goal(p)
      BY <1>1
    <2>. QED
      BY DEF Update
  <1>. HIDE DEF s
  <1>9. \A g \in Goals : g # Goal(p) => (Looks(s, g) => Looks(todo'[p], g))
    BY <1>6, <1>7, <1>8 DEF Looks
  <1>10. \A t : Has(s, Recipe(t)) => Has(todo'[p], Recipe(t))
    BY <1>4, <1>6, <1>7
  <1>11. \A dir, g : Has(s, Update(dir, g)) /\ Head(s) # Update(dir, g)
              => Has(todo'[p], Update(dir, g))
    BY <1>6, <1>7
  <1>12. Has(todo'[p], Update("root", "build/crt0.fae"))
              => Has(s, Update("root", "build/crt0.fae"))
    BY <1>3, <1>6, <1>7
  <1>. QED
    BY <1>9, <1>10, <1>11, <1>12 DEF s

LEMMA LookPromised ==
  ASSUME MakeInv, NEW p \in Makers, LookAtTimes(p), Orderly(todo[p]),
         NEW g \in Goals, Promised(p, g), g = "build/crt0.fae" => LoaderGoes(p)
  PROVE  Promised(p, g)'
  <1>. DEFINE s == todo[p]
  <1>1. /\ s \in Seq(Command) /\ s # << >>
        /\ Head(s) = Update(Head(s).dir, Goal(p)) /\ Goal(p) \in Goals
        /\ Head(s).dir \in {"root", "crt0"}
    BY UpdateHead DEF LookAtTimes, Does, MakeInv, Goals
  <1>2. NoRemoves(s) /\ NoRemoves(todo'[p])
    BY LookOrderly
  <1>3. PICK more : /\ Added(p, Head(s).dir, Goal(p), more)
                    /\ todo'[p] = more \o Tail(s)
    BY UpdateAdds
  <1>4. more \in Seq(Command) /\ Tail(s) \in Seq(Command)
    BY <1>1, <1>3, TailFacts DEF Added
  <1>. HIDE DEF s
  <1>5. \A c : Has(todo'[p], c) <=> Has(more, c) \/ Has(Tail(s), c)
    <2>1. \A c : Has(more \o Tail(s), c) <=> Has(more, c) \/ Has(Tail(s), c)
      BY <1>4, HasConcat
    <2>. QED
      BY <1>3, <2>1
  <1>6. UNCHANGED disk
    BY DEF LookAtTimes
  <1>7. ASSUME ~Looks(todo'[p], g), NEW t \in Parts(g), OutOfDate(t)
        PROVE  Has(todo'[p], Recipe(t))
    <2>1. CASE g # Goal(p)
      <3>1. ~Looks(s, g)
        BY <1>7, <2>1, LookKeepsCommands DEF s
      <3>2. Has(s, Recipe(t))
        BY <1>7, <3>1 DEF Promised, s
      <3>. QED
        BY <3>2, LookKeepsCommands DEF s
    <2>2. CASE g = Goal(p) /\ g = "build/libfae.a"
      BY <1>3, <1>5, <1>7, <2>2 DEF Added
    <2>3. CASE g = Goal(p) /\ g = "build/crt0.fae" /\ Head(s).dir = "crt0"
      BY <1>3, <1>5, <1>7, <2>3 DEF Added
    <2>4. CASE g = Goal(p) /\ g = "build/crt0.fae" /\ Head(s).dir = "root"
      <3>1. Has(s, Update("root", "build/crt0.fae"))
        BY <1>1, <2>4, HasTail
      <3>2. ~Clears(s, "build/crt0.fae")
        BY <1>2 DEF NoRemoves, Clears
      <3>3. ~Exists("build/crt0.fae")
        BY <2>4, <3>1, <3>2 DEF LoaderGoes, s
      <3>4. Has(todo'[p], Update("crt0", "build/crt0.fae"))
        BY <1>3, <1>5, <2>4, <3>3 DEF Added
      <3>. QED
        BY <1>7, <2>4, <3>4 DEF Looks
    <2>. QED
      BY <1>1, <2>1, <2>2, <2>3, <2>4 DEF Goals
  <1>8. \A t : OutOfDate(t)' <=> OutOfDate(t)
    BY <1>6 DEF OutOfDate, Exists
  <1>. QED
    BY <1>2, <1>7, <1>8 DEF Promised

LEMMA LookKeeps ==
  ASSUME MakeInv, NEW p \in Makers, LookAtTimes(p), Orderly(todo[p])
  PROVE  /\ LoaderGoes(p) => LoaderGoes(p)'
         /\ \A object \in Objects : ObjectNew(p, object) => ObjectNew(p, object)'
         /\ WillExist(p) => WillExist(p)'
  <1>1. UNCHANGED disk
    BY DEF LookAtTimes
  <1>2. NoRemoves(todo[p]) /\ NoRemoves(todo'[p])
    BY LookOrderly
  <1>3. \A t : ~Clears(todo[p], t)
    BY <1>2 DEF NoRemoves, Clears
  <1>4. LoaderGoes(p) => LoaderGoes(p)'
    BY <1>1, <1>3, LookKeepsCommands DEF LoaderGoes, Exists
  <1>5. ASSUME NEW object \in Objects, ObjectNew(p, object)
        PROVE  ObjectNew(p, object)'
    BY <1>1, <1>3, <1>5 DEF ObjectNew, Exists
  <1>6. ASSUME WillExist(p)
        PROVE  WillExist(p)'
    <2>. DEFINE s == todo[p]
    <2>1. /\ s \in Seq(Command) /\ s # << >>
          /\ Goal(p) \in Goals
          /\ Head(s).dir \in {"root", "crt0"}
      BY UpdateHead DEF LookAtTimes, Does, MakeInv, Goals
    <2>2. PICK more : /\ Added(p, Head(s).dir, Goal(p), more)
                      /\ todo'[p] = more \o Tail(s)
      BY UpdateAdds
    <2>3. more \in Seq(Command) /\ Tail(s) \in Seq(Command)
      BY <2>1, <2>2, TailFacts DEF Added
    <2>. HIDE DEF s
    <2>4. \A c : Has(more, c) => Has(todo'[p], c)
      <3>1. \A c : Has(more \o Tail(s), c) <=> Has(more, c) \/ Has(Tail(s), c)
        BY <2>3, HasConcat
      <3>. QED
        BY <2>2, <3>1
    <2>5. \/ Looks(todo'[p], "build/libfae.a") \/ Exists("build")
          \/ Has(todo'[p], Recipe("build"))
      <3>1. CASE Goal(p) = "build/libfae.a"
        <4>1. OutOfDate("build") => Has(more, Recipe("build"))
          BY <2>2, <3>1 DEF Added
        <4>. QED
          BY <2>4, <4>1 DEF OutOfDate
      <3>2. CASE Goal(p) # "build/libfae.a"
        BY <1>6, <3>2, LookKeepsCommands DEF WillExist, Goals
      <3>. QED
        BY <3>1, <3>2
    <2>6. \/ Looks(todo'[p], "build/crt0.fae") \/ Exists("build/crt0.fae")
          \/ Has(todo'[p], Recipe("build/crt0.fae"))
      <3>1. CASE Goal(p) = "build/crt0.fae" /\ Head(s).dir = "root"
        <4>1. ~Exists("build/crt0.fae") => Has(more, Update("crt0", "build/crt0.fae"))
          BY <2>2, <3>1 DEF Added
        <4>. QED
          BY <2>4, <4>1 DEF Looks
      <3>2. CASE Goal(p) = "build/crt0.fae" /\ Head(s).dir = "crt0"
        <4>1. OutOfDate("build/crt0.fae") => Has(more, Recipe("build/crt0.fae"))
          BY <2>2, <3>2 DEF Added, Parts
        <4>. QED
          BY <2>4, <4>1 DEF OutOfDate
      <3>3. CASE Goal(p) # "build/crt0.fae"
        BY <1>6, <3>3, LookKeepsCommands DEF WillExist, Goals
      <3>. QED
        BY <2>1, <3>1, <3>2, <3>3
    <2>. QED
      BY <1>1, <1>2, <2>5, <2>6 DEF WillExist, Exists
  <1>. QED
    BY <1>4, <1>5, <1>6

(* A recipe that ends: its target is newer than all else, made of what was *)
(* read.  The directory may be as new.                                     *)
LEMMA WriteChanges ==
  ASSUME MakeInv, NEW p \in Makers, WriteTarget(p)
  PROVE  /\ todo[p] \in Seq(Command) /\ todo[p] # << >>
         /\ Head(todo[p]) = Recipe(Goal(p)) /\ Goal(p) \in Targets
         /\ todo'[p] = Tail(todo[p])
         /\ \A f \in (Sources \cup Targets) \ {Goal(p), "build"} : disk'[f] = disk[f]
         /\ disk'[Goal(p)].of = read[p][1]
         /\ Goal(p) # "build" => disk'[Goal(p)].time = clock + 1
         /\ disk'["build"] # Absent
         /\ \A f \in Sources \cup Targets : disk[f].time \in 0 .. clock
         /\ clock \in Nat
  <1>1. todo[p] \in Seq(Command) /\ todo[p] # << >> /\ Head(todo[p]).do = "recipe"
    BY DEF MakeInv, WriteTarget, Does
  <1>2. Head(todo[p]) \in [do : {"recipe"}, dir : {"any"}, what : {{t} : t \in Targets}]
    BY <1>1, TailFacts DEF Command
  <1>3. PICK t \in Targets : Head(todo[p]).what = {t}
    BY <1>2
  <1>4. Goal(p) = t
    BY <1>3 DEF Goal
  <1>5. Head(todo[p]) = Recipe(Goal(p)) /\ Goal(p) \in Targets
    BY <1>2, <1>3, <1>4 DEF Recipe
  <1>6. todo'[p] = Tail(todo[p])
    BY DEF WriteTarget, MakeInv
  <1>7. /\ \A f \in (Sources \cup Targets) \ {Goal(p), "build"} : disk'[f] = disk[f]
        /\ disk'[Goal(p)].of = read[p][1]
        /\ Goal(p) # "build" => disk'[Goal(p)].time = clock + 1
        /\ disk'["build"] # Absent
    <2>1. PICK entry \in {disk["build"].time, clock + 1} :
            /\ Exists(Goal(p)) \/ entry = clock + 1
            /\ disk' = [disk EXCEPT ![Goal(p)] = Written(read[p][1]),
                                    !["build"].time = entry]
      BY DEF WriteTarget
    <2>. DEFINE made == [disk EXCEPT ![Goal(p)] = Written(read[p][1])]
    <2>2. /\ DOMAIN made = Sources \cup Targets
          /\ \A f \in (Sources \cup Targets) \ {Goal(p)} : made[f] = disk[f]
          /\ made[Goal(p)] = [time |-> clock + 1, of |-> read[p][1]]
      BY <1>5 DEF MakeInv, Written
    <2>3. disk' = [made EXCEPT !["build"].time = entry]
      BY <2>1
    <2>4. clock \in Nat /\ "build" \in Targets
      BY DEF MakeInv, Targets
    <2>5. made["build"] \in [time : Int, of : Origins(clock) \cup {read[p][1]}]
      <3>1. disk["build"] \in [time : 0 .. clock, of : Origins(clock)]
        BY <2>4 DEF MakeInv
      <3>. QED
        BY <2>2, <2>4, <3>1
    <2>. HIDE DEF made
    <2>6. /\ \A f \in (Sources \cup Targets) \ {"build"} : disk'[f] = made[f]
          /\ disk'["build"] = [time |-> entry, of |-> made["build"].of]
      BY <2>2, <2>3, <2>4, <2>5
    <2>7. disk'["build"] # Absent
      <3>1. disk["build"] # Absent => disk["build"].time # 0
        BY <2>4 DEF MakeInv
      <3>2. entry # 0
        BY <2>1, <2>4, <3>1 DEF WriteTarget, Exists
      <3>. QED
        BY <2>6, <3>2 DEF Absent
    <2>. QED
      BY <1>5, <2>2, <2>6, <2>7
  <1>. QED
    BY <1>1, <1>5, <1>6, <1>7 DEF MakeInv

(* Without an edit since, that is what its inputs are made of.             *)
LEMMA WriteFacts ==
  ASSUME MakeInv, NEW p \in Makers, WriteTarget(p), ReadCurrent(p)
  PROVE  /\ todo[p] \in Seq(Command) /\ todo[p] # << >>
         /\ Head(todo[p]) = Recipe(Goal(p)) /\ Goal(p) \in Targets
         /\ todo'[p] = Tail(todo[p])
         /\ \A f \in (Sources \cup Targets) \ {Goal(p), "build"} : disk'[f] = disk[f]
         /\ disk'[Goal(p)].of = UNION {disk[f].of : f \in Inputs(Goal(p))}
         /\ Goal(p) # "build" => disk'[Goal(p)].time = clock + 1
         /\ disk'["build"] # Absent
         /\ \A f \in Sources \cup Targets : disk[f].time \in 0 .. clock
         /\ clock \in Nat
  <1>1. read[p][1] = UNION {disk[f].of : f \in Inputs(Goal(p))}
    BY DEF WriteTarget, ReadCurrent
  <1>. QED
    BY <1>1, WriteChanges

(* No target is a source, none is made of itself, the directory of nothing.*)
LEMMA RuleFacts ==
  /\ \A f \in Sources : f \notin Targets
  /\ \A t \in Targets : Prerequisites(t) \subseteq (Sources \cup Targets) \ {t, "build"}
  /\ \A t \in Targets : Prerequisites(t) \subseteq Inputs(t)
  /\ Prerequisites("build") = {}
  BY DEF Sources, Targets, Prerequisites, Rules, Inputs

LEMMA WriteFilesInv ==
  ASSUME MakeInv, NEW p \in Makers, WriteTarget(p), ReadCurrent(p), FilesInv
  PROVE  FilesInv'
  <1>. DEFINE g == Goal(p)
  <1>1. /\ g \in Targets
        /\ \A f \in (Sources \cup Targets) \ {g, "build"} : disk'[f] = disk[f]
        /\ disk'[g].of = UNION {disk[f].of : f \in Inputs(g)}
        /\ g # "build" => disk'[g].time = clock + 1
        /\ \A f \in Sources \cup Targets : disk[f].time \in 0 .. clock
        /\ clock \in Nat
    BY WriteFacts
  <1>. HIDE DEF g
  <1>2. \A f \in Sources : disk'[f].time > 0 /\ disk'[f].of = {<< f, disk'[f].time >>}
    BY <1>1, RuleFacts DEF FilesInv, Targets
  <1>3. ASSUME NEW t \in Targets, NEW f \in Prerequisites(t),
               disk'[t] # Absent, disk'[f].time <= disk'[t].time
        PROVE  disk'[f].of \subseteq disk'[t].of
    <2>1. f \in Sources \cup Targets /\ f # t /\ f # "build" /\ t # "build"
      BY RuleFacts
    <2>2. CASE t = g
      <3>1. f \in Inputs(g) /\ disk'[f] = disk[f]
        BY <1>1, <2>1, <2>2, RuleFacts
      <3>. QED
        BY <1>1, <2>2, <3>1
    <2>3. CASE f = g
      BY <1>1, <1>3, <2>1, <2>3
    <2>4. CASE t # g /\ f # g
      BY <1>1, <1>3, <2>1, <2>4 DEF FilesInv, Exists
    <2>. QED
      BY <2>2, <2>3, <2>4
  <1>. QED
    BY <1>2, <1>3 DEF FilesInv, Exists, Absent

LEMMA WriteOrderly ==
  ASSUME MakeInv, NEW p \in Makers, WriteTarget(p), ReadCurrent(p), Orderly(todo[p])
  PROVE  /\ Orderly(todo'[p]) /\ NoRemoves(todo[p]) /\ NoRemoves(todo'[p])
         /\ \A t \in Targets : t # Goal(p) =>
              (Has(todo[p], Recipe(t)) => Has(todo'[p], Recipe(t)))
         /\ \A dir, goal : Has(todo'[p], Update(dir, goal)) <=> Has(todo[p], Update(dir, goal))
         /\ \A u \in Targets : Goal(p) \in Prerequisites(u) => Has(todo'[p], Recipe(u))
  <1>. DEFINE s == todo[p]
  <1>1. /\ s \in Seq(Command) /\ s # << >> /\ Head(s) = Recipe(Goal(p))
        /\ Goal(p) \in Targets /\ todo'[p] = Tail(s)
    BY WriteFacts
  <1>2. Followed(s) /\ RemovesFirst(s) /\ OneLoader(s)
    BY DEF Orderly, s
  <1>. HIDE DEF s
  <1>3. Head(s).do # "remove"
    BY <1>1 DEF Recipe
  <1>4. Orderly(Tail(s)) /\ NoRemoves(s) /\ NoRemoves(Tail(s))
    BY <1>1, <1>2, <1>3, FollowedTail, NoRemovesTail, OneLoaderTail DEF Orderly
  <1>5. \A t \in Targets : t # Goal(p) => Recipe(t) # Head(s)
    <2>. SUFFICES ASSUME NEW t \in Targets, Recipe(t) = Recipe(Goal(p))
                  PROVE  t = Goal(p)
      BY <1>1
    <2>. QED
      BY DEF Recipe
  <1>6. \A dir, goal : Update(dir, goal) # Head(s)
    BY <1>1 DEF Recipe, Update
  <1>7. \A c : Has(s, c) <=> c = Head(s) \/ Has(Tail(s), c)
    BY <1>1, HasTail
  <1>8. \A u \in Targets : Goal(p) \in Prerequisites(u) => Has(Tail(s), Recipe(u))
    BY <1>1, <1>2, FollowedTail
  <1>. QED
    BY <1>1, <1>4, <1>5, <1>6, <1>7, <1>8 DEF s

LEMMA WriteKeeps ==
  ASSUME MakeInv, NEW p \in Makers, WriteTarget(p), ReadCurrent(p), Orderly(todo[p])
  PROVE  /\ \A g \in Goals : Promised(p, g) => Promised(p, g)'
         /\ LoaderGoes(p) => LoaderGoes(p)'
         /\ \A object \in Objects : ObjectNew(p, object) => ObjectNew(p, object)'
         /\ WillExist(p) => WillExist(p)'
  <1>. DEFINE x == Goal(p)
  <1>1. /\ x \in Targets
        /\ \A f \in (Sources \cup Targets) \ {x, "build"} : disk'[f] = disk[f]
        /\ disk'[x].of = UNION {disk[f].of : f \in Inputs(x)}
        /\ x # "build" => disk'[x].time = clock + 1
        /\ disk'["build"] # Absent
        /\ \A f \in Sources \cup Targets : disk[f].time \in 0 .. clock
        /\ clock \in Nat
    BY WriteFacts
  <1>2. disk'[x] # Absent
    BY <1>1 DEF Absent
  <1>3. /\ Orderly(todo'[p]) /\ NoRemoves(todo[p]) /\ NoRemoves(todo'[p])
        /\ \A t \in Targets : t # x =>
              (Has(todo[p], Recipe(t)) => Has(todo'[p], Recipe(t)))
        /\ \A dir, goal : Has(todo'[p], Update(dir, goal)) <=> Has(todo[p], Update(dir, goal))
        /\ \A u \in Targets : x \in Prerequisites(u) => Has(todo'[p], Recipe(u))
    BY WriteOrderly
  <1>4. \A goal : Looks(todo'[p], goal) <=> Looks(todo[p], goal)
    BY <1>3 DEF Looks
  <1>5. \A t : ~Clears(todo[p], t)
    BY <1>3 DEF NoRemoves, Clears
  <1>6. "build/crt0.fae" = x => ~Has(todo[p], Update("root", "build/crt0.fae"))
    <2>1. /\ todo[p] \in Seq(Command) /\ todo[p] # << >> /\ Head(todo[p]) = Recipe(x)
          /\ todo'[p] = Tail(todo[p]) /\ OneLoader(todo[p])
      BY WriteFacts DEF Orderly
    <2>. HIDE DEF x
    <2>2. x = "build/crt0.fae" => ~Has(todo'[p], Update("root", "build/crt0.fae"))
      BY <2>1, OneLoaderTail
    <2>. QED
      BY <1>3, <2>2
  <1>. HIDE DEF x
  <1>7. ASSUME NEW t \in Targets, OutOfDate(t)'
        PROVE  t # x /\ (OutOfDate(t) \/ Has(todo'[p], Recipe(t)))
    <2>1. t # "build"
      BY <1>1, <1>7, RuleFacts DEF OutOfDate, Exists, Absent
    <2>2. t # x
      <3>. SUFFICES ASSUME t = x PROVE FALSE
        OBVIOUS
      <3>1. PICK f \in Prerequisites(x) : disk'[f].time > disk'[x].time
        BY <1>2, <1>7 DEF OutOfDate, Exists, Absent
      <3>2. disk'[f] = disk[f] /\ disk[f].time \in 0 .. clock
        BY <1>1, RuleFacts
      <3>. QED
        BY <1>1, <2>1, <3>1, <3>2
    <2>3. CASE x \in Prerequisites(t)
      BY <1>3, <2>2, <2>3
    <2>4. CASE x \notin Prerequisites(t)
      BY <1>1, <1>7, <2>2, <2>4, <2>1, RuleFacts DEF OutOfDate, Exists, Absent
    <2>. QED
      BY <2>2, <2>3, <2>4
  <1>8. ASSUME NEW g \in Goals, Promised(p, g)
        PROVE  Promised(p, g)'
    <2>1. Parts(g) \subseteq Targets
      BY DEF Parts, Targets
    <2>2. ASSUME ~Looks(todo'[p], g), NEW t \in Parts(g), OutOfDate(t)'
          PROVE  Has(todo'[p], Recipe(t))
      BY <1>3, <1>4, <1>7, <1>8, <2>1, <2>2 DEF Promised
    <2>. QED
      BY <1>3, <2>2 DEF Promised
  <1>9. LoaderGoes(p) => LoaderGoes(p)'
    <2>. SUFFICES ASSUME LoaderGoes(p), Has(todo'[p], Update("root", "build/crt0.fae"))
                  PROVE  disk'["build/crt0.fae"] = Absent
      BY DEF LoaderGoes, Exists, Absent
    <2>1. "build/crt0.fae" # x /\ Has(todo[p], Update("root", "build/crt0.fae"))
      BY <1>3, <1>6
    <2>. QED
      BY <1>1, <1>5, <2>1 DEF LoaderGoes, Exists, Targets
  <1>10. ASSUME NEW object \in Objects, ObjectNew(p, object)
         PROVE  ObjectNew(p, object)'
    <2>1. disk'["src/include"] = disk["src/include"]
      BY <1>1, RuleFacts DEF Sources
    <2>2. CASE object = x
      <3>1. "src/include" \in Inputs(x)
        BY <2>2 DEF Inputs, Objects
      <3>. QED
        BY <1>1, <2>1, <2>2, <3>1 DEF ObjectNew
    <2>3. CASE object # x
      BY <1>1, <1>5, <1>10, <2>1, <2>3 DEF ObjectNew, Exists, Absent, Objects, Targets
    <2>. QED
      BY <2>2, <2>3
  <1>11. ASSUME WillExist(p)
         PROVE  WillExist(p)'
    <2>1. \A t \in {"build", "build/crt0.fae"} :
            Exists(t) \/ Has(todo[p], Recipe(t)) =>
              disk'[t] # Absent \/ Has(todo'[p], Recipe(t))
      BY <1>1, <1>2, <1>3 DEF Exists, Targets
    <2>. QED
      BY <1>3, <1>4, <1>11, <2>1 DEF WillExist, Exists, Absent
  <1>. QED
    BY <1>8, <1>9, <1>10, <1>11

(* Removing a target makes nothing look newer than it is.                  *)
LEMMA RemoveFacts ==
  ASSUME MakeInv, NEW p \in Makers, RemoveFiles(p)
  PROVE  /\ todo[p] \in Seq(Command) /\ todo[p] # << >>
         /\ Head(todo[p]).do = "remove" /\ Head(todo[p]).what \subseteq Targets
         /\ todo'[p] = Tail(todo[p])
         /\ \A f \in (Sources \cup Targets) \ {"build"} :
              disk'[f] = IF f \in Head(todo[p]).what THEN Absent ELSE disk[f]
  <1>1. todo[p] \in Seq(Command) /\ todo[p] # << >> /\ Head(todo[p]).do = "remove"
    BY DEF MakeInv, RemoveFiles, Does
  <1>2. Head(todo[p]).what \subseteq Targets
    BY <1>1, TailFacts DEF Command
  <1>3. \A f \in (Sources \cup Targets) \ {"build"} :
          disk'[f] = IF f \in Head(todo[p]).what THEN Absent ELSE disk[f]
    BY DEF RemoveFiles, MakeInv, Exists
  <1>. QED
    BY <1>1, <1>2, <1>3 DEF RemoveFiles, MakeInv

LEMMA RemoveFilesInv ==
  ASSUME MakeInv, NEW p \in Makers, RemoveFiles(p), FilesInv
  PROVE  FilesInv'
  <1>. DEFINE gone == Head(todo[p]).what
  <1>1. /\ gone \subseteq Targets
        /\ \A f \in (Sources \cup Targets) \ {"build"} :
             disk'[f] = IF f \in gone THEN Absent ELSE disk[f]
    BY RemoveFacts
  <1>. HIDE DEF gone
  <1>2. \A f \in Sources : disk'[f] = disk[f]
    BY <1>1, RuleFacts DEF Targets
  <1>3. ASSUME NEW t \in Targets, NEW f \in Prerequisites(t),
               disk'[t] # Absent, disk'[f].time <= disk'[t].time
        PROVE  disk'[f].of \subseteq disk'[t].of
    <2>1. disk'[t] = disk[t] /\ f \in (Sources \cup Targets) \ {"build"}
      BY <1>1, <1>3, RuleFacts
    <2>2. CASE f \in gone
      BY <1>1, <2>1, <2>2 DEF Absent
    <2>3. CASE f \notin gone
      BY <1>1, <1>3, <2>1, <2>3 DEF FilesInv, Exists
    <2>. QED
      BY <2>2, <2>3
  <1>. QED
    BY <1>2, <1>3 DEF FilesInv, Exists, Absent

LEMMA RemoveKeeps ==
  ASSUME MakeInv, NEW p \in Makers, RemoveFiles(p), Orderly(todo[p])
  PROVE  /\ Orderly(todo'[p]) /\ ~NoRemoves(todo[p])
         /\ \A g \in Goals : Promised(p, g) => Promised(p, g)'
         /\ LoaderGoes(p) => LoaderGoes(p)'
         /\ \A object \in Objects : ObjectNew(p, object) => ObjectNew(p, object)'
  <1>. DEFINE s == todo[p]
  <1>1. /\ s \in Seq(Command) /\ s # << >>
        /\ Head(s).do = "remove" /\ Head(s).what \subseteq Targets
        /\ todo'[p] = Tail(s)
        /\ \A f \in (Sources \cup Targets) \ {"build"} :
             disk'[f] = IF f \in Head(s).what THEN Absent ELSE disk[f]
    BY RemoveFacts
  <1>2. Followed(s) /\ RemovesFirst(s) /\ OneLoader(s)
    BY DEF Orderly, s
  <1>. HIDE DEF s
  <1>3. Orderly(Tail(s))
    BY <1>1, <1>2, FollowedTail, NoRemovesTail, OneLoaderTail DEF Orderly
  <1>4. ~NoRemoves(s)
    BY <1>1, TailFacts DEF NoRemoves
  <1>5. \A dir, goal : Update(dir, goal) # Head(s)
    BY <1>1 DEF Update
  <1>6. \A dir, goal : Has(s, Update(dir, goal)) <=> Has(Tail(s), Update(dir, goal))
    BY <1>1, <1>5, HasTail
  <1>7. ASSUME NEW t \in Targets \ {"build"}, Clears(s, t) \/ disk[t] = Absent
        PROVE  Clears(Tail(s), t) \/ disk'[t] = Absent
    BY <1>1, <1>7, ClearsTail
  <1>8. ASSUME NEW g \in Goals, Promised(p, g)
        PROVE  Promised(p, g)'
    <2>1. Looks(s, g)
      BY <1>4, <1>8 DEF Promised, s
    <2>2. Looks(todo'[p], g)
      BY <1>1, <1>6, <2>1 DEF Looks
    <2>. QED
      BY <2>2 DEF Promised
  <1>9. LoaderGoes(p) => LoaderGoes(p)'
    BY <1>1, <1>6, <1>7 DEF LoaderGoes, Exists, Absent, Targets, s
  <1>10. ASSUME NEW object \in Objects, ObjectNew(p, object)
         PROVE  ObjectNew(p, object)'
    <2>1. object \in Targets /\ object # "build"
      BY DEF Objects, Targets
    <2>2. CASE Clears(s, object) \/ disk[object] = Absent
      BY <1>1, <1>7, <2>1, <2>2 DEF ObjectNew, Exists, Absent
    <2>3. CASE disk["src/include"].of \subseteq disk[object].of
      <3>1. disk'["src/include"] = disk["src/include"]
        BY <1>1, RuleFacts DEF Sources, Targets
      <3>2. disk'[object] = disk[object] \/ disk'[object] = Absent
        BY <1>1, <2>1
      <3>. QED
        BY <2>3, <3>1, <3>2 DEF ObjectNew, Exists, Absent
    <2>. QED
      BY <1>10, <2>2, <2>3 DEF ObjectNew, Exists, s
  <1>. QED
    BY <1>1, <1>3, <1>4, <1>8, <1>9, <1>10 DEF s

(***************************************************************************)
(* The steps of a make, together.                                          *)
(***************************************************************************)

(* A make that runs, or has ended well, keeps what it promised.            *)
LEMMA StepKeeps ==
  ASSUME MakeInv, NEW p \in Makers, MakeStep(p), FilesInv, ReadCurrent(p),
         Orderly(todo[p])
  PROVE  /\ FilesInv' /\ ReadCurrent(p)' /\ Orderly(todo'[p])
         /\ \A f \in Sources : disk'[f] = disk[f]
         /\ status[p] = "running"
         /\ status'[p] # "failed" =>
              /\ \A g \in Goals :
                   /\ Promised(p, g) /\ (g = "build/crt0.fae" => LoaderGoes(p))
                   => Promised(p, g)'
              /\ LoaderGoes(p) => LoaderGoes(p)'
              /\ \A object \in Objects : ObjectNew(p, object) => ObjectNew(p, object)'
              /\ WillExist(p) => WillExist(p)'
  <1>1. CASE LookAtTimes(p)
    <2>1. Does(p, "update") /\ UNCHANGED << disk, read >>
      BY <1>1 DEF LookAtTimes
    <2>2. FilesInv' /\ \A f \in Sources : disk'[f] = disk[f]
      BY <2>1 DEF FilesInv, Exists, Absent
    <2>3. ReadCurrent(p)' /\ status[p] = "running"
      BY <2>1 DEF ReadCurrent, MakeInv, Does
    <2>. QED
      BY <1>1, <2>2, <2>3, LookOrderly, LookPromised, LookKeeps
  <1>2. CASE ReadInputs(p)
    <2>1. Does(p, "recipe") /\ UNCHANGED << disk, todo >>
      BY <1>2 DEF ReadInputs
    <2>2. FilesInv' /\ \A f \in Sources : disk'[f] = disk[f]
      BY <2>1 DEF FilesInv, Exists, Absent
    <2>3. read'[p][1] = UNION {disk[f].of : f \in Inputs(Goal(p))}
      BY <1>2 DEF ReadInputs, MakeInv
    <2>4. ReadCurrent(p)'
      BY <2>1, <2>3 DEF ReadCurrent, Goal
    <2>5. /\ \A g \in Goals : Promised(p, g) => Promised(p, g)'
          /\ LoaderGoes(p) => LoaderGoes(p)'
          /\ \A object \in Objects : ObjectNew(p, object) => ObjectNew(p, object)'
          /\ WillExist(p) => WillExist(p)'
      BY <2>1 DEF Promised, OutOfDate, LoaderGoes, ObjectNew, WillExist, Exists
    <2>. QED
      BY <2>1, <2>2, <2>4, <2>5 DEF Does
  <1>3. CASE WriteTarget(p)
    <2>1. Does(p, "recipe") /\ read'[p] = << >>
      BY <1>3 DEF WriteTarget, MakeInv
    <2>2. \A f \in Sources : disk'[f] = disk[f]
      BY <1>3, WriteFacts, RuleFacts DEF Targets
    <2>. QED
      BY <1>3, <2>1, <2>2, WriteFilesInv, WriteOrderly, WriteKeeps DEF Does, ReadCurrent
  <1>4. CASE RemoveFiles(p)
    <2>1. Does(p, "remove") /\ read' = read /\ status[p] = "running"
      BY <1>4 DEF RemoveFiles, Does
    <2>2. \A f \in Sources : disk'[f] = disk[f]
      BY <1>4, RemoveFacts, RuleFacts DEF Targets
    <2>3. ReadCurrent(p)'
      BY <2>1 DEF ReadCurrent, MakeInv, Does
    <2>. QED
      BY <1>4, <2>1, <2>2, <2>3, RemoveFilesInv, RemoveKeeps DEF WillExist
  <1>5. CASE MakeEnds(p)
    <2>1. UNCHANGED << disk, todo, read >> /\ status[p] = "running"
      BY <1>5 DEF MakeEnds
    <2>2. FilesInv' /\ \A f \in Sources : disk'[f] = disk[f]
      BY <2>1 DEF FilesInv, Exists, Absent
    <2>3. ReadCurrent(p)'
      BY <2>1 DEF ReadCurrent, Goal
    <2>4. /\ \A g \in Goals : Promised(p, g) => Promised(p, g)'
          /\ LoaderGoes(p) => LoaderGoes(p)'
          /\ \A object \in Objects : ObjectNew(p, object) => ObjectNew(p, object)'
          /\ WillExist(p) => WillExist(p)'
      BY <2>1 DEF Promised, OutOfDate, LoaderGoes, ObjectNew, WillExist, Exists
    <2>. QED
      BY <2>1, <2>2, <2>3, <2>4
  <1>6. CASE MakeFails(p)
    <2>1. /\ UNCHANGED disk /\ todo'[p] = << >> /\ read'[p] = << >>
          /\ status'[p] = "failed" /\ status[p] = "running"
      BY <1>6 DEF MakeFails, MakeInv, Does
    <2>2. FilesInv' /\ \A f \in Sources : disk'[f] = disk[f]
      BY <2>1 DEF FilesInv, Exists, Absent
    <2>3. ReadCurrent(p)'
      BY <2>1 DEF ReadCurrent
    <2>4. Orderly(<< >>)
      BY DEF Orderly, Followed, RemovesFirst, OneLoader
    <2>. QED
      BY <2>1, <2>2, <2>3, <2>4
  <1>. QED
    BY <1>1, <1>2, <1>3, <1>4, <1>5, <1>6 DEF MakeStep

(* An edit makes a source newer than all that is made of it.               *)
LEMMA EditKeeps ==
  ASSUME MakeInv, FilesInv, NEW f \in Sources, EditSource(f)
  PROVE  /\ FilesInv' /\ clock \in Nat
         /\ disk'[f].time = clock + 1
  <1>1. /\ clock \in Nat /\ f \in Sources \cup Targets
        /\ \A g \in Sources \cup Targets : disk[g].time \in 0 .. clock
    BY DEF MakeInv
  <1>2. /\ \A g \in (Sources \cup Targets) \ {f} : disk'[g] = disk[g]
        /\ disk'[f].time = clock + 1 /\ disk'[f].of = {<< f, clock + 1 >>}
    BY DEF EditSource, MakeInv, Written
  <1>3. \A g \in Sources : disk'[g].time > 0 /\ disk'[g].of = {<< g, disk'[g].time >>}
    BY <1>1, <1>2 DEF FilesInv
  <1>4. ASSUME NEW t \in Targets, NEW g \in Prerequisites(t),
               disk'[t] # Absent, disk'[g].time <= disk'[t].time
        PROVE  disk'[g].of \subseteq disk'[t].of
    <2>1. g \in Sources \cup Targets /\ disk'[t] = disk[t] /\ disk[t].time \in 0 .. clock
      BY <1>1, <1>2, RuleFacts
    <2>2. g # f
      BY <1>1, <1>2, <1>4, <2>1
    <2>. QED
      BY <1>2, <1>4, <2>1, <2>2 DEF FilesInv, Exists
  <1>. QED
    BY <1>1, <1>2, <1>3, <1>4 DEF FilesInv, Exists, Absent

LEMMA InitFilesInv == MakeInit => FilesInv
  <1>. SUFFICES ASSUME MakeInit PROVE FilesInv
    OBVIOUS
  <1>1. \A f \in Sources : disk[f].time = 1 /\ disk[f].of = {<< f, 1 >>}
    BY DEF MakeInit
  <1>2. \A t \in Targets : disk[t] = Absent
    BY RuleFacts DEF MakeInit
  <1>. QED
    BY <1>1, <1>2 DEF FilesInv, Exists
=============================================================================
