-------------------------------- MODULE Make ---------------------------------
(***************************************************************************)
(* The makefiles of the repository, src/Makefile and src/crt0/Makefile,    *)
(* as GNU make runs them: what is in the directory build after edits of    *)
(* the sources and runs of make, in any order.                             *)
(*                                                                         *)
(* make looks at the times of the files of a chain of targets before it    *)
(* runs the recipes of those that are out of date.  A recipe reads its     *)
(* inputs and writes its target later.  The time of the directory build    *)
(* changes when a file is made in it or removed from it.                   *)
(***************************************************************************)
EXTENDS Integers, Sequences

CONSTANTS
  Makers,            (* who runs make                                      *)
  EditDuringRecipes  (* whether a source may be edited while a recipe runs *)

ASSUME MakeAssumption == EditDuringRecipes \in BOOLEAN

VARIABLES
  disk,    (* each file: the time it was written, and the sources that its *)
           (* bytes were made of, with the times these had                 *)
  clock,   (* the time of the last write or removal                        *)
  todo,    (* for each maker, the commands that make will run              *)
  read,    (* what the recipe being run has read                           *)
  status   (* "idle", "running", "ok" or "failed"                          *)

makeVars == << disk, clock, todo, read, status >>

(* Header files, one file here, are read by the compiler.                  *)
Sources == {"src/stdriot.c", "src/include", "crt0/crt0.c", "crt0/link.ld"}

Targets == {"build", "build/stdriot.o", "build/libfae.a",
            "build/crt0.o", "build/crt0.elf", "build/crt0.fae"}

Absent == [time |-> 0, of |-> {}]

Exists(f) == disk[f] # Absent

Written(of) == [time |-> clock + 1, of |-> of]

-----------------------------------------------------------------------------
(***************************************************************************)
(* The rules.                                                              *)
(***************************************************************************)

(* Each target with what its rule names before the bar.                    *)
Rules ==
  {<< "build/stdriot.o", "src/stdriot.c" >>,
   << "build/libfae.a",  "build/stdriot.o" >>,
   << "build/crt0.o",    "crt0/crt0.c" >>,
   << "build/crt0.elf",  "build/crt0.o" >>,
   << "build/crt0.elf",  "crt0/link.ld" >>,
   << "build/crt0.fae",  "build/crt0.elf" >>}

(* What is named after the bar has to be there, whatever its time.         *)
OrderOnly == {<< "build/stdriot.o", "build" >>, << "build/crt0.o", "build" >>}

(* The object file of the library has no prerequisite.                     *)
MutPrerequisitesNoSource(target) ==
  {f \in Sources \cup Targets :
     << target, f >> \in Rules /\ target # "build/stdriot.o"}

Prerequisites(target) ==
  {f \in Sources \cup Targets : << target, f >> \in Rules}

Inputs(target) ==
  Prerequisites(target) \cup
    IF target \in {"build/stdriot.o", "build/crt0.o"} THEN {"src/include"}
                                                      ELSE {}

(* A goal with the prerequisites below it, those of the makefile in dir:   *)
(* to the one at the root, build/crt0.fae has none.                        *)
Chain(dir, goal) ==
  IF goal = "build/libfae.a"
    THEN << "build", "build/stdriot.o", "build/libfae.a" >> ELSE
  IF dir = "crt0"
    THEN << "build", "build/crt0.o", "build/crt0.elf", "build/crt0.fae" >>
    ELSE << >>

(***************************************************************************)
(* Commands.  The phony targets stand for a list of them.                  *)
(***************************************************************************)
Update(dir, goal) == [do |-> "update", dir |-> dir, what |-> {goal}]
Recipe(target)    == [do |-> "recipe", dir |-> "any", what |-> {target}]
Remove(files)     == [do |-> "remove", dir |-> "any", what |-> files]

Phony ==
  [root |->
     [all       |-> << Update("root", "build/libfae.a"),
                       Update("root", "build/crt0.fae") >>,
      clean     |-> << Remove({"build/stdriot.o"}), Remove({"build/crt0.o"}) >>,
      realclean |-> << Remove({"build/stdriot.o"}), Remove({"build/crt0.o"}),
                       Remove({"build/crt0.fae", "build/crt0.elf"}),
                       Remove(Targets) >>],
   crt0 |->
     [all       |-> << Update("crt0", "build/crt0.fae") >>,
      clean     |-> << Remove({"build/crt0.o"}) >>,
      realclean |-> << Remove({"build/crt0.o"}),
                       Remove({"build/crt0.fae", "build/crt0.elf"}) >>]]

(* realclean does not begin with clean: the object files stay.             *)
MutCommandsKeepObject(dir, goal) ==
  IF goal = "realclean" THEN << Remove({"build/crt0.fae", "build/crt0.elf"}) >>
                        ELSE Phony[dir][goal]

Commands(dir, goal) == Phony[dir][goal]

AllCommands(dir, goals) ==
  IF Len(goals) = 1 THEN Commands(dir, goals[1])
                    ELSE Commands(dir, goals[1]) \o Commands(dir, goals[2])

-----------------------------------------------------------------------------
(***************************************************************************)
(* One run of make.                                                        *)
(***************************************************************************)
StartMake(p, dir, goals) ==
  /\ status[p] # "running"
  /\ status' = [status EXCEPT ![p] = "running"]
  /\ todo' = [todo EXCEPT ![p] = AllCommands(dir, goals)]
  /\ read' = [read EXCEPT ![p] = << >>]

Does(p, command) ==
  status[p] = "running" /\ todo[p] # << >> /\ Head(todo[p]).do = command

Goal(p) == CHOOSE target \in Head(todo[p]).what : TRUE

(* The directory is named before the bar.                                  *)
MutOutOfDateDirectory(target) ==
  \/ ~Exists(target)
  \/ \E f \in Prerequisites(target) : disk[f].time > disk[target].time
  \/ << target, "build" >> \in OrderOnly /\ disk["build"].time > disk[target].time

OutOfDate(target) ==
  \/ ~Exists(target)
  \/ \E f \in Prerequisites(target) : disk[f].time > disk[target].time

(* The targets of a chain to make again: all from the first that is out of *)
(* date, and the directory of that chain if it is missing.                 *)
FirstStale(chain) ==
  CHOOSE i \in 2 .. (Len(chain) + 1) :
    /\ \A j \in 2 .. (i - 1) : ~OutOfDate(chain[j])
    /\ i <= Len(chain) => OutOfDate(chain[i])

ToMake(chain) ==
  (IF << chain[2], chain[1] >> \in OrderOnly /\ ~Exists(chain[1])
     THEN << chain[1] >> ELSE << >>)
    \o SubSeq(chain, FirstStale(chain), Len(chain))

Recipes(targets) == [i \in 1 .. Len(targets) |-> Recipe(targets[i])]

(* The recipe of the root for build/crt0.fae is another make, in crt0.     *)
LookAtTimes(p) ==
  /\ Does(p, "update")
  /\ LET dir == Head(todo[p]).dir
     IN  todo' = [todo EXCEPT ![p] =
           (IF Chain(dir, Goal(p)) # << >>
              THEN Recipes(ToMake(Chain(dir, Goal(p))))
              ELSE IF Exists(Goal(p)) THEN << >> ELSE Commands("crt0", "all"))
           \o Tail(@)]
  /\ UNCHANGED << disk, clock, read, status >>

(* The compiler, linker or archiver reads its inputs.                      *)
ReadInputs(p) ==
  /\ Does(p, "recipe") /\ read[p] = << >>
  /\ \A f \in Inputs(Goal(p)) : Exists(f)
  /\ read' = [read EXCEPT ![p] =
                << UNION {disk[f].of : f \in Inputs(Goal(p))} >>]
  /\ UNCHANGED << disk, clock, todo, status >>

(* A new file is a new entry of the directory.  An old one is written over,*)
(* or replaced.                                                            *)
WriteTarget(p) ==
  /\ Does(p, "recipe") /\ read[p] # << >>
  /\ Goal(p) # "build" => Exists("build")
  /\ \E entry \in {disk["build"].time, clock + 1} :
       /\ Exists(Goal(p)) \/ entry = clock + 1
       /\ disk' = [disk EXCEPT ![Goal(p)] = Written(read[p][1]),
                               !["build"].time = entry]
  /\ clock' = clock + 1
  /\ todo' = [todo EXCEPT ![p] = Tail(@)]
  /\ read' = [read EXCEPT ![p] = << >>]
  /\ UNCHANGED status

RemoveFiles(p) ==
  /\ Does(p, "remove")
  /\ LET gone == {f \in Head(todo[p]).what : Exists(f)}
     IN  /\ disk' = [f \in DOMAIN disk |->
                       IF f \in gone THEN Absent
                       ELSE IF f = "build" /\ gone # {} THEN Written({})
                                                        ELSE disk[f]]
         /\ clock' = IF gone = {} THEN clock ELSE clock + 1
  /\ todo' = [todo EXCEPT ![p] = Tail(@)]
  /\ UNCHANGED << read, status >>

MakeEnds(p) ==
  /\ status[p] = "running" /\ todo[p] = << >>
  /\ status' = [status EXCEPT ![p] = "ok"]
  /\ UNCHANGED << disk, clock, todo, read >>

(* The recipe that failed is run again.                                    *)
MutMakeFailsRetries(p) ==
  /\ Does(p, "recipe")
  /\ read' = [read EXCEPT ![p] = << >>]
  /\ UNCHANGED << disk, clock, todo, status >>

(* What is left to do is kept.                                             *)
MutMakeFailsKeepsTodo(p) ==
  /\ Does(p, "recipe")
  /\ status' = [status EXCEPT ![p] = "failed"]
  /\ read' = [read EXCEPT ![p] = << >>]
  /\ UNCHANGED << disk, clock, todo >>

(* A recipe fails: an error in a source, a tool or a file that is missing. *)
MakeFails(p) ==
  /\ Does(p, "recipe")
  /\ status' = [status EXCEPT ![p] = "failed"]
  /\ todo' = [todo EXCEPT ![p] = << >>]
  /\ read' = [read EXCEPT ![p] = << >>]
  /\ UNCHANGED << disk, clock >>

MakeStep(p) ==
  \/ LookAtTimes(p)
  \/ ReadInputs(p)
  \/ WriteTarget(p)
  \/ RemoveFiles(p)
  \/ MakeEnds(p)
  \/ MakeFails(p)

(* A source is edited.                                                     *)
EditSource(f) ==
  /\ EditDuringRecipes \/ \A p \in Makers : read[p] = << >>
  /\ disk' = [disk EXCEPT ![f] = Written({<< f, clock + 1 >>})]
  /\ clock' = clock + 1

MakeInit ==
  /\ disk = [f \in Sources \cup Targets |->
               IF f \in Sources THEN [time |-> 1, of |-> {<< f, 1 >>}]
                                ELSE Absent]
  /\ clock = 1
  /\ todo = [p \in Makers |-> << >>]
  /\ read = [p \in Makers |-> << >>]
  /\ status = [p \in Makers |-> "idle"]

MakeTypeOK ==
  /\ clock \in Nat
  /\ \A f \in Sources \cup Targets :
       disk[f].time \in 0 .. clock /\ disk[f].of \subseteq Sources \X (1 .. clock)
  /\ \A p \in Makers :
       /\ status[p] \in {"idle", "running", "ok", "failed"}
       /\ status[p] # "running" => todo[p] = << >>
       /\ read[p] # << >> => Does(p, "recipe")

(* The bytes of a file are made of a source as it is now.                  *)
MadeOf(f, source) == << source, disk[source].time >> \in disk[f].of
=============================================================================
