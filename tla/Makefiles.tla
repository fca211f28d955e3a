------------------------------ MODULE Makefiles ------------------------------
(***************************************************************************)
(* A developer who edits sources and runs make: at the root, or in crt0,   *)
(* with the goals that the makefiles offer.                                *)
(***************************************************************************)
EXTENDS Make

CONSTANTS
  MaxMakes,  (* bound on the number of runs of make                        *)
  MaxEdits   (* bound on the number of edits                               *)

ASSUME MakefilesAssumption == MaxMakes \in Nat /\ MaxEdits \in Nat

VARIABLES
  asked,    (* for each maker, the directory and the goals of its last make*)
  began,    (* when that began                                             *)
  settled,  (* make at the root has succeeded, and nothing happened since  *)
  makes, edits

vars == << makeVars, asked, began, settled, makes, edits >>

All == [dir |-> "root", goals |-> << "all" >>]

Invocations ==
  [dir : {"root", "crt0"},
   goals : {<< "all" >>, << "clean" >>, << "realclean" >>, << "realclean", "all" >>}]

NoEditSince(p) == \A f \in Sources : disk[f].time <= began[p]

-----------------------------------------------------------------------------
Run(p, invocation) ==
  /\ makes < MaxMakes
  /\ StartMake(p, invocation.dir, invocation.goals)
  /\ asked' = [asked EXCEPT ![p] = invocation]
  /\ began' = [began EXCEPT ![p] = clock]
  /\ settled' = (settled /\ invocation = All)
  /\ makes' = makes + 1
  /\ UNCHANGED << disk, clock, edits >>

Work(p) ==
  /\ MakeStep(p)
  /\ settled' = \/ settled
                \/ status'[p] = "ok" /\ asked[p] = All /\ NoEditSince(p)
  /\ UNCHANGED << asked, began, makes, edits >>

Edit(f) ==
  /\ edits < MaxEdits
  /\ EditSource(f)
  /\ settled' = FALSE
  /\ edits' = edits + 1
  /\ UNCHANGED << todo, read, status, asked, began, makes >>

Init ==
  /\ MakeInit
  /\ asked = [p \in Makers |-> All]
  /\ began = [p \in Makers |-> 0]
  /\ settled = FALSE
  /\ makes = 0
  /\ edits = 0

Next ==
  \/ \E p \in Makers :
       \/ \E invocation \in Invocations : Run(p, invocation)
       \/ Work(p)
  \/ \E f \in Sources : Edit(f)

Spec == Init /\ [][Next]_vars

-----------------------------------------------------------------------------
(***************************************************************************)
(* Properties.                                                             *)
(***************************************************************************)

(* The types of the variables.  A make that has ended has nothing left to  *)
(* do, and only a recipe being run has read its inputs.                    *)
TypeOK ==
  /\ MakeTypeOK
  /\ asked \in [Makers -> Invocations]
  /\ began \in [Makers -> 0 .. clock]
  /\ settled \in BOOLEAN
  /\ makes \in 0 .. MaxMakes /\ edits \in 0 .. MaxEdits

Succeeded(p, goals) ==
  /\ status[p] = "ok" /\ NoEditSince(p)
  /\ asked[p].goals = goals

(* When make all succeeds at the root, the library is compiled from        *)
(* stdriot.c as it is, whatever was edited, cleaned, or failed before.     *)
LibraryCurrent ==
  \A p \in Makers :
    Succeeded(p, << "all" >>) /\ asked[p].dir = "root"
      => MadeOf("build/libfae.a", "src/stdriot.c")

(* make realclean all leaves nothing behind: what it builds is made of     *)
(* every source as it is, the headers that no rule names included.         *)
CleanBuildCurrent ==
  \A p \in Makers :
    Succeeded(p, << "realclean", "all" >>) =>
      /\ \A f \in {"crt0/crt0.c", "crt0/link.ld", "src/include"} :
           MadeOf("build/crt0.fae", f) /\ MadeOf("build/crt0.elf", f)
      /\ asked[p].dir = "root" =>
           \A f \in {"src/stdriot.c", "src/include"} : MadeOf("build/libfae.a", f)

(* A second make has nothing to do, although the directory build is newer  *)
(* than files in it that need it.                                          *)
NoNeedlessWork ==
  settled =>
    \A p \in Makers : \A i \in 1 .. Len(todo[p]) : todo[p][i].do = "update"

(***************************************************************************)
(* What the README says of make at the root: it builds crt0.fae.           *)
(***************************************************************************)
LoaderCurrent ==
  \A p \in Makers :
    Succeeded(p, << "all" >>) => MadeOf("build/crt0.fae", "crt0/crt0.c")
=============================================================================
