----------------------------- MODULE MCBuildFae ------------------------------
(***************************************************************************)
(* Instances of BuildFae: two processes that build programs of two         *)
(* directories, from the repository or from the directory of the program:  *)
(* two programs of one directory, and a third that is built beside them.   *)
(***************************************************************************)
EXTENDS BuildFae, TLC

MCElfs == {"app/a.elf", "app/b.elf", "tool/t.elf", "lib.d/c.elf"}

MCDirname ==
  "app/a.elf" :> "app" @@ "app/b.elf" :> "app" @@ "tool/t.elf" :> "tool"
    @@ "lib.d/c.elf" :> "lib.d"

MCWellNamed == {"app/a.elf", "app/b.elf", "tool/t.elf"}

MCInt == "0" :> 0 @@ "32" :> 32 @@ "-1" :> -1

MCLines ==
  {[cwd |-> "root", argv |-> << "app/a.elf" >>],
   [cwd |-> "app",
    argv |-> << "--align-text", "32", "--crt0-path", "build", "app/b.elf" >>],
   [cwd |-> "tool", argv |-> << "--crt0-path", "own", "tool/t.elf" >>]}

(* Command lines that are refused, or fail at once.                        *)
MCBadLines ==
  {[cwd |-> "root", argv |-> << "lib.d/c.elf" >>],
   [cwd |-> "app", argv |-> << "app/a.elf" >>],
   [cwd |-> "app", argv |-> << "--align-text", "-1", "app/b.elf" >>],
   [cwd |-> "app", argv |-> << "--align-text", "x", "app/b.elf" >>],
   [cwd |-> "app", argv |-> << "--crt0-path", "nowhere", "app/b.elf" >>]}

MCAllLines == MCLines \cup MCBadLines

(* What make in the directory of several programs runs, with -j.           *)
MCSharedLines ==
  {[cwd |-> "app", argv |-> << "--crt0-path", "own", "app/a.elf" >>],
   [cwd |-> "app", argv |-> << "--crt0-path", "own", "app/b.elf" >>]}
=============================================================================
