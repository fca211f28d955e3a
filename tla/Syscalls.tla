------------------------------ MODULE Syscalls -------------------------------
(***************************************************************************)
(* What the library of src/stdriot.c promises: a program asks RIOT for a   *)
(* service as it would call a function, although the two are compiled for  *)
(* different Global Offset Tables.                                         *)
(***************************************************************************)
CONSTANTS
  Services,  (* the services of RIOT, "exit" among them                    *)
  Values,    (* arguments and answers                                      *)
  Gots,      (* addresses of Global Offset Tables                          *)
  Nobody     (* not one of them: nobody's code relies on a GOT             *)

VARIABLES
  phase,    (* "idle", "entered", "program", "asking", "serving" or        *)
            (* "answered"                                                  *)
  gots,     (* the GOT of RIOT and the GOT of the program being executed   *)
  got,      (* the GOT that the running code finds its globals through     *)
  request,  (* the service asked for, and its argument                     *)
  answer    (* what the program got back last                              *)

vars == << phase, gots, got, request, answer >>

Init ==
  /\ phase = "idle"
  /\ got = Nobody

(* RIOT executes a program, which is entered and then runs.                *)
Begin ==
  /\ phase = "idle"
  /\ phase' = "entered"
  /\ gots' \in [riot : Gots, program : Gots]
  /\ got' = Nobody
  /\ UNCHANGED << request, answer >>

Enter ==
  /\ phase = "entered"
  /\ phase' = "program"
  /\ got' = gots.program
  /\ UNCHANGED << gots, request, answer >>

Ask ==
  /\ phase = "program"
  /\ phase' = "asking"
  /\ request' \in Services \X Values
  /\ got' = Nobody
  /\ UNCHANGED << gots, answer >>

(* RIOT serves the request that was made, with its own globals.            *)
Serve ==
  /\ phase = "asking"
  /\ phase' = "serving"
  /\ got' = gots.riot
  /\ UNCHANGED << gots, request, answer >>

Answer ==
  /\ phase = "serving"
  /\ request[1] # "exit"
  /\ phase' = "answered"
  /\ answer' \in Values
  /\ got' = Nobody
  /\ UNCHANGED << gots, request >>

(* The program goes on with its own globals.                               *)
Resume ==
  /\ phase = "answered"
  /\ phase' = "program"
  /\ got' = gots.program
  /\ UNCHANGED << gots, request, answer >>

(* A request to exit ends the execution.                                   *)
Exit ==
  /\ phase = "serving"
  /\ request[1] = "exit"
  /\ phase' = "idle"
  /\ got' = Nobody
  /\ UNCHANGED << gots, request, answer >>

Next == Begin \/ Enter \/ Ask \/ Serve \/ Answer \/ Resume \/ Exit

Spec == Init /\ [][Next]_vars
=============================================================================
