------------------------------ MODULE Stdriot --------------------------------
(***************************************************************************)
(* The library that programs are linked with: src/stdriot.c.               *)
(*                                                                         *)
(* The loader branches to start(), which keeps what xipfs handed over and  *)
(* calls main(); main() calls RIOT through one wrapper for each syscall.   *)
(* The code of a program finds its globals through R10, register sl, and   *)
(* so does the code of RIOT: the wrappers switch R10 around each call, and *)
(* what they switch it to are globals of the program themselves.           *)
(*                                                                         *)
(* The compiler computes the address of these globals once for a wrapper,  *)
(* through R10 on entry, and keeps it in a register that the callee saves. *)
(***************************************************************************)
EXTENDS Integers, Sequences

CONSTANTS
  Gots,      (* addresses of Global Offset Tables                          *)
  Contexts,  (* what xipfs and the loader may hand over                    *)
  Values,    (* arguments and results of calls, and exit statuses          *)
  NULL

(***************************************************************************)
(* enum xipfs_syscall_e, and the wrappers that use it.                     *)
(***************************************************************************)
xipfs_syscall_e ==
  << "exit", "vprintf", "get_temp", "isprint", "strtol", "get_led", "set_led",
     "copy_file", "get_file_size", "memset" >>

XIPFS_SYSCALL_MAX == Len(xipfs_syscall_e)

Services == {xipfs_syscall_e[i] : i \in 1 .. XIPFS_SYSCALL_MAX}

Index(service) ==
  (CHOOSE i \in 1 .. XIPFS_SYSCALL_MAX : xipfs_syscall_e[i] = service) - 1

Wrappers == (Services \ {"vprintf"}) \cup {"printf"}

(* The services of set_led and get_led exchanged.                          *)
MutServiceSwapped(wrapper) ==
  IF wrapper = "printf"  THEN "vprintf" ELSE
  IF wrapper = "set_led" THEN "get_led" ELSE
  IF wrapper = "get_led" THEN "set_led" ELSE wrapper

(* Leaves by a service that returns.                                       *)
MutServiceExitMisnamed(wrapper) ==
  IF wrapper = "printf" THEN "vprintf" ELSE
  IF wrapper = "exit"   THEN "get_temp" ELSE wrapper

ServiceOf(wrapper) == IF wrapper = "printf" THEN "vprintf" ELSE wrapper

(* The enumeration and the table of xipfs are in the same order.           *)
ASSUME ContextsAssumption ==
  /\ Contexts \subseteq [former_got : Gots, current_got : Gots,
                         is_safe_call : BOOLEAN,
                         syscall_table : [0 .. (XIPFS_SYSCALL_MAX - 1) -> Services]]
  /\ \A c \in Contexts, s \in Services : c.syscall_table[Index(s)] = s

ASSUME NullAssumption == NULL \notin Gots

VARIABLES
  ctx,       (* the context of the execution                               *)
  statics,   (* for each GOT, the globals of the library as found through  *)
             (* it                                                         *)
  r10,       (* register R10                                               *)
  pc,        (* who runs, or the statement of the wrapper to execute next  *)
  call,      (* the wrapper that was called last, and its argument         *)
  anchor,    (* the GOT through which the wrapper found the globals        *)
  func,      (* local variable of the wrapper                              *)
  res,       (* what the last service returned                             *)
  status,    (* what main() returned last                                  *)
  reported   (* the exit status that RIOT was given last                   *)

vars == << ctx, statics, r10, pc, call, anchor, func, res, status, reported >>

(* .ram is zero when the program starts.                                   *)
Zeroed ==
  [is_safe_call |-> FALSE, xipfs_syscall_table |-> NULL,
   previous_got |-> NULL, current_got |-> NULL]

set_r10(ptr) == r10' = ptr

-----------------------------------------------------------------------------
(***************************************************************************)
(* xipfs and the loader: the statics are zero, R10 is the GOT that the     *)
(* context names (property ImplementsLoad of Crt0).                        *)
(***************************************************************************)
Execute ==
  /\ pc = "idle"
  /\ \E c \in Contexts :
       /\ ctx' = c
       /\ statics' = [statics EXCEPT ![c.current_got] = Zeroed]
       /\ set_r10(c.current_got)
  /\ pc' = "start"
  /\ UNCHANGED << call, anchor, func, res, status, reported >>

(* Keeps the GOT it finds in R10 as that of RIOT.                          *)
MutKeptOwnGot ==
  [is_safe_call |-> ctx.is_safe_call, xipfs_syscall_table |-> ctx.syscall_table,
   previous_got |-> r10, current_got |-> ctx.current_got]

Kept ==
  [is_safe_call |-> ctx.is_safe_call, xipfs_syscall_table |-> ctx.syscall_table,
   previous_got |-> ctx.former_got, current_got |-> ctx.current_got]

(* start(), up to the call of main().                                      *)
Start ==
  /\ pc = "start"
  /\ statics' = [statics EXCEPT ![r10] = Kept]
  /\ pc' = "main"
  /\ UNCHANGED << ctx, r10, call, anchor, func, res, status, reported >>

(* main() calls a wrapper; exit() is not offered to it.                    *)
Call(wrapper, argument) ==
  /\ pc = "main"
  /\ call' = [name |-> wrapper, argument |-> argument]
  /\ pc' = "get_func"
  /\ UNCHANGED << ctx, statics, r10, anchor, func, res, status, reported >>

MainReturns ==
  /\ pc = "main"
  /\ status' \in Values
  /\ pc' = "exit"
  /\ UNCHANGED << ctx, statics, r10, call, anchor, func, res, reported >>

(* Exits with what the last service returned.                              *)
MutExitArgument == res

ExitArgument == status

CallExit ==
  /\ pc = "exit"
  /\ call' = [name |-> "exit", argument |-> ExitArgument]
  /\ pc' = "get_func"
  /\ UNCHANGED << ctx, statics, r10, anchor, func, res, status, reported >>

(***************************************************************************)
(* The statements of a wrapper.                                            *)
(***************************************************************************)
GetFunc ==
  /\ pc = "get_func"
  /\ anchor' = r10
  /\ func' = statics[r10].xipfs_syscall_table[Index(ServiceOf(call.name))]
  /\ pc' = "set_previous"
  /\ UNCHANGED << ctx, statics, r10, call, res, status, reported >>

SetPrevious ==
  /\ pc = "set_previous"
  /\ set_r10(statics[anchor].previous_got)
  /\ pc' = "branch"
  /\ UNCHANGED << ctx, statics, call, anchor, func, res, status, reported >>

Branch ==
  /\ pc = "branch"
  /\ pc' = "riot"
  /\ UNCHANGED << ctx, statics, r10, call, anchor, func, res, status, reported >>

(* Finds the globals again through R10 once the service has returned.      *)
MutCurrentGotThroughR10 == statics[r10].current_got

CurrentGot == statics[anchor].current_got

SetCurrent ==
  /\ pc = "set_current"
  /\ set_r10(CurrentGot)
  /\ pc' = "return"
  /\ UNCHANGED << ctx, statics, call, anchor, func, res, status, reported >>

(* To main(), or from exit() to the loop at the end of start().            *)
Return ==
  /\ pc = "return"
  /\ pc' = IF call.name = "exit" THEN "forever" ELSE "main"
  /\ UNCHANGED << ctx, statics, r10, call, anchor, func, res, status, reported >>

(***************************************************************************)
(* RIOT: every service returns to its caller, exit to the shell.           *)
(***************************************************************************)
RiotReturns ==
  /\ pc = "riot"
  /\ func # "exit"
  /\ res' \in Values
  /\ pc' = "set_current"
  /\ UNCHANGED << ctx, statics, r10, call, anchor, func, status, reported >>

RiotExits ==
  /\ pc = "riot"
  /\ func = "exit"
  /\ reported' = call.argument
  /\ pc' = "idle"
  /\ UNCHANGED << ctx, statics, r10, call, anchor, func, res, status >>

-----------------------------------------------------------------------------
Init ==
  /\ ctx \in Contexts
  /\ statics = [g \in Gots |-> Zeroed]
  /\ r10 = NULL
  /\ pc = "idle"
  /\ call \in [name : {"exit"}, argument : Values]
  /\ anchor = NULL
  /\ func = "exit"
  /\ res \in Values
  /\ status \in Values
  /\ reported \in Values

Library == CallExit \/ GetFunc \/ SetPrevious \/ Branch \/ SetCurrent \/ Return

Next ==
  \/ Execute
  \/ Start
  \/ \E wrapper \in Wrappers \ {"exit"}, argument \in Values : Call(wrapper, argument)
  \/ MainReturns
  \/ Library
  \/ RiotReturns
  \/ RiotExits

(* The processor keeps executing the library, and RIOT its exit.  main()   *)
(* and the other services may take forever.                                *)
Spec == Init /\ [][Next]_vars /\ WF_vars(Start \/ Library) /\ WF_vars(RiotExits)

-----------------------------------------------------------------------------
(***************************************************************************)
(* Properties.                                                             *)
(***************************************************************************)
Statements == {"get_func", "set_previous", "branch", "set_current", "return"}

Globals ==
  [is_safe_call : BOOLEAN,
   xipfs_syscall_table :
     [0 .. (XIPFS_SYSCALL_MAX - 1) -> Services] \cup {NULL},
   previous_got : Gots \cup {NULL}, current_got : Gots \cup {NULL}]

(* The types of the variables.  The loop behind exit() is never reached.   *)
TypeOK ==
  /\ ctx \in Contexts
  /\ statics \in [Gots -> Globals]
  /\ r10 \in Gots \cup {NULL}
  /\ anchor \in Gots \cup {NULL}
  /\ pc \in Statements \cup {"idle", "start", "main", "exit", "riot"}
  /\ call \in [name : Wrappers, argument : Values]
  /\ func \in Services
  /\ res \in Values
  /\ status \in Values
  /\ reported \in Values

(* Each side finds its own globals: R10 is the GOT of the program being    *)
(* executed while its main() runs, and the GOT of RIOT while RIOT serves   *)
(* it, whatever calls and executions came before.                          *)
OwnGot ==
  /\ pc \in {"start", "main", "exit"} => r10 = ctx.current_got
  /\ pc = "riot" => r10 = ctx.former_got

(* The service that a program means when it calls a wrapper.               *)
Meant(wrapper) == IF wrapper = "printf" THEN "vprintf" ELSE wrapper

(* The library implements the module Syscalls: RIOT serves the request     *)
(* that main() made, main() gets the answer of RIOT, each with its globals,*)
(* and only a request to exit ends the execution.                          *)
Abs == INSTANCE Syscalls WITH
  Nobody  <- NULL,
  phase   <- IF pc = "start" THEN "entered" ELSE
             IF pc \in {"main", "exit"} THEN "program" ELSE
             IF pc = "riot"  THEN "serving" ELSE
             IF pc \in {"get_func", "set_previous", "branch"} THEN "asking" ELSE
             IF pc \in {"set_current", "return"} THEN "answered" ELSE "idle",
  gots    <- [riot |-> ctx.former_got, program |-> ctx.current_got],
  got     <- IF pc \in {"main", "exit", "riot"} THEN r10 ELSE NULL,
  request <- << IF pc = "riot" THEN func ELSE Meant(call.name),
                call.argument >>,
  answer  <- res

ImplementsSyscalls == Abs!Spec

(* What main() returns reaches RIOT as the exit status of the program.     *)
StatusReported ==
  \A v \in Values :
    pc = "exit" /\ status = v ~> pc = "idle" /\ reported = v
=============================================================================
