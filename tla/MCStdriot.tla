------------------------------ MODULE MCStdriot ------------------------------
(***************************************************************************)
(* Instances of Stdriot: programs at two places in RAM, executed by RIOT   *)
(* in both of its modes, any number of times.                              *)
(***************************************************************************)
EXTENDS Stdriot

CONSTANTS Riot, Low, High  (* three GOTs                                   *)

MCGots == {Riot, Low, High}

(* The table of xipfs, in the order that stdriot.c gives for it.           *)
MCTable ==
  [i \in 0 .. 9 |->
     << "exit", "vprintf", "get_temp", "isprint", "strtol", "get_led",
        "set_led", "copy_file", "get_file_size", "memset" >>[i + 1]]

MCContexts ==
  [former_got : {Riot}, current_got : {Low, High}, is_safe_call : BOOLEAN,
   syscall_table : {MCTable}]
=============================================================================
