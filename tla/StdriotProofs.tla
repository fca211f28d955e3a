---------------------------- MODULE StdriotProofs ----------------------------
(***************************************************************************)
(* Proofs about Stdriot: who runs finds its own globals, and the library   *)
(* implements Syscalls, for any GOTs, contexts and values.                 *)
(***************************************************************************)
EXTENDS Stdriot, TLAPS

-----------------------------------------------------------------------------
(***************************************************************************)
(* The invariant: where R10 and the globals stand at each statement.       *)
(***************************************************************************)

(* The globals of the program hold what it was handed over.                *)
Initialised == statics[ctx.current_got] = Kept

R10Inv ==
  /\ pc \in {"start", "main", "exit", "get_func", "set_previous", "return"}
       => r10 = ctx.current_got
  /\ pc \in {"branch", "riot"} => r10 = ctx.former_got

InCall == pc \in {"set_previous", "branch", "riot", "set_current"}

IInv ==
  /\ TypeOK
  /\ R10Inv
  /\ pc \in Statements \cup {"main", "exit", "riot"} => Initialised
  /\ InCall => anchor = ctx.current_got /\ func = ServiceOf(call.name)
  /\ pc \in {"set_current", "return"} => call.name # "exit"

-----------------------------------------------------------------------------
(* A wrapper uses one of the services of the enumeration.                  *)
LEMMA ServiceType == \A w \in Wrappers : ServiceOf(w) \in Services
  <1>1. "vprintf" = xipfs_syscall_e[2] /\ 2 \in 1 .. XIPFS_SYSCALL_MAX
    BY DEF xipfs_syscall_e, XIPFS_SYSCALL_MAX
  <1>2. "vprintf" \in Services
    BY <1>1 DEF Services
  <1>. QED
    BY <1>2 DEF ServiceOf, Wrappers

LEMMA ExitIsService == "exit" \in Services /\ "exit" \in Wrappers
  <1>1. "exit" = xipfs_syscall_e[1] /\ 1 \in 1 .. XIPFS_SYSCALL_MAX
    BY DEF xipfs_syscall_e, XIPFS_SYSCALL_MAX
  <1>2. "exit" \in Services
    BY <1>1 DEF Services
  <1>. QED
    BY <1>2 DEF Wrappers

(* What a context holds, and what the globals hold for it.                 *)
LEMMA ContextType ==
  ASSUME NEW c \in Contexts
  PROVE  /\ c.former_got \in Gots /\ c.current_got \in Gots
         /\ c.is_safe_call \in BOOLEAN
         /\ c.syscall_table \in [0 .. (XIPFS_SYSCALL_MAX - 1) -> Services]
         /\ \A s \in Services : c.syscall_table[Index(s)] = s
  BY ContextsAssumption

LEMMA KeptType == ctx \in Contexts => Kept \in Globals
  BY ContextType DEF Kept, Globals

LEMMA ZeroedType == Zeroed \in Globals
  BY DEF Zeroed, Globals

-----------------------------------------------------------------------------
LEMMA InitInv == Init => IInv
  <1> SUFFICES ASSUME Init PROVE IInv
    OBVIOUS
  <1>1. TypeOK
    BY ZeroedType, ExitIsService DEF Init, TypeOK
  <1>. QED
    BY <1>1 DEF Init, IInv, R10Inv, Statements, InCall

LEMMA NextInv == IInv /\ [Next]_vars => IInv'
  <1> SUFFICES ASSUME IInv, [Next]_vars
               PROVE  IInv'
    OBVIOUS
  <1> USE DEF Statements, InCall, set_r10
  <1>t. ctx \in Contexts /\ ctx.current_got \in Gots /\ ctx.former_got \in Gots
    BY ContextType DEF IInv, TypeOK
  <1>1. CASE Execute
    <2>1. PICK c \in Contexts :
            /\ ctx' = c
            /\ statics' = [statics EXCEPT ![c.current_got] = Zeroed]
            /\ r10' = c.current_got
      BY <1>1 DEF Execute
    <2>2. c.current_got \in Gots
      BY ContextType
    <2>3. TypeOK'
      BY <1>1, <2>1, <2>2, ZeroedType DEF Execute, IInv, TypeOK
    <2>. QED
      BY <1>1, <2>1, <2>3 DEF Execute, IInv, R10Inv
  <1>2. CASE Start
    <2>1. /\ statics' = [statics EXCEPT ![ctx.current_got] = Kept]
          /\ r10' = ctx.current_got
      BY <1>2 DEF Start, IInv, R10Inv
    <2>2. TypeOK'
      BY <1>2, <1>t, <2>1, KeptType DEF Start, IInv, TypeOK
    <2>3. Initialised'
      BY <1>2, <1>t, <2>1 DEF Start, IInv, TypeOK, Initialised, Kept
    <2>. QED
      BY <1>2, <2>1, <2>2, <2>3 DEF Start, IInv, R10Inv
  <1>3. ASSUME NEW wrapper \in Wrappers \ {"exit"}, NEW argument \in Values,
               Call(wrapper, argument)
        PROVE  IInv'
    BY <1>3 DEF Call, IInv, TypeOK, R10Inv, Initialised, Kept
  <1>4. CASE MainReturns
    BY <1>4 DEF MainReturns, IInv, TypeOK, R10Inv, Initialised, Kept
  <1>5. CASE CallExit
    BY <1>5, ExitIsService
       DEF CallExit, ExitArgument, IInv, TypeOK, R10Inv, Initialised, Kept
  <1>6. CASE GetFunc
    <2>1. anchor' = ctx.current_got
      BY <1>6 DEF GetFunc, IInv, R10Inv
    <2>2. func' = ctx.syscall_table[Index(ServiceOf(call.name))]
      BY <1>6 DEF GetFunc, IInv, R10Inv, Initialised, Kept
    <2>3. func' = ServiceOf(call.name) /\ func' \in Services
      BY <2>2, <1>t, ContextType, ServiceType DEF IInv, TypeOK
    <2>4. TypeOK'
      BY <1>6, <1>t, <2>1, <2>3 DEF GetFunc, IInv, TypeOK
    <2>. QED
      BY <1>6, <2>1, <2>3, <2>4 DEF GetFunc, IInv, R10Inv, Initialised, Kept
  <1>7. CASE SetPrevious
    <2>1. r10' = ctx.former_got
      BY <1>7 DEF SetPrevious, IInv, Initialised, Kept
    <2>2. TypeOK'
      BY <1>7, <1>t, <2>1 DEF SetPrevious, IInv, TypeOK
    <2>. QED
      BY <1>7, <2>1, <2>2 DEF SetPrevious, IInv, R10Inv, Initialised, Kept
  <1>8. CASE Branch
    BY <1>8 DEF Branch, IInv, TypeOK, R10Inv, Initialised, Kept
  <1>9. CASE SetCurrent
    <2>1. r10' = ctx.current_got
      BY <1>9 DEF SetCurrent, CurrentGot, IInv, Initialised, Kept
    <2>2. TypeOK'
      BY <1>9, <1>t, <2>1 DEF SetCurrent, IInv, TypeOK
    <2>. QED
      BY <1>9, <2>1, <2>2 DEF SetCurrent, IInv, R10Inv, Initialised, Kept
  <1>10. CASE Return
    BY <1>10 DEF Return, IInv, TypeOK, R10Inv, Initialised, Kept
  <1>11. CASE RiotReturns
    <2>1. call.name # "exit"
      BY <1>11 DEF RiotReturns, IInv, ServiceOf
    <2>. QED
      BY <1>11, <2>1 DEF RiotReturns, IInv, TypeOK, R10Inv, Initialised, Kept
  <1>12. CASE RiotExits
    BY <1>12 DEF RiotExits, IInv, TypeOK, R10Inv
  <1>13. CASE UNCHANGED vars
    BY <1>13 DEF vars, IInv, TypeOK, R10Inv, Initialised, Kept
  <1>. QED
    BY <1>1, <1>2, <1>3, <1>4, <1>5, <1>6, <1>7, <1>8, <1>9, <1>10, <1>11,
       <1>12, <1>13
       DEF Next, Library

LEMMA Invariance == Spec => []IInv
  BY InitInv, NextInv, PTL DEF Spec

-----------------------------------------------------------------------------
(* The types of the variables, and that the loop behind exit() at the end  *)
(* of start() is never reached: RIOT does not return from exit.            *)
THEOREM TypeCorrect == Spec => []TypeOK
  <1>1. IInv => TypeOK
    BY DEF IInv
  <1>. QED
    BY <1>1, Invariance, PTL

(* Whatever the program calls, RIOT runs with the GOT of RIOT in R10, and  *)
(* main() with that of the program being executed.                         *)
THEOREM OwnGotAlways == Spec => []OwnGot
  <1>1. IInv => OwnGot
    BY DEF IInv, R10Inv, OwnGot
  <1>. QED
    BY <1>1, Invariance, PTL

-----------------------------------------------------------------------------
(* The initial states of the library are initial states of Syscalls.       *)
LEMMA InitRefines == Init => Abs!Init
  BY DEF Init, Abs!Init

(* A step of the library is a step of Syscalls, or changes nothing there.  *)
LEMMA StepRefines == IInv /\ [Next]_vars => [Abs!Next]_(Abs!vars)
  <1> SUFFICES ASSUME IInv, [Next]_vars
               PROVE  Abs!Next \/ UNCHANGED Abs!vars
    OBVIOUS
  <1> USE DEF Statements, InCall, Abs!vars
  <1>t. TypeOK
    BY DEF IInv
  <1>c. ctx.current_got \in Gots /\ ctx.former_got \in Gots
    BY <1>t, ContextType DEF TypeOK
  <1>1. CASE Execute
    <2>1. PICK c \in Contexts : ctx' = c
      BY <1>1 DEF Execute
    <2>2. c.former_got \in Gots /\ c.current_got \in Gots
      BY ContextType
    <2>3. Abs!Begin
      BY <1>1, <2>1, <2>2 DEF Execute, Abs!Begin
    <2>. QED
      BY <2>3 DEF Abs!Next
  <1>2. CASE Start
    <2>1. Abs!Enter
      BY <1>2 DEF Start, IInv, R10Inv, Abs!Enter
    <2>. QED
      BY <2>1 DEF Abs!Next
  <1>3. ASSUME NEW wrapper \in Wrappers \ {"exit"}, NEW argument \in Values,
               Call(wrapper, argument)
        PROVE  Abs!Next
    <2>1. Meant(wrapper) \in Services
      BY ServiceType DEF Meant, ServiceOf
    <2>2. Abs!Ask
      BY <1>3, <2>1 DEF Call, Abs!Ask
    <2>. QED
      BY <2>2 DEF Abs!Next
  <1>4. CASE MainReturns
    BY <1>4 DEF MainReturns
  <1>5. CASE CallExit
    <2>1. Meant("exit") \in Services
      BY ExitIsService DEF Meant
    <2>2. Abs!Ask
      BY <1>5, <1>t, <2>1 DEF CallExit, ExitArgument, TypeOK, Abs!Ask
    <2>. QED
      BY <2>2 DEF Abs!Next
  <1>6. CASE GetFunc \/ SetPrevious
    BY <1>6 DEF GetFunc, SetPrevious, set_r10
  <1>7. CASE Branch
    <2>1. Abs!Serve
      BY <1>7 DEF Branch, IInv, ServiceOf, Meant, R10Inv, Abs!Serve
    <2>. QED
      BY <2>1 DEF Abs!Next
  <1>8. CASE SetCurrent
    BY <1>8 DEF SetCurrent, set_r10
  <1>9. CASE Return
    <2>1. Abs!Resume
      BY <1>9 DEF Return, IInv, R10Inv, Abs!Resume
    <2>. QED
      BY <2>1 DEF Abs!Next
  <1>10. CASE RiotReturns
    <2>1. Abs!Answer
      BY <1>10 DEF RiotReturns, IInv, ServiceOf, Meant, Abs!Answer
    <2>. QED
      BY <2>1 DEF Abs!Next
  <1>11. CASE RiotExits
    <2>1. Abs!Exit
      BY <1>11 DEF RiotExits, IInv, ServiceOf, Meant, Abs!Exit
    <2>. QED
      BY <2>1 DEF Abs!Next
  <1>12. CASE UNCHANGED vars
    BY <1>12 DEF vars
  <1>. QED
    BY <1>1, <1>2, <1>3, <1>4, <1>5, <1>6, <1>7, <1>8, <1>9, <1>10, <1>11,
       <1>12
       DEF Next, Library

(* The library implements Syscalls, for every program: any GOTs, contexts, *)
(* arguments and answers, any sequence of calls and of executions.         *)
THEOREM SyscallsImplemented == Spec => ImplementsSyscalls
  <1>1. Spec => Abs!Init /\ [][Abs!Next]_(Abs!vars)
    BY InitRefines, StepRefines, Invariance, PTL DEF Spec
  <1>. QED
    BY <1>1 DEF ImplementsSyscalls, Abs!Spec
=============================================================================
