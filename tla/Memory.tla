------------------------------- MODULE Memory -------------------------------
(***************************************************************************)
(* What the virtual memory of lib/vmem promises to the threads that use    *)
(* it: page_table_get_virtmem hands out a pointer, and a load or a store   *)
(* through it behaves as if the pages were one array.  Each thread has at  *)
(* most one instruction in flight; a page holds one value.                 *)
(***************************************************************************)

EXTENDS Naturals

CONSTANTS Thread,   \* the threads of the program
          Page,     \* page numbers of the virtual memory
          Value     \* what a page can hold

VARIABLES mem,      \* the array: page -> value
          op,       \* the instruction a thread is executing, or "idle"
          addr,     \* the page it addresses
          reg       \* the operand of a store, or what the last load returned

vars == <<mem, op, addr, reg>>

Op == {"idle", "load", "store"}

Init ==
    /\ mem \in [Page -> Value]
    /\ op = [t \in Thread |-> "idle"]
    /\ addr = [t \in Thread |-> 0]
    /\ reg = [t \in Thread |-> 0]

\* The thread's next instruction is a load from, or a store to, some page.
Issue(t) ==
    /\ op[t] = "idle"
    /\ \E p \in Page : addr' = [addr EXCEPT ![t] = p]
    /\ \/ op' = [op EXCEPT ![t] = "load"] /\ reg' = [reg EXCEPT ![t] = 0]
       \/ \E v \in Value : /\ op' = [op EXCEPT ![t] = "store"]
                           /\ reg' = [reg EXCEPT ![t] = v]
    /\ UNCHANGED mem

Done(t) ==
    /\ op' = [op EXCEPT ![t] = "idle"]
    /\ addr' = [addr EXCEPT ![t] = 0]

Load(t) ==
    /\ op[t] = "load"
    /\ reg' = [reg EXCEPT ![t] = mem[addr[t]]]
    /\ Done(t)
    /\ UNCHANGED mem

Store(t) ==
    /\ op[t] = "store"
    /\ mem' = [mem EXCEPT ![addr[t]] = reg[t]]
    /\ reg' = [reg EXCEPT ![t] = 0]
    /\ Done(t)

Next == \E t \in Thread : Issue(t) \/ Load(t) \/ Store(t)

Spec == Init /\ [][Next]_vars
=============================================================================
