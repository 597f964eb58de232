--------------------------- MODULE MCDemandPaging ---------------------------
(* Two programs that share nothing.  DemandPaging on three pages: the main  *)
(* thread with one frame, then two workers with one frame each, the first   *)
(* of which has two pages.  Or the simulator TraceSim on every short trace. *)
EXTENDS DemandPaging, TraceSim

VARIABLE program   \* which of the two is run

MCInit ==
    \/ /\ program = "paging" /\ Init
       /\ SimStart(CHOOSE a \in Algs : TRUE, [i \in 1 .. NRefs |-> [type |-> CHOOSE k \in Types : TRUE, page |-> 0]])
    \/ /\ program = "simulator" /\ Init /\ store = [p \in Page |-> 0]
       /\ SimInit

MCNext ==
    \/ program = "paging" /\ Next /\ UNCHANGED <<program, simVars>>
    \/ program = "simulator" /\ SimNext /\ UNCHANGED <<program, vars>>

MCSpec == MCInit /\ [][MCNext]_<<program, vars, simVars>>

MCFramesOf == [t \in Thread |-> CASE t = 0 -> {0} [] t = 1 -> {1} [] OTHER -> {0}]
MCPagesOf == [t \in Thread |-> CASE t = 0 -> {0, 1} [] t = 1 -> {2} [] OTHER -> Page]
=============================================================================
