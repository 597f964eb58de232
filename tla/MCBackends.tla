----------------------------- MODULE MCBackends -----------------------------
(* A program is built with one of the two network backends: the first step *)
(* says with which.                                                        *)
EXTENDS PacketRing, Dpdk

Init == RawInit /\ DpdkInit

Next ==
    \/ stage = "off" /\ RawNext /\ UNCHANGED dpdkVars
    \/ pc = "off" /\ DpdkNext /\ UNCHANGED rawVars

Spec == Init /\ [][Next]_<<rawVars, dpdkVars>> /\ RawFairness /\ DpdkFairness
=============================================================================
