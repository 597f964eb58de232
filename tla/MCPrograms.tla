---------------------------- MODULE MCPrograms -----------------------------
(* Five programs that share nothing: the stores, RAID memory, the block    *)
(* device and the RPC services, which are built on the client library, and *)
(* the older key-value programs over TCP.  The first step says which of    *)
(* them runs.                                                              *)
EXTENDS Stores, Raid, BlockDevice, ArrayRpc, AsyncKv

Init == StoresInit /\ RaidInit /\ BlockInit /\ RpcInit /\ KvInit

StoresIdle == phase = "off" /\ startedRuns = 0
RaidIdle == rpc = "idle" /\ silent = -1
BlockIdle == dpc = "off"
RpcIdle == mode = "udp" /\ (\A s \in Servers : spc[s] = "off") /\ (\A c \in Clients : cpc[c] = "off")
KvIdle == cproc = "off"

Next ==
    \/ /\ RaidIdle /\ BlockIdle /\ RpcIdle /\ KvIdle
       /\ StoresNext /\ UNCHANGED <<raidVars, blockVars, rpcVars, kvVars>>
    \/ /\ StoresIdle /\ BlockIdle /\ RpcIdle /\ KvIdle
       /\ RaidNext /\ UNCHANGED <<storeVars, blockVars, rpcVars, kvVars>>
    \/ /\ StoresIdle /\ RaidIdle /\ RpcIdle /\ KvIdle
       /\ BlockNext /\ UNCHANGED <<storeVars, raidVars, rpcVars, kvVars>>
    \/ /\ StoresIdle /\ RaidIdle /\ BlockIdle /\ KvIdle
       /\ RpcNext /\ UNCHANGED <<storeVars, raidVars, blockVars, kvVars>>
    \/ /\ StoresIdle /\ RaidIdle /\ BlockIdle /\ RpcIdle
       /\ KvNext /\ UNCHANGED <<storeVars, raidVars, blockVars, rpcVars>>

Spec == Init /\ [][Next]_<<storeVars, raidVars, blockVars, rpcVars, kvVars>> /\ BlockFairness /\ KvFairness

\* Constants.
Steps == <<0, 6>>
Words == {[offset |-> 0, length |-> 1], [offset |-> 0, length |-> 0],
          [offset |-> 1, length |-> 1], [offset |-> 1, length |-> 2]}
=============================================================================
