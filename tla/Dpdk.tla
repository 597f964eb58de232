-------------------------------- MODULE Dpdk --------------------------------
(***************************************************************************)
(* The DPDK backend (lib/dpdk_backend): one thread that polls the network  *)
(* card's receive queue in bursts.  It starts with config_dpdk, which may  *)
(* end the program; then it is a server (rcv_loop) or a client whose calls *)
(* send a batch and wait for the replies, with one dpdk_client_rcv for     *)
(* each of them or with write_dpdk_packets for all.                        *)
(*                                                                         *)
(* Packets live in buffers (mbufs) of one pool; whoever has taken one must *)
(* free it.  Packets for this program are numbered as they arrive; 0 is a  *)
(* packet for somebody else, which the card, in promiscuous mode, also     *)
(* receives.  DPDK itself is external.                                     *)
(***************************************************************************)
EXTENDS Integers, Sequences, SequencesExt, FiniteSetsExt

CONSTANTS
    Ports,         \* bound: numbers of ports the card may have
    EnabledLcores, \* the cores of "-l 0"
    MaxLcore,      \* RTE_MAX_LCORE
    MaxCheckTime,  \* MAX_CHECK_TIME
    MaxPktBurst,   \* MAX_PKT_BURST
    Pool,          \* mbufs in the pool
    RxDescs,       \* nb_rxd
    TxDescs,       \* nb_txd
    BatchMax,      \* BATCH_SIZE of client_lib.c
    MaxPackets,    \* bound: packets for this program
    MaxForeign     \* bound: other packets

ASSUME DpdkAssumption ==
    /\ Ports \subseteq Nat
    /\ EnabledLcores \subseteq 0 .. MaxLcore - 1
    /\ {MaxLcore, MaxCheckTime, MaxPktBurst, Pool, RxDescs, TxDescs, BatchMax} \subseteq Nat \ {0}
    /\ {MaxPackets, MaxForeign} \subseteq Nat

VARIABLES
    stage,        \* how far config_dpdk and its caller have come
    nb_ports,
    rx_port_list, \* lcore_queue_conf: the ports of each core
    portid,       \* loop variable of init_ports
    link,         \* count and print_flag of check_all_ports_link_status
    reported,     \* it has printed the status of the links
    mode,         \* what the thread does once it is ready
    want,         \* replies a client still waits for
    todo,         \* packets of the batch not yet assembled
    owed,         \* replies still to come
    free,         \* mbufs in the pool
    rxq,          \* packets in the receive queue
    burst,        \* the part of pkts_burst not yet looked at (server)
    buffered,     \* packets in tx_buffer
    intx,         \* packets the card is sending
    leaked,       \* mbufs nobody will free
    arrived, foreign,
    got,          \* packets processed, or returned to the caller
    noRoom,       \* the card has dropped a packet of ours
    unsent,       \* the card's queue was full and a packet was not sent
    skipped       \* a reply was dropped behind another one in its burst

startVars == <<nb_ports, rx_port_list, portid, link, reported>>
cardVars == <<rxq, arrived, foreign, noRoom>>
sendVars == <<todo, buffered, intx, unsent>>
dpdkVars == <<stage, startVars, mode, want, owed, free, burst, leaked, got, skipped, cardVars, sendVars>>

DpdkInit ==
    /\ stage = "off"
    /\ nb_ports = 0
    /\ rx_port_list = [c \in 0 .. MaxLcore - 1 |-> <<>>]
    /\ portid = 0
    /\ link = [count |-> 0, print_flag |-> FALSE]
    /\ reported = FALSE
    /\ mode = "none"
    /\ want = 0 /\ todo = 0 /\ owed = 0
    /\ free = Pool
    /\ rxq = <<>> /\ burst = <<>> /\ got = <<>>
    /\ buffered = 0 /\ intx = 0 /\ leaked = 0
    /\ arrived = 0 /\ foreign = 0
    /\ noRoom = FALSE /\ unsent = FALSE /\ skipped = FALSE

-----------------------------------------------------------------------------
(* config_dpdk                                                             *)

runVars == <<mode, want, owed, free, burst, leaked, got, skipped, cardVars, sendVars>>

rte_eal_init ==
    /\ stage = "off"
    /\ \E n \in Ports :
        /\ nb_ports' = n
        /\ stage' = IF n = 0 THEN "exit" ELSE "config"
    /\ UNCHANGED <<rx_port_list, portid, link, reported, runVars>>

\* The core that config_ports finds for the next port, from rx_lcore_id on:
\* enabled, and without a port yet (bb_rx_queue_per_lcore is 1).
LcoresFrom(conf, c) == {d \in c .. MaxLcore - 1 : d \in EnabledLcores /\ Len(conf[d]) # 1}

\* The state of config_ports' loop after one more port.
AssignPort(acc, p) ==
    LET cores == LcoresFrom(acc.conf, acc.lcore)
    IN  IF ~acc.ok \/ cores = {} THEN [acc EXCEPT !.ok = FALSE]
        ELSE [ok |-> TRUE, lcore |-> Min(cores),
              conf |-> [acc.conf EXCEPT ![Min(cores)] = Append(@, p)]]

config_ports ==
    /\ stage = "config"
    /\ LET ports == [i \in 1 .. nb_ports |-> i - 1]
           r == FoldLeft(AssignPort, [ok |-> TRUE, lcore |-> 0, conf |-> rx_port_list], ports)
       IN  /\ rx_port_list' = r.conf
           /\ stage' = IF r.ok THEN "pool" ELSE "exit"
    /\ UNCHANGED <<nb_ports, portid, link, reported, runVars>>

\* The rest of config_dpdk up to the link check.  Each port's set-up ends the
\* program when one of the calls to DPDK fails.
init_ports ==
    /\ stage = "pool"
    /\ IF portid < nb_ports
       THEN \/ portid' = portid + 1 /\ stage' = stage
            \/ stage' = "exit" /\ portid' = portid
       ELSE stage' = "link" /\ portid' = portid
    /\ UNCHANGED <<nb_ports, rx_port_list, link, reported, runVars>>

\* Mutant: the rounds are not counted.
LinkStatusNoTimeout(up) ==
    /\ stage = "link"
    /\ link' = [count |-> 1 - link.count, print_flag |-> up]
    /\ IF link.print_flag THEN stage' = "ready" /\ reported' = TRUE ELSE UNCHANGED <<stage, reported>>
    /\ UNCHANGED <<nb_ports, rx_port_list, portid, runVars>>

\* One round of the loop, in which all links are up or not.  The round after
\* print_flag was set prints them; without it the loop ends unprinted.
check_all_ports_link_status(up) ==
    /\ stage = "link"
    /\ IF link.print_flag \/ link.count > MaxCheckTime
       THEN /\ stage' = "ready"
            /\ reported' = link.print_flag
            /\ link' = [count |-> 0, print_flag |-> FALSE]
       ELSE /\ link' = [count |-> link.count + 1,
                        print_flag |-> up \/ link.count = MaxCheckTime - 1]
            /\ UNCHANGED <<stage, reported>>
    /\ UNCHANGED <<nb_ports, rx_port_list, portid, runVars>>

Launch ==
    /\ stage = "ready"
    /\ mode = "none"
    /\ mode' \in {"idle", "poll"}
    /\ UNCHANGED <<stage, startVars, want, owed, free, burst, leaked, got, skipped, cardVars, sendVars>>

-----------------------------------------------------------------------------
(* The network card                                                        *)

Server == mode \in {"poll", "burst"}

\* A packet p comes in; it needs a descriptor and an mbuf.
Receive(p) ==
    IF Len(rxq) < RxDescs /\ free > 0
    THEN rxq' = Append(rxq, p) /\ free' = free - 1 /\ noRoom' = noRoom
    ELSE noRoom' = (noRoom \/ p # 0) /\ UNCHANGED <<rxq, free>>

\* Requests come to a server as they like, replies to a client one for each
\* request.
PacketArrives ==
    /\ mode # "exit"
    /\ IF Server THEN owed' = owed ELSE owed > 0 /\ owed' = owed - 1
    /\ arrived < MaxPackets
    /\ arrived' = arrived + 1
    /\ Receive(arrived + 1)
    /\ UNCHANGED <<stage, startVars, mode, want, burst, leaked, got, skipped, foreign, sendVars>>

ArriveForeign ==
    /\ mode \notin {"none", "exit"}
    /\ foreign < MaxForeign
    /\ foreign' = foreign + 1
    /\ Receive(0)
    /\ UNCHANGED <<stage, startVars, mode, want, owed, burst, leaked, got, skipped, arrived, sendVars>>

\* The card has sent a packet and frees its mbuf.
CardSends ==
    /\ intx > 0
    /\ intx' = intx - 1
    /\ free' = free + 1
    /\ UNCHANGED <<stage, startVars, mode, want, owed, burst, leaked, got, skipped, cardVars, todo, buffered, unsent>>

-----------------------------------------------------------------------------
(* Sending                                                                 *)

\* dpdk_assemble ends the program when there is no free mbuf.
CanAssemble == free > 0

\* Mutant: packets that do not fit are not freed.
FlushKeepsUnsent(n, avail) ==
    LET sent == Min({n, TxDescs - intx})
    IN  /\ intx' = intx + sent
        /\ free' = avail
        /\ unsent' = (unsent \/ sent < n)
        /\ buffered' = 0
        /\ owed' = IF Server THEN owed ELSE owed + sent

\* rte_eth_tx_buffer_flush with n packets buffered and avail mbufs in the
\* pool: what does not fit into the card's queue is freed, unsent.
Flush(n, avail) ==
    LET sent == Min({n, TxDescs - intx})
    IN  /\ intx' = intx + sent
        /\ free' = avail + n - sent
        /\ unsent' = (unsent \/ sent < n)
        /\ buffered' = 0
        /\ owed' = IF Server THEN owed ELSE owed + sent

\* A call that sends n packets and waits for n replies, one by one (batch_write
\* to n servers, for n = 1 any simple call) or together (batch_read).
Call(n, how) ==
    /\ mode = "idle"
    /\ arrived + n <= MaxPackets
    /\ todo' = n /\ want' = n
    /\ mode' = IF how = "rcv" THEN "sendRcv" ELSE "sendBulk"
    /\ UNCHANGED <<stage, startVars, owed, free, burst, leaked, got, skipped, cardVars, buffered, intx, unsent>>

\* One packet of dpdk_batched_send: rte_eth_tx_buffer flushes a full buffer.
dpdk_batched_send ==
    /\ mode \in {"sendRcv", "sendBulk"}
    /\ todo > 0
    /\ IF ~CanAssemble THEN mode' = "exit" /\ UNCHANGED <<free, owed, sendVars>>
       ELSE /\ todo' = todo - 1
            /\ mode' = mode
            /\ IF buffered + 1 = MaxPktBurst THEN Flush(buffered + 1, free - 1)
               ELSE /\ buffered' = buffered + 1
                    /\ free' = free - 1
                    /\ UNCHANGED <<owed, intx, unsent>>
    /\ UNCHANGED <<stage, startVars, want, burst, leaked, got, skipped, cardVars>>

\* The last flush.
EndSend ==
    /\ mode \in {"sendRcv", "sendBulk"}
    /\ todo = 0
    /\ Flush(buffered, free)
    /\ mode' = IF mode = "sendRcv" THEN "rcv" ELSE "bulk"
    /\ UNCHANGED <<stage, startVars, want, burst, leaked, got, skipped, cardVars, todo>>

-----------------------------------------------------------------------------
(* Receiving                                                               *)

BurstLen == Min({Len(rxq), MaxPktBurst})
Burst == SubSeq(rxq, 1, BurstLen)
AfterBurst == SubSeq(rxq, BurstLen + 1, Len(rxq))
Mine(p) == p # 0
MineIn(s) == {i \in DOMAIN s : Mine(s[i])}

\* One burst of dpdk_client_rcv: it returns with the first packet for this
\* port and forgets the rest of the burst.
dpdk_client_rcv ==
    /\ mode = "rcv"
    /\ want > 0
    /\ rxq # <<>>
    /\ rxq' = AfterBurst
    /\ IF MineIn(Burst) = {}
       THEN free' = free + BurstLen /\ UNCHANGED <<want, got, leaked, skipped>>
       ELSE \E k \in MineIn(Burst) :
              /\ \A i \in MineIn(Burst) : k <= i
              /\ got' = Append(got, Burst[k])
              /\ want' = want - 1
              /\ free' = free + k
              /\ leaked' = leaked + BurstLen - k
              /\ skipped' = (skipped \/ MineIn(Burst) # {k})
    /\ UNCHANGED <<stage, startVars, mode, owed, burst, arrived, foreign, noRoom, sendVars>>

\* Mutant: a burst counts as one reply.
CountBursts ==
    /\ mode = "bulk"
    /\ want # 0
    /\ rxq # <<>>
    /\ rxq' = AfterBurst
    /\ got' = got \o SelectSeq(Burst, Mine)
    /\ want' = IF MineIn(Burst) = {} THEN want ELSE want - 1
    /\ free' = free + BurstLen
    /\ UNCHANGED <<stage, startVars, mode, owed, burst, leaked, skipped, arrived, foreign, noRoom, sendVars>>

\* One burst of write_dpdk_packets.
write_dpdk_packets ==
    /\ mode = "bulk"
    /\ want # 0
    /\ rxq # <<>>
    /\ rxq' = AfterBurst
    /\ got' = got \o SelectSeq(Burst, Mine)
    /\ want' = want - Len(SelectSeq(Burst, Mine))
    /\ free' = free + BurstLen
    /\ UNCHANGED <<stage, startVars, mode, owed, burst, leaked, skipped, arrived, foreign, noRoom, sendVars>>

Return ==
    /\ mode \in {"rcv", "bulk"}
    /\ want = 0
    /\ mode' = "idle"
    /\ UNCHANGED <<stage, startVars, want, owed, free, burst, leaked, got, skipped, cardVars, sendVars>>

\* Mutant: only full bursts are taken.
RxFullBurst ==
    /\ mode = "poll"
    /\ Len(rxq) >= MaxPktBurst
    /\ burst' = Burst
    /\ rxq' = AfterBurst
    /\ mode' = "burst"
    /\ UNCHANGED <<stage, startVars, want, owed, free, leaked, got, skipped, arrived, foreign, noRoom, sendVars>>

\* Mutant: the burst is taken from the other end of the queue.
RxBurstLast ==
    /\ mode = "poll"
    /\ rxq # <<>>
    /\ burst' = <<Last(rxq)>>
    /\ rxq' = Front(rxq)
    /\ mode' = "burst"
    /\ UNCHANGED <<stage, startVars, want, owed, free, leaked, got, skipped, arrived, foreign, noRoom, sendVars>>

\* rcv_loop takes a burst ...
RxBurst ==
    /\ mode = "poll"
    /\ rxq # <<>>
    /\ burst' = Burst
    /\ rxq' = AfterBurst
    /\ mode' = "burst"
    /\ UNCHANGED <<stage, startVars, want, owed, free, leaked, got, skipped, arrived, foreign, noRoom, sendVars>>

\* ... and looks at its packets one by one: a request is processed, with a
\* reply (dpdk_send) or, for most packets of a bulk write, without, and its
\* mbuf is freed.
rcv_loop(reply) ==
    /\ mode = "burst"
    /\ burst # <<>>
    /\ got' = IF Mine(Head(burst)) THEN Append(got, Head(burst)) ELSE got
    /\ IF Mine(Head(burst)) /\ reply
       THEN IF CanAssemble
            THEN Flush(1, free) /\ burst' = Tail(burst) /\ mode' = mode
            ELSE mode' = "exit" /\ UNCHANGED <<owed, free, burst, buffered, intx, unsent>>
       ELSE /\ free' = free + 1
            /\ burst' = Tail(burst)
            /\ UNCHANGED <<mode, owed, buffered, intx, unsent>>
    /\ UNCHANGED <<stage, startVars, want, leaked, skipped, cardVars, todo>>

EndBurst ==
    /\ mode = "burst"
    /\ burst = <<>>
    /\ mode' = "poll"
    /\ UNCHANGED <<stage, startVars, want, owed, free, burst, leaked, got, skipped, cardVars, sendVars>>
-----------------------------------------------------------------------------
Startup ==
    \/ config_ports \/ init_ports
    \/ (\E up \in BOOLEAN : check_all_ports_link_status(up))

DpdkThread ==
    \/ dpdk_batched_send \/ EndSend
    \/ dpdk_client_rcv \/ write_dpdk_packets \/ Return
    \/ RxBurst \/ (\E reply \in BOOLEAN : rcv_loop(reply)) \/ EndBurst

DpdkNext ==
    \/ rte_eal_init \/ Startup \/ Launch
    \/ PacketArrives \/ ArriveForeign \/ CardSends
    \/ (\E n \in 1 .. BatchMax, how \in {"rcv", "bulk"} : Call(n, how))
    \/ DpdkThread

\* The thread keeps running, the card keeps sending and the replies come.
DpdkFairness ==
    /\ WF_dpdkVars(Startup)
    /\ WF_dpdkVars(DpdkThread)
    /\ WF_dpdkVars(CardSends)
    /\ WF_dpdkVars(~Server /\ PacketArrives)

DpdkSpec == DpdkInit /\ [][DpdkNext]_dpdkVars /\ DpdkFairness

-----------------------------------------------------------------------------
(* Properties                                                              *)

\* Types: the queues stay within their descriptors and tx_buffer within a
\* burst.
DpdkTypeOK ==
    /\ stage \in {"off", "config", "pool", "link", "ready", "exit"}
    /\ mode \in {"none", "idle", "sendRcv", "sendBulk", "rcv", "bulk", "poll", "burst", "exit"}
    /\ rx_port_list \in [0 .. MaxLcore - 1 -> Seq(Nat)]
    /\ link \in [count : 0 .. MaxCheckTime + 1, print_flag : BOOLEAN]
    /\ {want, todo, owed} \subseteq 0 .. BatchMax
    /\ {free, intx, leaked} \subseteq 0 .. Pool
    /\ buffered \in 0 .. MaxPktBurst - 1
    /\ Len(rxq) <= RxDescs
    /\ {reported, noRoom, unsent, skipped} \subseteq BOOLEAN

\* Every mbuf is in the pool, in a queue, in the burst being processed or in
\* tx_buffer; only dpdk_client_rcv, which forgets the rest of its burst
\* (dpdk_client.c:39), ever loses one.
MbufsAccountedFor ==
    /\ free + Len(rxq) + Len(burst) + buffered + intx + leaked = Pool
    /\ Server => leaked = 0

\* Packets are processed in the order in which they arrived, none twice; when
\* none was dropped for want of a descriptor or behind another one in its
\* burst, none is missing.
PacketsInOrder ==
    /\ DpdkTypeOK
    /\ \A i, j \in DOMAIN got : i < j => got[i] < got[j]
    /\ ~noRoom /\ ~skipped => \A i \in DOMAIN got : got[i] = i

\* Once started, the program ends or comes up, however long the links take,
\* which have then been reported.  It comes up only on a card with exactly one
\* port, which the one core of "-l 0" polls: config_ports gives each core one
\* port and ends the program when it runs out of cores
\* (dpdk_common.c:193-199).
UpOnOnePort ==
    /\ stage = "ready" /\ nb_ports = 1 /\ reported
    /\ \A c \in DOMAIN rx_port_list :
          rx_port_list[c] = IF c \in EnabledLcores THEN <<0>> ELSE <<>>
StartupEnds == (stage = "config") ~> (stage = "exit" \/ UpOnOnePort)

\* A call returns, unless a packet was not sent or was dropped by the card, a
\* reply was skipped in its burst, or the pool is exhausted.
DpdkCallReturns ==
    (mode \in {"rcv", "bulk"}) ~> (mode \in {"idle", "exit"} \/ noRoom \/ unsent \/ skipped)

\* Every request the card has received is processed, or the program has ended.
RequestsProcessed ==
    \A n \in 1 .. MaxPackets :
        (Server /\ arrived >= n) ~> (Len(got) >= n \/ noRoom \/ mode = "exit")

\* batch_write waits for one reply from each server (client_lib.c:224-229);
\* when all of them come, it returns.
BatchWriteReturns ==
    (mode = "rcv") ~> (mode \in {"idle", "exit"} \/ noRoom \/ unsent)
=============================================================================
