----------------------------- MODULE DpdkProofs -----------------------------
(***************************************************************************)
(* The packet buffers of the DPDK backend, for any size of pool, queues,   *)
(* bursts and batches: none is lost except behind the first packet of a    *)
(* client's burst.                                                         *)
(***************************************************************************)
EXTENDS Dpdk, SequenceTheorems, TLAPS

\* The counters and queues that the account adds up.  The card's transmit
\* queue never holds more than it has descriptors, so that a flush never
\* sends a negative number of packets.
CountsOK ==
    /\ {free, buffered, leaked, arrived} \subseteq Nat
    /\ intx \in 0 .. TxDescs
    /\ {rxq, burst} \subseteq Seq(Nat)

\* Nothing is lost before the program knows whether it is a server, and
\* tx_buffer is in use only while a batch is put together: dpdk_send, which
\* flushes it, finds no older packet in it.  Likewise the server takes a new
\* burst only when it is done with the last one.
QuietOutsideCalls ==
    /\ mode = "none" => leaked = 0
    /\ mode \notin {"sendRcv", "sendBulk", "exit"} => buffered = 0
    /\ mode \notin {"burst", "exit"} => burst = <<>>

MbufInv == CountsOK /\ QuietOutsideCalls /\ MbufsAccountedFor

-----------------------------------------------------------------------------
\* The shorter of two lengths.
LEMMA MinOfTwo ==
  ASSUME NEW a \in Int, NEW b \in Int
  PROVE  /\ Min({a, b}) \in {a, b}
         /\ Min({a, b}) <= a /\ Min({a, b}) <= b
<1>1. \E x \in {a, b} : \A y \in {a, b} : x =< y
  <2>1. CASE a <= b
    BY <2>1
  <2>2. CASE ~(a <= b)
    BY <2>2
  <2> QED
    BY <2>1, <2>2
<1> QED
  BY <1>1 DEF Min

\* rte_eth_rx_burst takes the front of the receive queue: what it takes and
\* what it leaves are together what was there.
LEMMA BurstSplitsQueue ==
  ASSUME rxq \in Seq(Nat)
  PROVE  /\ Burst \in Seq(Nat) /\ AfterBurst \in Seq(Nat)
         /\ BurstLen \in Nat
         /\ Len(Burst) = BurstLen
         /\ Len(AfterBurst) = Len(rxq) - BurstLen
<1>1. MaxPktBurst \in Nat
  BY DpdkAssumption
<1>2. Len(rxq) \in Nat
  BY LenProperties
<1>3. BurstLen \in Nat /\ BurstLen <= Len(rxq)
  <2> Len(rxq) \in Int /\ MaxPktBurst \in Int
    BY <1>1, <1>2
  <2>1. BurstLen \in {Len(rxq), MaxPktBurst} /\ BurstLen <= Len(rxq)
    BY MinOfTwo, Zenon DEF BurstLen
  <2> QED
    BY <1>1, <1>2, <2>1
<1>4. Burst \in Seq(Nat) /\ Len(Burst) = BurstLen
  BY <1>2, <1>3, SubSeqProperties DEF Burst
<1>5. AfterBurst \in Seq(Nat) /\ Len(AfterBurst) = Len(rxq) - BurstLen
  BY <1>2, <1>3, SubSeqProperties DEF AfterBurst
<1> QED
  BY <1>2, <1>3, <1>4, <1>5

\* rte_eth_tx_buffer_flush moves its n buffers to the card or back to the pool.
LEMMA FlushKeepsCount ==
  ASSUME NEW n \in Nat, NEW avail \in Nat, intx \in 0 .. TxDescs, Flush(n, avail)
  PROVE  /\ intx' \in 0 .. TxDescs /\ free' \in Nat /\ buffered' = 0
         /\ \E sent \in Nat : intx' = intx + sent /\ free' = avail + n - sent
<1> DEFINE sent == Min({n, TxDescs - intx})
<1>1. TxDescs \in Nat
  BY DpdkAssumption
<1>2. sent \in {n, TxDescs - intx} /\ sent <= n /\ sent <= TxDescs - intx
  <2> n \in Int /\ TxDescs - intx \in Int
    BY <1>1
  <2> QED
    BY MinOfTwo, Zenon
<1>3. intx' = intx + sent /\ free' = avail + n - sent /\ buffered' = 0
  BY DEF Flush
<1> HIDE DEF sent
<1>4. sent \in Nat
  BY <1>1, <1>2
<1> QED
  BY <1>1, <1>2, <1>3, <1>4

\* The card takes an mbuf of the pool for a packet, or drops it.
LEMMA ReceiveKeepsCount ==
  ASSUME NEW p \in Nat, CountsOK, Receive(p)
  PROVE  free' \in Nat /\ rxq' \in Seq(Nat) /\ free' = free + Len(rxq) - Len(rxq')
<1>1. Len(rxq) \in Nat /\ free \in Nat /\ rxq \in Seq(Nat)
  BY LenProperties DEF CountsOK
<1>2. CASE Len(rxq) < RxDescs /\ free > 0
  <2>1. rxq' = Append(rxq, p) /\ free' = free - 1
    BY <1>2 DEF Receive
  <2>2. Append(rxq, p) \in Seq(Nat) /\ Len(Append(rxq, p)) = Len(rxq) + 1
    BY <1>1, AppendProperties
  <2> QED
    BY <1>1, <1>2, <2>1, <2>2
<1>3. CASE ~(Len(rxq) < RxDescs /\ free > 0)
  BY <1>1, <1>3 DEF Receive
<1> QED
  BY <1>2, <1>3
-----------------------------------------------------------------------------
\* At the start all mbufs are in the pool.
LEMMA MbufInit == DpdkInit => MbufInv
<1>1. Pool \in Nat /\ TxDescs \in Nat
  BY DpdkAssumption
<1>2. Len(<<>>) = 0 /\ <<>> \in Seq(Nat)
  BY EmptySeq
<1> QED
  BY <1>1, <1>2 DEF DpdkInit, MbufInv, CountsOK, QuietOutsideCalls, MbufsAccountedFor, Server

\* The invariant spelled out for the state after a step.
LEMMA AccountKept ==
  ASSUME free' \in Nat, buffered' \in Nat, leaked' \in Nat, arrived' \in Nat,
         intx' \in 0 .. TxDescs, rxq' \in Seq(Nat), burst' \in Seq(Nat),
         free' + Len(rxq') + Len(burst') + buffered' + intx' + leaked' = Pool,
         mode' \in {"none", "poll", "burst"} => leaked' = 0,
         mode' \notin {"sendRcv", "sendBulk", "exit"} => buffered' = 0,
         mode' \notin {"burst", "exit"} => burst' = <<>>
  PROVE  MbufInv'
<1>1. CountsOK'
  BY DEF CountsOK
<1>2. QuietOutsideCalls'
  BY DEF QuietOutsideCalls
<1>3. MbufsAccountedFor'
  BY DEF MbufsAccountedFor, Server
<1> QED
  BY <1>1, <1>2, <1>3 DEF MbufInv

\* Steps that touch no buffer keep the account, as long as the program does
\* not become a server after it has lost one.
LEMMA NoBufferStep ==
  ASSUME MbufInv,
         UNCHANGED <<free, rxq, burst, buffered, intx, leaked, arrived>>,
         Server' => Server \/ mode = "none",
         mode' = "none" => mode = "none",
         mode' \notin {"sendRcv", "sendBulk", "exit"} =>
             mode \notin {"sendRcv", "sendBulk", "exit"} \/ buffered = 0,
         mode' \notin {"burst", "exit"} => mode \notin {"burst", "exit"} \/ burst = <<>>
  PROVE  MbufInv'
<1>1. CountsOK'
  BY DEF MbufInv, CountsOK
<1>2. QuietOutsideCalls'
  BY DEF MbufInv, QuietOutsideCalls
<1>3. MbufsAccountedFor'
  BY DEF MbufInv, MbufsAccountedFor, QuietOutsideCalls
<1> QED
  BY <1>1, <1>2, <1>3 DEF MbufInv

\* Every action keeps the account of the mbufs.
LEMMA MbufStep == MbufInv /\ [DpdkNext]_dpdkVars => MbufInv'
<1> SUFFICES ASSUME MbufInv, [DpdkNext]_dpdkVars PROVE MbufInv'
  OBVIOUS
<1>t. /\ free \in Nat /\ buffered \in Nat /\ leaked \in Nat /\ arrived \in Nat
      /\ intx \in 0 .. TxDescs /\ rxq \in Seq(Nat) /\ burst \in Seq(Nat)
      /\ TxDescs \in Nat /\ MaxPktBurst \in Nat \ {0}
  BY DpdkAssumption DEF MbufInv, CountsOK
<1>l. Len(rxq) \in Nat /\ Len(burst) \in Nat
  BY <1>t, LenProperties
<1>s. Pool = free + Len(rxq) + Len(burst) + buffered + intx + leaked
  BY DEF MbufInv, MbufsAccountedFor
<1>c. /\ CountsOK /\ (mode \in {"none", "poll", "burst"} => leaked = 0)
      /\ (mode \notin {"sendRcv", "sendBulk", "exit"} => buffered = 0)
      /\ (mode \notin {"burst", "exit"} => burst = <<>>)
  BY DEF MbufInv, QuietOutsideCalls, MbufsAccountedFor, Server
<1>n. /\ free \in Nat /\ buffered \in Nat /\ leaked \in Nat /\ intx \in Nat
      /\ Len(rxq) \in Nat /\ Len(burst) \in Nat
  BY <1>t, <1>l
<1>1. CASE rte_eal_init
  BY <1>1, NoBufferStep DEF rte_eal_init, runVars, cardVars, sendVars, Server
<1>2. CASE Startup
  BY <1>2, NoBufferStep DEF Startup, config_ports, init_ports, check_all_ports_link_status,
     runVars, cardVars, sendVars, Server
<1>3. CASE Launch
  BY <1>3, NoBufferStep DEF Launch, cardVars, sendVars, Server
<1>4. CASE PacketArrives
  <2>1. Receive(arrived + 1) /\ arrived' = arrived + 1
        /\ UNCHANGED <<mode, burst, leaked, buffered, intx>>
    BY <1>4 DEF PacketArrives, sendVars
  <2>2. free' \in Nat /\ rxq' \in Seq(Nat) /\ free' = free + Len(rxq) - Len(rxq')
    BY <1>t, <1>c, <2>1, ReceiveKeepsCount
  <2>3. Len(rxq') \in Nat
    BY <2>2, LenProperties
  <2> QED
    BY <1>t, <1>l, <1>s, <1>c, <2>1, <2>2, <2>3, AccountKept
<1>5. CASE ArriveForeign
  <2>1. Receive(0) /\ UNCHANGED <<mode, burst, leaked, buffered, intx, arrived>>
    BY <1>5 DEF ArriveForeign, sendVars
  <2>2. free' \in Nat /\ rxq' \in Seq(Nat) /\ free' = free + Len(rxq) - Len(rxq')
    BY <1>c, <2>1, ReceiveKeepsCount
  <2>3. Len(rxq') \in Nat
    BY <2>2, LenProperties
  <2> QED
    BY <1>t, <1>l, <1>s, <1>c, <2>1, <2>2, <2>3, AccountKept
<1>6. CASE CardSends
  BY <1>6, <1>t, <1>l, <1>s, <1>c, AccountKept DEF CardSends, cardVars
<1>7. CASE \E n \in 1 .. BatchMax, how \in {"rcv", "bulk"} : Call(n, how)
  BY <1>7, NoBufferStep DEF Call, cardVars, Server

<1>8. CASE dpdk_batched_send
  <2>0. /\ mode \in {"sendRcv", "sendBulk"} /\ mode' \in {"sendRcv", "sendBulk", "exit"}
        /\ UNCHANGED <<rxq, burst, leaked, arrived>>
    BY <1>8 DEF dpdk_batched_send, cardVars
  <2>1. CASE ~CanAssemble
    BY <1>8, <2>0, <2>1, NoBufferStep DEF dpdk_batched_send, sendVars, Server
  <2>2. CASE CanAssemble /\ buffered + 1 = MaxPktBurst
    <3>1. Flush(buffered + 1, free - 1) /\ free - 1 \in Nat /\ buffered + 1 \in Nat
      BY <1>8, <1>t, <2>2 DEF dpdk_batched_send, CanAssemble
    <3>2. /\ intx' \in 0 .. TxDescs /\ free' \in Nat /\ buffered' = 0
          /\ \E sent \in Nat : intx' = intx + sent /\ free' = (free - 1) + (buffered + 1) - sent
      BY <1>t, <3>1, FlushKeepsCount
    <3>3. PICK sent \in Nat : intx' = intx + sent /\ free' = (free - 1) + (buffered + 1) - sent
      BY <3>2
    <3>e. /\ Len(rxq') = Len(rxq) /\ Len(burst') = Len(burst) /\ buffered' = 0 /\ leaked' = leaked
          /\ intx' = intx + sent /\ free' = (free - 1) + (buffered + 1) - sent
      BY <2>0, <3>2, <3>3
    <3>a. free' + Len(rxq') + Len(burst') + buffered' + intx' + leaked' = Pool
      BY <1>n, <1>s, <3>e
    <3> QED
      BY <1>t, <1>c, <2>0, <3>2, <3>a, AccountKept
  <2>3. CASE CanAssemble /\ buffered + 1 # MaxPktBurst
    <3>1. buffered' = buffered + 1 /\ free' = free - 1 /\ free > 0 /\ intx' = intx
      BY <1>8, <2>3 DEF dpdk_batched_send, CanAssemble
    <3> QED
      BY <1>t, <1>l, <1>s, <1>c, <2>0, <3>1, AccountKept
  <2> QED
    BY <2>1, <2>2, <2>3
<1>9. CASE EndSend
  <2>1. /\ Flush(buffered, free) /\ mode \in {"sendRcv", "sendBulk"} /\ mode' \in {"rcv", "bulk"}
        /\ UNCHANGED <<rxq, burst, leaked, arrived>>
    BY <1>9 DEF EndSend, cardVars
  <2>2. /\ intx' \in 0 .. TxDescs /\ free' \in Nat /\ buffered' = 0
        /\ \E sent \in Nat : intx' = intx + sent /\ free' = free + buffered - sent
    BY <1>t, <2>1, FlushKeepsCount
  <2>3. PICK sent \in Nat : intx' = intx + sent /\ free' = free + buffered - sent
    BY <2>2
  <2>e. /\ Len(rxq') = Len(rxq) /\ Len(burst') = Len(burst) /\ buffered' = 0 /\ leaked' = leaked
        /\ intx' = intx + sent /\ free' = free + buffered - sent
    BY <2>1, <2>2, <2>3
  <2>a. free' + Len(rxq') + Len(burst') + buffered' + intx' + leaked' = Pool
    BY <1>n, <1>s, <2>e
  <2> QED
    BY <1>t, <1>c, <2>1, <2>2, <2>a, AccountKept
<1>10. CASE dpdk_client_rcv
  <2>1. /\ mode = "rcv" /\ mode' = "rcv" /\ rxq' = AfterBurst
        /\ UNCHANGED <<burst, buffered, intx, arrived>>
    BY <1>10 DEF dpdk_client_rcv, sendVars
  <2>2. /\ AfterBurst \in Seq(Nat) /\ BurstLen \in Nat /\ Burst \in Seq(Nat)
        /\ Len(Burst) = BurstLen /\ Len(AfterBurst) = Len(rxq) - BurstLen
    BY <1>t, BurstSplitsQueue
  <2>3. Len(AfterBurst) \in Nat
    BY <2>2, LenProperties
  <2>4. \E k \in 0 .. BurstLen : free' = free + k /\ leaked' = leaked + BurstLen - k
    <3>1. CASE MineIn(Burst) = {}
      <4>1. free' = free + BurstLen /\ leaked' = leaked
        BY <1>10, <3>1 DEF dpdk_client_rcv
      <4> QED
        BY <1>n, <2>2, <4>1
    <3>2. CASE MineIn(Burst) # {}
      <4>1. PICK k \in MineIn(Burst) : free' = free + k /\ leaked' = leaked + BurstLen - k
        BY <1>10, <3>2 DEF dpdk_client_rcv
      <4>2. k \in 1 .. BurstLen
        BY <2>2, LenProperties DEF MineIn
      <4> QED
        BY <4>1, <4>2
    <3> QED
      BY <3>1, <3>2
  <2>5. PICK k \in 0 .. BurstLen : free' = free + k /\ leaked' = leaked + BurstLen - k
    BY <2>4
  <2>6. free' \in Nat /\ leaked' \in Nat
    BY <1>n, <2>2, <2>5
  <2>e. /\ Len(rxq') = Len(rxq) - BurstLen /\ Len(burst') = Len(burst)
        /\ buffered' = buffered /\ intx' = intx
    BY <2>1, <2>2
  <2>a. free' + Len(rxq') + Len(burst') + buffered' + intx' + leaked' = Pool
    BY <1>n, <1>s, <2>2, <2>5, <2>e
  <2> QED
    BY <1>t, <1>c, <2>1, <2>2, <2>6, <2>a, AccountKept
<1>11. CASE write_dpdk_packets
  <2>1. /\ mode = "bulk" /\ mode' = "bulk" /\ rxq' = AfterBurst /\ free' = free + BurstLen
        /\ UNCHANGED <<burst, buffered, intx, leaked, arrived>>
    BY <1>11 DEF write_dpdk_packets, sendVars
  <2>2. AfterBurst \in Seq(Nat) /\ BurstLen \in Nat /\ Len(AfterBurst) = Len(rxq) - BurstLen
    BY <1>t, BurstSplitsQueue
  <2>3. Len(AfterBurst) \in Nat
    BY <2>2, LenProperties
  <2> QED
    BY <1>t, <1>l, <1>s, <1>c, <2>1, <2>2, <2>3, AccountKept
<1>12. CASE Return
  BY <1>12, NoBufferStep DEF Return, cardVars, sendVars, Server
<1>13. CASE RxBurst
  <2>1. /\ mode = "poll" /\ mode' = "burst" /\ rxq' = AfterBurst /\ burst' = Burst
        /\ UNCHANGED <<free, buffered, intx, leaked, arrived>>
    BY <1>13 DEF RxBurst, sendVars
  <2>2. /\ AfterBurst \in Seq(Nat) /\ Burst \in Seq(Nat) /\ BurstLen \in Nat
        /\ Len(Burst) = BurstLen /\ Len(AfterBurst) = Len(rxq) - BurstLen
    BY <1>t, BurstSplitsQueue
  <2>e. /\ BurstLen \in Nat /\ Len(rxq') = Len(rxq) - BurstLen /\ Len(burst') = BurstLen
        /\ Len(burst) = 0 /\ buffered' = buffered /\ intx' = intx /\ leaked' = leaked /\ free' = free
    BY <1>t, <1>l, <1>c, <2>1, <2>2, EmptySeq
  <2>a. free' + Len(rxq') + Len(burst') + buffered' + intx' + leaked' = Pool
    BY <1>n, <1>s, <2>e
  <2> QED
    BY <1>t, <1>c, <2>1, <2>2, <2>a, AccountKept
<1>14. ASSUME NEW reply \in BOOLEAN, rcv_loop(reply) PROVE MbufInv'
  <2>1. /\ mode = "burst" /\ burst # <<>> /\ UNCHANGED <<rxq, leaked, arrived>>
    BY <1>14 DEF rcv_loop, cardVars
  <2>2. Tail(burst) \in Seq(Nat) /\ Len(Tail(burst)) = Len(burst) - 1 /\ Len(burst) > 0
    BY <1>t, <1>l, <2>1, HeadTailProperties, EmptySeq
  <2>3. CASE Mine(Head(burst)) /\ reply /\ CanAssemble
    <3>1. Flush(1, free) /\ burst' = Tail(burst) /\ mode' = mode
      BY <1>14, <2>3 DEF rcv_loop
    <3>2. buffered = 0
      BY <1>c, <2>1
    <3>3. /\ intx' \in 0 .. TxDescs /\ free' \in Nat /\ buffered' = 0
          /\ \E sent \in Nat : intx' = intx + sent /\ free' = free + 1 - sent
      BY <1>t, <3>1, FlushKeepsCount
    <3>4. PICK sent \in Nat : intx' = intx + sent /\ free' = free + 1 - sent
      BY <3>3
    <3>e. /\ Len(rxq') = Len(rxq) /\ Len(burst') = Len(burst) - 1 /\ buffered = 0 /\ buffered' = 0
          /\ leaked' = leaked /\ intx' = intx + sent /\ free' = free + 1 - sent
      BY <2>1, <2>2, <3>1, <3>2, <3>3, <3>4
    <3>a. free' + Len(rxq') + Len(burst') + buffered' + intx' + leaked' = Pool
      BY <1>n, <1>s, <3>e
    <3> QED
      BY <1>t, <1>c, <2>1, <2>2, <3>1, <3>2, <3>3, <3>a, AccountKept
  <2>4. CASE Mine(Head(burst)) /\ reply /\ ~CanAssemble
    BY <1>14, <2>1, <2>4, NoBufferStep DEF rcv_loop, Server
  <2>5. CASE ~(Mine(Head(burst)) /\ reply)
    <3>1. free' = free + 1 /\ burst' = Tail(burst) /\ UNCHANGED <<mode, buffered, intx>>
      BY <1>14, <2>5 DEF rcv_loop
    <3> QED
      BY <1>t, <1>l, <1>s, <1>c, <2>1, <2>2, <3>1, AccountKept
  <2> QED
    BY <2>3, <2>4, <2>5
<1>15. CASE EndBurst
  BY <1>15, NoBufferStep DEF EndBurst, cardVars, sendVars, Server
<1>16. CASE UNCHANGED dpdkVars
  BY <1>16, NoBufferStep DEF dpdkVars, cardVars, sendVars, Server
<1> QED
  BY <1>1, <1>2, <1>3, <1>4, <1>5, <1>6, <1>7, <1>8, <1>9, <1>10, <1>11, <1>12, <1>13, <1>14,
     <1>15, <1>16 DEF DpdkNext, DpdkThread

\* No packet buffer of the pool is lost, whatever the sizes of pool, queues,
\* bursts and batches, except by dpdk_client_rcv; a server loses none at all.
THEOREM NoMbufLost == DpdkSpec => []MbufsAccountedFor
<1>1. DpdkInit => MbufInv
  BY MbufInit
<1>2. MbufInv /\ [DpdkNext]_dpdkVars => MbufInv'
  BY MbufStep
<1>3. MbufInv => MbufsAccountedFor
  BY DEF MbufInv
<1> QED
  BY <1>1, <1>2, <1>3, PTL DEF DpdkSpec
=============================================================================
