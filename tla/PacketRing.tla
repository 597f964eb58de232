----------------------------- MODULE PacketRing -----------------------------
(***************************************************************************)
(* The raw socket backend (lib/raw_backend): a thread shares a receive and *)
(* a transmit ring of frames with the kernel (PACKET_MMAP).                *)
(*                                                                         *)
(* The kernel fills receive frames in order and the thread empties them in *)
(* order, tpacket_i; tp_status says whose turn it is.  A packet that finds *)
(* no free frame is dropped, and from then on the kernel marks frames      *)
(* LOSING until somebody reads the statistics, which nobody does.  The     *)
(* server's loop and the client's two receive functions differ in when     *)
(* they give a frame back.  On the transmit side the thread fills frames   *)
(* in order, ring_offset, and asks the kernel to send; the network card    *)
(* reads the frame when its turn comes.                                    *)
(*                                                                         *)
(* Packets are numbered in the order of arrival, and of sending.           *)
(***************************************************************************)
EXTENDS Naturals, Sequences

CONSTANTS
    RxFrames,     \* tp_frame_nr of the receive ring
    TxFrames,     \* C_RING_FRAMES
    BatchSize,    \* BATCH_SIZE of client_lib.c
    MaxArrivals,  \* bound: packets that arrive
    MaxSends      \* bound: packets the thread sends

ASSUME PacketRingAssumption ==
    /\ {RxFrames, TxFrames, BatchSize} \subseteq Nat \ {0}
    /\ {MaxArrivals, MaxSends} \subseteq Nat

VARIABLES
    pc,           \* where the thread is
    server,       \* the thread runs raw_rcv_loop
    rxStatus,     \* tp_status of the receive frames
    rxFrame,      \* the packet in each of them
    rxHead,       \* the frame the kernel fills next
    tpacket_i,    \* the frame the thread looks at next
    drops,        \* the kernel has dropped a packet
    taken,        \* handle_packet: the packet whose sender was copied, and the frame
    arrivals,     \* packets that have arrived
    handled,      \* <<sender's packet, packet>> of each packet handled
    full,         \* every receive frame has been in use at once
    txStatus, txFrame,
    txHead,       \* the frame the kernel looks at in sendto
    ring_offset,  \* the frame send_mmap fills next
    inflight,     \* frames handed to the network card
    batch,        \* packets left in cooked_batched_send, or to be received
    queued,       \* packets put into the transmit ring
    sent,         \* packets the network card has read from it
    overrun       \* send_mmap has filled a frame that was still in use

rxVars == <<rxStatus, rxFrame, rxHead, tpacket_i, drops, taken, arrivals, handled, full>>
txVars == <<txStatus, txFrame, txHead, ring_offset, inflight, queued, sent, overrun>>
rawVars == <<pc, server, batch, rxVars, txVars>>

RxFrame == 0 .. RxFrames - 1
TxFrame == 0 .. TxFrames - 1

-----------------------------------------------------------------------------
(* Starting                                                                *)

\* setup_packet_mmap: every frame belongs to the kernel.
setup_packet_mmap ==
    /\ rxStatus = [f \in RxFrame |-> "kernel"]
    /\ rxFrame = [f \in RxFrame |-> 0]
    /\ rxHead = 0
    /\ tpacket_i = 0

init_packetsock_ring ==
    /\ txStatus = [f \in TxFrame |-> "available"]
    /\ txFrame = [f \in TxFrame |-> 0]
    /\ txHead = 0
    /\ ring_offset = 0

RawInit ==
    /\ pc = "off"
    /\ server = FALSE
    /\ setup_packet_mmap
    /\ init_packetsock_ring
    /\ drops = FALSE
    /\ full = FALSE
    /\ overrun = FALSE
    /\ taken = <<0, 0>>
    /\ arrivals = 0
    /\ queued = 0
    /\ batch = 0
    /\ handled = <<>>
    /\ sent = <<>>
    /\ inflight = <<>>

init_sockets ==
    /\ pc = "off"
    /\ pc' = "idle"
    /\ UNCHANGED <<server, batch, rxVars, txVars>>

launch_server_loop ==
    /\ pc = "off"
    /\ pc' = "poll"
    /\ server' = TRUE
    /\ UNCHANGED <<batch, rxVars, txVars>>

-----------------------------------------------------------------------------
(* The kernel and the network card                                         *)

Full == \A f \in RxFrame : rxStatus[f] # "kernel"

\* A packet that passes the filter.
Arrive ==
    /\ pc # "off"
    /\ arrivals < MaxArrivals
    /\ arrivals' = arrivals + 1
    /\ IF rxStatus[rxHead] = "kernel"
       THEN /\ rxStatus' = [rxStatus EXCEPT ![rxHead] = IF drops THEN "losing" ELSE "user"]
            /\ rxFrame' = [rxFrame EXCEPT ![rxHead] = arrivals + 1]
            /\ rxHead' = (rxHead + 1) % RxFrames
            /\ full' = (full \/ Full')
            /\ drops' = drops
       ELSE /\ drops' = TRUE
            /\ UNCHANGED <<rxStatus, rxFrame, rxHead, full>>
    /\ UNCHANGED <<pc, server, batch, tpacket_i, taken, handled, txVars>>

\* The card reads the frame only now, and gives it back.
Transmit ==
    /\ inflight # <<>>
    /\ sent' = Append(sent, txFrame[Head(inflight)])
    /\ txStatus' = [txStatus EXCEPT ![Head(inflight)] = "available"]
    /\ inflight' = Tail(inflight)
    /\ UNCHANGED <<pc, server, batch, rxVars, txFrame, txHead, ring_offset, queued, overrun>>

-----------------------------------------------------------------------------
(* Sending                                                                 *)

\* Mutant: the offset wraps one frame early.
SendMmapWrapsEarly ==
    /\ overrun' = (overrun \/ txStatus[ring_offset] # "available")
    /\ txFrame' = [txFrame EXCEPT ![ring_offset] = queued + 1]
    /\ txStatus' = [txStatus EXCEPT ![ring_offset] = "request"]
    /\ ring_offset' = (ring_offset + 1) % (TxFrames - 1)
    /\ queued' = queued + 1
    /\ UNCHANGED <<txHead, inflight, sent>>

\* send_mmap takes the next frame without looking at its status.
send_mmap ==
    /\ overrun' = (overrun \/ txStatus[ring_offset] # "available")
    /\ txFrame' = [txFrame EXCEPT ![ring_offset] = queued + 1]
    /\ txStatus' = [txStatus EXCEPT ![ring_offset] = "request"]
    /\ ring_offset' = (ring_offset + 1) % TxFrames
    /\ queued' = queued + 1
    /\ UNCHANGED <<txHead, inflight, sent>>

\* cooked_batched_send for n packets of a batch, all of which are answered.
StartBatch(n) ==
    /\ pc = "idle"
    /\ queued + n <= MaxSends
    /\ batch' = n
    /\ pc' = "batch"
    /\ UNCHANGED <<server, rxVars, txVars>>

\* One packet of the batch.  (i >= the ring's size, when the loop would also
\* flush, cannot be: a batch is smaller than the ring.)
cooked_batched_send ==
    /\ pc = "batch"
    /\ batch > 0
    /\ send_mmap
    /\ batch' = batch - 1
    /\ UNCHANGED <<pc, server, rxVars>>


FlushBatch ==
    /\ pc = "batch"
    /\ batch = 0
    /\ pc' = "flush"
    /\ UNCHANGED <<server, batch, rxVars, txVars>>

\* sendto hands frames to the card until it finds one without a request; it
\* may fail on the way, and is then called again.
flush_buffer ==
    /\ pc = "flush"
    /\ txStatus[txHead] = "request"
    /\ txStatus' = [txStatus EXCEPT ![txHead] = "sending"]
    /\ inflight' = Append(inflight, txHead)
    /\ txHead' = (txHead + 1) % TxFrames
    /\ UNCHANGED <<pc, server, batch, rxVars, txFrame, ring_offset, queued, sent, overrun>>

\* Mutant: the server loop ends with the first reply.
FlushDoneIdle ==
    /\ pc = "flush"
    /\ txStatus[txHead] # "request"
    /\ pc' = "idle"
    /\ UNCHANGED <<server, batch, rxVars, txVars>>


FlushDone ==
    /\ pc = "flush"
    /\ txStatus[txHead] # "request"
    /\ pc' = IF server THEN "poll" ELSE "idle"
    /\ UNCHANGED <<server, batch, rxVars, txVars>>

-----------------------------------------------------------------------------
(* Receiving                                                               *)


next_packet == tpacket_i' = (tpacket_i + 1) % RxFrames

\* A frame marked LOSING is passed over, and not given back.
SkipLosing ==
    /\ pc \in {"poll", "rcv"}
    /\ rxStatus[tpacket_i] = "losing"
    /\ next_packet
    /\ UNCHANGED <<pc, server, batch, rxStatus, rxFrame, rxHead, drops, taken, arrivals, handled, full, txVars>>

\* Mutant: the request is looked up after next_packet.
HandleNextFrame ==
    /\ pc = "poll"
    /\ rxStatus[tpacket_i] = "user"
    /\ taken' = <<rxFrame[tpacket_i], (tpacket_i + 1) % RxFrames>>
    /\ rxStatus' = [rxStatus EXCEPT ![tpacket_i] = "kernel"]
    /\ next_packet
    /\ pc' = "process"
    /\ UNCHANGED <<server, batch, rxFrame, rxHead, drops, arrivals, handled, full, txVars>>

\* handle_packet up to process_request: the sender is copied, the frame goes
\* back to the kernel, the request stays in it.
handle_packet ==
    /\ pc = "poll"
    /\ rxStatus[tpacket_i] = "user"
    /\ taken' = <<rxFrame[tpacket_i], tpacket_i>>
    /\ rxStatus' = [rxStatus EXCEPT ![tpacket_i] = "kernel"]
    /\ next_packet
    /\ pc' = "process"
    /\ UNCHANGED <<server, batch, rxFrame, rxHead, drops, arrivals, handled, full, txVars>>

\* process_request reads the request from the frame, and in most cases
\* sends a reply (a bulk write is answered once for many packets).
process_request(reply) ==
    /\ pc = "process"
    /\ handled' = Append(handled, <<taken[1], rxFrame[taken[2]]>>)
    /\ taken' = <<0, 0>>
    /\ IF reply /\ queued < MaxSends
       THEN send_mmap /\ pc' = "flush"
       ELSE pc' = "poll" /\ UNCHANGED txVars
    /\ UNCHANGED <<server, batch, rxStatus, rxFrame, rxHead, tpacket_i, drops, arrivals, full>>

\* The client asks for n packets: RCV, or RCV_BULK.
StartRcv(n) ==
    /\ pc = "idle"
    /\ batch' = n
    /\ pc' = "rcv"
    /\ UNCHANGED <<server, rxVars, txVars>>

\* One round of write_packets or simple_epoll_rcv that finds a packet: it is
\* copied, then the frame is given back.
write_packets ==
    /\ pc = "rcv"
    /\ batch > 0
    /\ rxStatus[tpacket_i] = "user"
    /\ handled' = Append(handled, <<rxFrame[tpacket_i], rxFrame[tpacket_i]>>)
    /\ rxStatus' = [rxStatus EXCEPT ![tpacket_i] = "kernel"]
    /\ next_packet
    /\ batch' = batch - 1
    /\ UNCHANGED <<pc, server, rxFrame, rxHead, drops, taken, arrivals, full, txVars>>

RcvDone ==
    /\ pc = "rcv"
    /\ batch = 0
    /\ pc' = "idle"
    /\ UNCHANGED <<server, batch, rxVars, txVars>>

-----------------------------------------------------------------------------
Thread ==
    \/ cooked_batched_send \/ FlushBatch \/ flush_buffer \/ FlushDone
    \/ SkipLosing \/ handle_packet \/ (\E reply \in BOOLEAN : process_request(reply))
    \/ write_packets \/ RcvDone

RawNext ==
    \/ init_sockets \/ launch_server_loop
    \/ Arrive \/ Transmit
    \/ \E n \in 1 .. BatchSize : StartBatch(n) \/ StartRcv(n)
    \/ Thread

\* The thread keeps running and the card keeps sending.
RawFairness == WF_rawVars(Thread) /\ WF_rawVars(Transmit)

-----------------------------------------------------------------------------
(* Properties                                                              *)

\* Types: the ring indices stay within the rings and tp_status is one of the
\* values that kernel and thread write.
RawTypeOK ==
    /\ pc \in {"off", "idle", "batch", "flush", "rcv", "poll", "process"}
    /\ {server, drops, full, overrun} \subseteq BOOLEAN
    /\ rxStatus \in [RxFrame -> {"kernel", "user", "losing"}]
    /\ rxFrame \in [RxFrame -> 0 .. MaxArrivals]
    /\ {rxHead, tpacket_i} \subseteq RxFrame
    /\ taken \in (0 .. MaxArrivals) \X RxFrame
    /\ handled \in Seq((1 .. MaxArrivals) \X (1 .. MaxArrivals))
    /\ txStatus \in [TxFrame -> {"available", "request", "sending"}]
    /\ txFrame \in [TxFrame -> 0 .. MaxSends]
    /\ {txHead, ring_offset} \subseteq TxFrame
    /\ inflight \in Seq(TxFrame)
    /\ sent \in Seq(1 .. MaxSends)
    /\ {arrivals, queued, batch} \subseteq Nat

\* The packets handled are the first ones that arrived, in order and none
\* twice or left out; in particular nothing is handled that arrived after a
\* drop.  The client always sees the packet itself.  The server, which gives
\* the frame back before it reads the request (udp_raw_server.c:52-54), sees
\* a later packet in its place only if all frames were in use.
PacketsHandledAsArrived ==
    /\ RawTypeOK
    /\ \A i \in DOMAIN handled :
          /\ handled[i][1] = i
          /\ handled[i][2] # i => server /\ full /\ handled[i][2] > i

\* The card sends what was put into the ring, in that order, as long as
\* send_mmap never ran into a frame that was still in use (it does not look,
\* udp_raw_send.c:172-190), which takes more packets than the ring holds.
PacketsSentAsQueued ==
    /\ ~overrun => \A i \in DOMAIN sent : sent[i] = i
    /\ overrun => queued > TxFrames

\* Every packet that arrives at a server is handled, unless one was dropped:
\* then the frames marked LOSING are lost one by one (udp_raw_server.c:72).
\* Every packet put into the ring is sent, unless send_mmap overran: the
\* card's completion of the frame's former packet then cancels the request.
EveryPacketPasses ==
    /\ \A n \in 1 .. MaxArrivals :
          (server /\ arrivals >= n) ~> (Len(handled) >= n \/ drops)
    /\ \A n \in 1 .. MaxSends : (queued >= n) ~> (Len(sent) >= n \/ overrun)

=============================================================================
