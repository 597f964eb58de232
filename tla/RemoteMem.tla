----------------------------- MODULE RemoteMem -----------------------------
(***************************************************************************)
(* The remote memory protocol: lib/client_lib.c on the clients,            *)
(* lib/server_lib.c on the servers, and the packets of lib/network.c       *)
(* between them.  A client sends a request, or a batch of them, and blocks *)
(* until as many packets have arrived as it expects; nothing identifies a  *)
(* reply, and nothing is sent again.                                       *)
(*                                                                         *)
(* A block (BLOCK_SIZE bytes) holds one value.  A pointer is an            *)
(* ip6_memaddr: subid, the server it is routed to, and paddr, the address  *)
(* on that server.                                                         *)
(***************************************************************************)
EXTENDS Naturals, SequencesExt

CONSTANTS Client, Server,
          NCells,      \* addresses of a server are 1 .. NCells; NULL is 0
          Value,       \* contents of a block; 0 is what calloc gives
          Free,        \* contents of a cell that is not allocated
          MaxPtrs,     \* pointers a client holds at most
          BatchSize,   \* BATCH_SIZE
          Calls,       \* the calls of client_lib that the clients make
          Faults       \* what the network does: subset of {"lose", "reorder"}

Cell == 1 .. NCells
Node == Client \cup Server
AllCalls == {"alloc", "allocBulk", "write", "read", "writeBulk", "readBulk", "free", "trim"}

ASSUME RemoteMemAssumption ==
    /\ {NCells, MaxPtrs, BatchSize} \subseteq Nat \ {0}
    /\ 0 \in Value /\ Free \notin Value /\ Client \cap Server = {}
    /\ Calls \subseteq AllCalls /\ Faults \subseteq {"lose", "reorder"}

VARIABLES
    mem,     \* server -> cell -> contents, Free if not allocated
    size,    \* server -> cell -> blocks of the allocation that starts there, or 0
    up,      \* server -> is it running
    chan,    \* <<from, to>> -> packets on their way
    pc,      \* client -> the call it is in, or "idle"
    held,    \* client -> the pointers it holds, in the order it got them
    args,    \* client -> what the call is about
    rest,    \* client -> batches that are still to be sent
    wait,    \* client -> packets it still waits for
    buffer   \* client -> rx_buf of a read: position -> contents

vars == <<mem, size, up, chan, pc, held, args, rest, wait, buffer>>

\* A pointer together with what its holder knows of it: the server that
\* allocated it, its place in the allocation, and what was last written.
Pointer == [subid: Node, paddr: 0 .. NCells, home: Server, off: Nat, len: Nat, val: Value]

Init ==
    /\ mem = [s \in Server |-> [a \in Cell |-> Free]]
    /\ size = [s \in Server |-> [a \in Cell |-> 0]]
    /\ up = [s \in Server |-> TRUE]
    /\ chan = [ft \in Node \X Node |-> <<>>]
    /\ pc = [c \in Client |-> "idle"]
    /\ held = [c \in Client |-> <<>>]
    /\ args = [c \in Client |-> <<>>]
    /\ rest = [c \in Client |-> <<>>]
    /\ wait = [c \in Client |-> 0]
    /\ buffer = [c \in Client |-> <<>>]
-----------------------------------------------------------------------------
(* Packets.  seq and total are the halves of args in a bulk write.         *)

Packet(cmd, paddr, data) ==
    [cmd |-> cmd, paddr |-> paddr, data |-> data, seq |-> 0, total |-> 0]

\* chan after client c has sent the packets, each to where it is routed;
\* one that is routed to no server is dropped.
Sent(c, routed) ==
    [ft \in Node \X Node |->
        IF ft[1] = c /\ ft[2] \in Server
        THEN chan[ft] \o LET mine == SelectSeq(routed, LAMBDA r : r.to = ft[2])
                         IN  [i \in 1 .. Len(mine) |-> mine[i].pkt]
        ELSE chan[ft]]

Request(c, to, pkt) == chan' = Sent(c, <<[to |-> to, pkt |-> pkt]>>)
-----------------------------------------------------------------------------
(* The client's calls.  target is the host the caller picked.              *)

\* The call is entered: it waits for n packets.
Enter(c, call, a, n) ==
    /\ pc[c] = "idle" /\ call \in Calls
    /\ pc' = [pc EXCEPT ![c] = call]
    /\ args' = [args EXCEPT ![c] = a]
    /\ wait' = [wait EXCEPT ![c] = n]

allocate_rmem(c, target) ==
    /\ Len(held[c]) < MaxPtrs
    /\ Enter(c, "alloc", 1, 1)
    /\ Request(c, target, Packet("alloc", 0, 0))
    /\ UNCHANGED <<mem, size, up, held, rest, buffer>>

allocate_bulk_rmem(c, target, n) ==
    /\ Len(held[c]) + n <= MaxPtrs
    /\ Enter(c, "allocBulk", n, 1)
    /\ Request(c, target, Packet("allocBulk", 0, n))
    /\ UNCHANGED <<mem, size, up, held, rest, buffer>>

write_rmem(c, i, v) ==
    /\ Enter(c, "write", <<[at |-> i, val |-> v]>>, 1)
    /\ Request(c, held[c][i].subid, Packet("write", held[c][i].paddr, v))
    /\ UNCHANGED <<mem, size, up, held, rest, buffer>>

read_rmem(c, i) ==
    /\ Enter(c, "read", <<[at |-> i, val |-> 0]>>, 1)
    /\ Request(c, held[c][i].subid, Packet("read", held[c][i].paddr, 0))
    /\ buffer' = [buffer EXCEPT ![c] = <<0>>]
    /\ UNCHANGED <<mem, size, up, held, rest>>

\* The caller frees the first pointer of an allocation and drops the others.
free_rmem(c, i) ==
    LET p == held[c][i]
    IN  /\ p.off = 0
        /\ Enter(c, "free", i, 1)
        /\ Request(c, p.subid, Packet("free", p.paddr, 0))
        /\ held' = [held EXCEPT ![c] = SubSeq(@, 1, i - 1) \o SubSeq(@, i + p.len, Len(@))]
        /\ UNCHANGED <<mem, size, up, rest, buffer>>

\* trim_bulk_rmem: n blocks from the pointer on are set to zero.
trim_bulk_rmem(c, i, n) ==
    LET p == held[c][i]
    IN  /\ p.off + n <= p.len
        /\ Enter(c, "trim", <<i, n>>, 1)
        /\ Request(c, p.subid, Packet("trim", p.paddr, n))
        /\ UNCHANGED <<mem, size, up, held, rest, buffer>>

\* write_bulk_rmem and read_bulk_rmem of k > 1 blocks: full batches, then the
\* incomplete one.
Batches(k) ==
    LET full == k \div BatchSize
        Nth(b) == [j \in 1 .. BatchSize |-> (b - 1) * BatchSize + j]
        last == [j \in 1 .. k % BatchSize |-> full * BatchSize + j]
    IN  [b \in 1 .. full |-> Nth(b)] \o (IF last = <<>> THEN <<>> ELSE <<last>>)

write_bulk_rmem(c, vals) ==
    /\ Enter(c, "writeBulk", [j \in 1 .. Len(vals) |-> [at |-> j, val |-> vals[j]]], 0)
    /\ rest' = [rest EXCEPT ![c] = Batches(Len(vals))]
    /\ UNCHANGED <<mem, size, up, chan, held, buffer>>

read_bulk_rmem(c, k) ==
    /\ Enter(c, "readBulk", [j \in 1 .. k |-> [at |-> j, val |-> 0]], 0)
    /\ rest' = [rest EXCEPT ![c] = Batches(k)]
    /\ buffer' = [buffer EXCEPT ![c] = [j \in 1 .. k |-> 0]]
    /\ UNCHANGED <<mem, size, up, chan, held>>

\* The pointers of a batch that are routed to one place, and the number of a
\* pointer among them: sub_ids[...] while the batch is put together.
SubIds(c, batch, subid) == {j \in DOMAIN batch : held[c][batch[j]].subid = subid}

\* Mutant: the blocks of a server are counted from 0.
RankFromZero(c, batch, j) ==
    Cardinality({k \in SubIds(c, batch, held[c][batch[j]].subid) : k < j})

Rank(c, batch, j) == Cardinality({k \in SubIds(c, batch, held[c][batch[j]].subid) : k <= j})

\* Mutant: one reply is expected, whatever the number of servers.
BatchWriteOneReply(c) ==
    LET batch == Head(rest[c])
        Ptr(j) == held[c][batch[j]]
        pkts == [j \in DOMAIN batch |->
                   [to |-> Ptr(j).subid,
                    pkt |-> [Packet("writeBulk", Ptr(j).paddr, args[c][batch[j]].val) EXCEPT
                               !.seq = Rank(c, batch, j),
                               !.total = Cardinality(SubIds(c, batch, Ptr(j).subid))]]]
    IN  /\ pc[c] = "writeBulk" /\ wait[c] = 0 /\ rest[c] # <<>>
        /\ chan' = Sent(c, pkts)
        /\ wait' = [wait EXCEPT ![c] = 1]
        /\ rest' = [rest EXCEPT ![c] = Tail(@)]
        /\ UNCHANGED <<mem, size, up, pc, held, args, buffer>>

\* batch_write: one packet per block, then one reply per server.
batch_write(c) ==
    LET batch == Head(rest[c])
        Ptr(j) == held[c][batch[j]]
        pkts == [j \in DOMAIN batch |->
                   [to |-> Ptr(j).subid,
                    pkt |-> [Packet("writeBulk", Ptr(j).paddr, args[c][batch[j]].val) EXCEPT
                               !.seq = Rank(c, batch, j),
                               !.total = Cardinality(SubIds(c, batch, Ptr(j).subid))]]]
    IN  /\ pc[c] = "writeBulk" /\ wait[c] = 0 /\ rest[c] # <<>>
        /\ chan' = Sent(c, pkts)
        /\ wait' = [wait EXCEPT ![c] = Cardinality({Ptr(j).subid : j \in DOMAIN batch})]
        /\ rest' = [rest EXCEPT ![c] = Tail(@)]
        /\ UNCHANGED <<mem, size, up, pc, held, args, buffer>>

\* batch_read: the payload says where in rx_buf the reply is to be put.
batch_read(c) ==
    LET batch == Head(rest[c])
        Ptr(j) == held[c][batch[j]]
        pkts == [j \in DOMAIN batch |->
                   [to |-> Ptr(j).subid, pkt |-> Packet("readBulk", Ptr(j).paddr, batch[j])]]
    IN  /\ pc[c] = "readBulk" /\ wait[c] = 0 /\ rest[c] # <<>>
        /\ chan' = Sent(c, pkts)
        /\ wait' = [wait EXCEPT ![c] = Len(batch)]
        /\ rest' = [rest EXCEPT ![c] = Tail(@)]
        /\ UNCHANGED <<mem, size, up, pc, held, args, buffer>>

-----------------------------------------------------------------------------
(* The server: process_request and the handlers it calls.                  *)

\* The packets of a channel that may arrive next.
Deliverable(ft) == IF "reorder" \in Faults THEN DOMAIN chan[ft] ELSE DOMAIN chan[ft] \cap {1}

\* The i-th packet from client c reaches server s, with the given command.
Receives(s, c, i, cmd) ==
    /\ up[s] /\ i \in Deliverable(<<c, s>>)
    /\ chan[<<c, s>>][i].cmd = cmd
    /\ UNCHANGED <<pc, held, args, rest, wait, buffer>>

\* chan after the packet is taken and, in Reply, answered.
Consume(s, c, i) == [chan EXCEPT ![<<c, s>>] = RemoveAt(@, i)]
Reply(s, c, i, pkt) == [Consume(s, c, i) EXCEPT ![<<s, c>>] = Append(@, pkt)]

Blocks(a, n) == a .. a + n - 1
\* Mutant: only the first block is looked at.
FitsFirst(s, a, n) == Blocks(a, n) \subseteq Cell /\ mem[s][a] = Free

Fits(s, a, n) == Blocks(a, n) \subseteq Cell /\ \A b \in Blocks(a, n) : mem[s][b] = Free

\* calloc: somewhere that is free, zeroed; NULL if there is no room.
Alloc(s, c, i, n) ==
    LET cmd == chan[<<c, s>>][i].cmd
    IN  IF \A a \in Cell : ~Fits(s, a, n)
        THEN /\ chan' = Reply(s, c, i, Packet(cmd, 0, 0))
             /\ UNCHANGED <<mem, size, up>>
        ELSE \E a \in {b \in Cell : Fits(s, b, n)} :
             /\ mem' = [mem EXCEPT ![s] = [b \in Cell |-> IF b \in Blocks(a, n) THEN 0 ELSE @[b]]]
             /\ size' = [size EXCEPT ![s][a] = n]
             /\ chan' = Reply(s, c, i, Packet(cmd, a, 0))
             /\ UNCHANGED up

allocate_mem(s, c, i) ==
    Receives(s, c, i, "alloc") /\ Alloc(s, c, i, 1)

\* A bulk allocation of nothing allocates one block.
allocate_mem_bulk(s, c, i) ==
    LET n == chan[<<c, s>>][i].data
    IN  Receives(s, c, i, "allocBulk") /\ Alloc(s, c, i, IF n = 0 THEN 1 ELSE n)

\* An access through NULL ends the server.
Fault(s, c, i) ==
    /\ up' = [up EXCEPT ![s] = FALSE]
    /\ chan' = Consume(s, c, i)
    /\ UNCHANGED <<mem, size>>

\* memcpy and memset to n blocks from a on; what is not allocated is not
\* looked at by anyone.
Overwrite(s, a, n, v) ==
    /\ mem' = [mem EXCEPT ![s] = [b \in Cell |->
                 IF b \in Blocks(a, n) /\ @[b] # Free THEN v ELSE @[b]]]
    /\ UNCHANGED <<size, up>>

write_mem(s, c, i) ==
    LET m == chan[<<c, s>>][i]
    IN  /\ Receives(s, c, i, "write")
        /\ IF m.paddr = 0 THEN Fault(s, c, i)
           ELSE /\ Overwrite(s, m.paddr, 1, m.data)
                /\ chan' = Reply(s, c, i, Packet("write", m.paddr, 0))

\* Mutant: every packet of a bulk write is answered.
WriteBulkReplyAlways(s, c, i) ==
    LET m == chan[<<c, s>>][i]
    IN  /\ Receives(s, c, i, "writeBulk")
        /\ Overwrite(s, m.paddr, 1, m.data)
        /\ chan' = Reply(s, c, i, Packet("writeBulk", m.paddr, 0))

\* Only the packet with the last number of its server is answered.
write_mem_bulk(s, c, i) ==
    LET m == chan[<<c, s>>][i]
    IN  /\ Receives(s, c, i, "writeBulk")
        /\ IF m.paddr = 0 THEN Fault(s, c, i)
           ELSE /\ Overwrite(s, m.paddr, 1, m.data)
                /\ chan' = IF m.seq = m.total
                           THEN Reply(s, c, i, Packet("writeBulk", m.paddr, 0))
                           ELSE Consume(s, c, i)

read_mem(s, c, i) ==
    LET m == chan[<<c, s>>][i]
    IN  /\ Receives(s, c, i, "read")
        /\ IF m.paddr = 0 THEN Fault(s, c, i)
           ELSE /\ chan' = Reply(s, c, i, Packet("read", m.paddr, mem[s][m.paddr]))
                /\ UNCHANGED <<mem, size, up>>

\* Mutant: the reply carries the address that was read.
ReadPtrSameAddress(s, c, i) ==
    LET m == chan[<<c, s>>][i]
    IN  /\ Receives(s, c, i, "readBulk")
        /\ IF m.paddr = 0 THEN Fault(s, c, i)
           ELSE /\ chan' = Reply(s, c, i, Packet("readBulk", m.paddr, mem[s][m.paddr]))
                /\ UNCHANGED <<mem, size, up>>

\* The reply carries the place in the client's buffer as its address.
read_mem_ptr(s, c, i) ==
    LET m == chan[<<c, s>>][i]
    IN  /\ Receives(s, c, i, "readBulk")
        /\ IF m.paddr = 0 THEN Fault(s, c, i)
           ELSE /\ chan' = Reply(s, c, i, Packet("readBulk", m.data, mem[s][m.paddr]))
                /\ UNCHANGED <<mem, size, up>>

\* free(NULL) does nothing.
free_mem(s, c, i) ==
    LET a == chan[<<c, s>>][i].paddr
        n == IF a = 0 THEN 0 ELSE size[s][a]
    IN  /\ Receives(s, c, i, "free")
        /\ mem' = [mem EXCEPT ![s] = [b \in Cell |-> IF b \in Blocks(a, n) THEN Free ELSE @[b]]]
        /\ size' = [size EXCEPT ![s] = [b \in Cell |-> IF b = a THEN 0 ELSE @[b]]]
        /\ chan' = Reply(s, c, i, Packet("free", a, 0))
        /\ UNCHANGED up

trim_mem(s, c, i) ==
    LET m == chan[<<c, s>>][i]
    IN  /\ Receives(s, c, i, "trim")
        /\ IF m.paddr = 0 THEN Fault(s, c, i)
           ELSE /\ Overwrite(s, m.paddr, m.data, 0)
                /\ chan' = Reply(s, c, i, Packet("trim", m.paddr, 0))

process_request(s, c, i) ==
    \/ allocate_mem(s, c, i) \/ allocate_mem_bulk(s, c, i)
    \/ write_mem(s, c, i) \/ write_mem_bulk(s, c, i)
    \/ read_mem(s, c, i) \/ read_mem_ptr(s, c, i)
    \/ free_mem(s, c, i) \/ trim_mem(s, c, i)
-----------------------------------------------------------------------------
(* The client receives: simple_epoll_rcv, or write_packets in a bulk read. *)
(* Whatever packet comes is taken for the reply.                           *)

Rcv(c, s, i) ==
    /\ wait[c] > 0 /\ i \in Deliverable(<<s, c>>)
    /\ chan' = [chan EXCEPT ![<<s, c>>] = RemoveAt(@, i)]
    /\ wait' = [wait EXCEPT ![c] = @ - 1]
    /\ UNCHANGED <<mem, size, up, pc, args, rest>>

\* The reply to an allocation: its address and its sender make the pointers.
\* Any address within a block at NULL is as bad as NULL.
RcvPointers(c, s, i) ==
    LET a == chan[<<s, c>>][i].paddr
    IN  /\ pc[c] \in {"alloc", "allocBulk"}
        /\ Rcv(c, s, i)
        /\ held' = [held EXCEPT ![c] = @ \o [k \in 1 .. args[c] |->
              [subid |-> s, paddr |-> IF a = 0 THEN 0 ELSE a + k - 1,
               home |-> s, off |-> k - 1, len |-> args[c], val |-> 0]]]
        /\ UNCHANGED buffer

\* read_rmem copies the payload to rx_buf.
RcvData(c, s, i) ==
    /\ pc[c] = "read"
    /\ Rcv(c, s, i)
    /\ buffer' = [buffer EXCEPT ![c] = <<chan[<<s, c>>][i].data>>]
    /\ UNCHANGED held

\* write_packets puts the payload where the packet's address says.
write_packets(c, s, i) ==
    /\ pc[c] = "readBulk"
    /\ Rcv(c, s, i)
    /\ buffer' = [buffer EXCEPT ![c][chan[<<s, c>>][i].paddr] = chan[<<s, c>>][i].data]
    /\ UNCHANGED held

\* A write or a free only waits.
RcvAck(c, s, i) ==
    /\ pc[c] \in {"write", "writeBulk", "free"}
    /\ Rcv(c, s, i)
    /\ UNCHANGED <<held, buffer>>

\* A trim lets the destination of the reply, its own address, overwrite the
\* caller's pointer.
RcvTrim(c, s, i) ==
    /\ pc[c] = "trim"
    /\ Rcv(c, s, i)
    /\ held' = [held EXCEPT ![c][args[c][1]].subid = c,
                            ![c][args[c][1]].paddr = chan[<<s, c>>][i].paddr]
    /\ UNCHANGED buffer

\* The positions of held that a call overwrites, and with what.
Written(c) ==
    IF pc[c] \in {"write", "writeBulk"} THEN Range(args[c])
    ELSE IF pc[c] = "trim"
    THEN {[at |-> j, val |-> 0] : j \in Blocks(args[c][1], args[c][2])}
    ELSE {}

\* The call returns; the caller knows what it has written.
Return(c) ==
    /\ pc[c] # "idle" /\ wait[c] = 0 /\ rest[c] = <<>>
    /\ pc' = [pc EXCEPT ![c] = "idle"]
    /\ held' = [held EXCEPT ![c] = [j \in DOMAIN @ |->
          IF \E w \in Written(c) : w.at = j
          THEN [@[j] EXCEPT !.val = (CHOOSE w \in Written(c) : w.at = j).val]
          ELSE @[j]]]
    /\ args' = [args EXCEPT ![c] = <<>>]
    /\ buffer' = [buffer EXCEPT ![c] = <<>>]
    /\ UNCHANGED <<mem, size, up, chan, rest, wait>>
-----------------------------------------------------------------------------
(* The network loses a packet.                                             *)
Lose(ft, i) ==
    /\ "lose" \in Faults
    /\ chan' = [chan EXCEPT ![ft] = RemoveAt(@, i)]
    /\ UNCHANGED <<mem, size, up, pc, held, args, rest, wait, buffer>>

ClientCall(c) ==
    \/ \E s \in Server : allocate_rmem(c, s)
    \/ \E s \in Server, n \in 1 .. MaxPtrs : allocate_bulk_rmem(c, s, n)
    \/ \E i \in DOMAIN held[c] :
          \/ \E v \in Value : write_rmem(c, i, v)
          \/ read_rmem(c, i)
          \/ free_rmem(c, i)
          \/ \E n \in 1 .. MaxPtrs : trim_bulk_rmem(c, i, n)
    \/ \E k \in 2 .. Len(held[c]) :
          \/ \E vals \in [1 .. k -> Value] : write_bulk_rmem(c, vals)
          \/ read_bulk_rmem(c, k)

ClientProceed(c) == batch_write(c) \/ batch_read(c) \/ Return(c)

ClientReceive(c, s, i) ==
    \/ RcvPointers(c, s, i) \/ RcvData(c, s, i) \/ write_packets(c, s, i)
    \/ RcvAck(c, s, i) \/ RcvTrim(c, s, i)

Next ==
    \/ \E c \in Client : ClientCall(c) \/ ClientProceed(c)
    \/ \E c \in Client, s \in Server :
          \/ \E i \in DOMAIN chan[<<c, s>>] : process_request(s, c, i)
          \/ \E i \in DOMAIN chan[<<s, c>>] : ClientReceive(c, s, i)
    \/ \E ft \in Node \X Node : \E i \in DOMAIN chan[ft] : Lose(ft, i)

Spec == Init /\ [][Next]_vars

(* A server takes the packets of its ring as they come, and a client spins *)
(* on its own.                                                             *)
FairSpec ==
    /\ Spec
    /\ \A c \in Client : WF_vars(ClientProceed(c))
    /\ \A c \in Client, s \in Server :
          /\ WF_vars(\E i \in DOMAIN chan[<<c, s>>] : process_request(s, c, i))
          /\ WF_vars(\E i \in DOMAIN chan[<<s, c>>] : ClientReceive(c, s, i))
-----------------------------------------------------------------------------
TypeOK ==
    /\ mem \in [Server -> [Cell -> Value \cup {Free}]]
    /\ size \in [Server -> [Cell -> 0 .. MaxPtrs]]
    /\ up \in [Server -> BOOLEAN]
    /\ pc \in [Client -> Calls \cup {"idle"}]
    /\ wait \in [Client -> Nat]
    /\ \A c \in Client :
          /\ held[c] \in Seq(Pointer) /\ Len(held[c]) <= MaxPtrs
          /\ buffer[c] \in Seq(Value)

Live(p) == p.paddr # 0 /\ up[p.home]

(* allocate_mem and free_mem never let two pointers, of one client or of   *)
(* two, name the same block of a server.                                   *)
PointersDistinct ==
    \A c, d \in Client : \A i \in DOMAIN held[c], j \in DOMAIN held[d] :
       LET p == held[c][i]  q == held[d][j]
       IN  Live(p) /\ p.home = q.home /\ p.paddr = q.paddr => c = d /\ i = j

(* What write_rmem, write_bulk_rmem, trim_bulk_rmem or an allocation gave  *)
(* a block is in the server's memory once the call has returned, and stays *)
(* there until the client's next call that changes the block.              *)
BelievedContents ==
    /\ TypeOK
    /\ \A c \in Client : \A i \in DOMAIN held[c] :
          LET p == held[c][i]
          IN  Live(p) /\ (\A w \in Written(c) : w.at # i) => mem[p.home][p.paddr] = p.val

(* When read_rmem or read_bulk_rmem returns, each block of rx_buf is what  *)
(* the client last wrote through the pointer at the same place, although   *)
(* neither checks which reply it takes.                                    *)
ReadResults ==
    \A c \in Client :
       pc[c] \in {"read", "readBulk"} /\ wait[c] = 0 /\ rest[c] = <<>>
          => \A j \in DOMAIN args[c] : buffer[c][j] = held[c][args[c][j].at].val

(* A pointer is routed to the server that holds its block ("It is          *)
(* generally used as a key which also functions as destination IP          *)
(* address", types.h).                                                     *)
PointerIsDestination ==
    \A c \in Client : \A i \in DOMAIN held[c] : held[c][i].subid = held[c][i].home

(* No reply is left over when a call returns, so the next call cannot take *)
(* it for its own.                                                         *)
NothingLeftOver ==
    \A c \in Client : pc[c] = "idle" => \A s \in Server : chan[<<s, c>>] = <<>>

(* Without loss, every call of client_lib returns.                         *)
CallReturns == \A c \in Client : []<>(pc[c] = "idle")
=============================================================================
