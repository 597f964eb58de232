---------------------------- MODULE BlockDevice ----------------------------
(***************************************************************************)
(* apps/bb_disk.c on lib/buse/buse.c: a network block device whose bytes   *)
(* are on the remote hosts.  The kernel writes requests, with the data of  *)
(* a write behind them, to one stream of a socket pair and takes replies,  *)
(* with the data of a read behind them, from the other; it does not wait   *)
(* for a reply before it sends the next request.  The process serves one   *)
(* request at a time.  A unit of a stream is a request, a reply or a byte. *)
(***************************************************************************)
EXTENDS Regions, Sequences

CONSTANTS DevSize,       \* aop.size
          DevByte,       \* values of a byte, with 0
          Lens,          \* lengths of requests
          SockCap,       \* bound: units a stream holds
          MaxRequests    \* bound: requests the kernel makes

ASSUME BlockAssumption ==
    /\ {DevSize, SockCap, MaxRequests} \subseteq Nat \ {0} /\ 0 \in DevByte
    /\ Lens \subseteq 1 .. DevSize /\ DevSize % BlockSize = 0 /\ DevSize >= NumHosts

VARIABLES dpc,        \* what the process is at
          disk,       \* bytes of the hosts: pointer -> byte
          addrs,      \* r.memList
          chunk,      \* data of the request that is served
          request,    \* that request
          out,        \* what it still has to write
          toDaemon, toKernel,   \* the streams
          sending,    \* kernel: what it still has to write of a request
          inflight,   \* kernel: requests without a reply
          receiving,  \* kernel: the reply that it is receiving
          attached,   \* kernel: "no", "yes", "disc" (sent NBD_CMD_DISC) or "closed"
          nsent,      \* kernel: requests made so far
          desync,     \* kernel: a unit arrived that is not what should come next
          contents    \* history: the device as the requests made so far leave it

devVars == <<disk, addrs, chunk, request, out>>
kernelVars == <<sending, inflight, receiving, attached, nsent, desync, contents>>
blockVars == <<dpc, devVars, toDaemon, toKernel, kernelVars>>

ByteUnit(v) == [kind |-> "byte", val |-> v]
Reply(h) == [kind |-> "reply", handle |-> h]
Rqst(h, type, from, len) == [kind |-> "rqst", handle |-> h, type |-> type, from |-> from, len |-> len]
Nothing == [kind |-> "none"]
NBlocks == DevSize \div BlockSize

BlockInit ==
    /\ dpc = "off" /\ disk = <<>> /\ addrs = <<>> /\ chunk = <<>> /\ request = Nothing /\ out = <<>>
    /\ toDaemon = <<>> /\ toKernel = <<>>
    /\ sending = <<>> /\ inflight = {} /\ receiving = Nothing /\ attached = "no" /\ nsent = 0
    /\ desync = FALSE /\ contents = [i \in 0 .. DevSize - 1 |-> 0]

----------------------------------------------------------------------------
\* main and the first half of buse_main: the memory is allocated, the device
\* is opened and the child gives the socket to the kernel, unless that fails.
BlockSetup(ok) ==
    /\ dpc = "off"
    /\ addrs' = FillList(NBlocks, 1)
    /\ disk' = FillBytes(NBlocks, 1)
    /\ dpc' = IF ok THEN "header" ELSE "exit"
    /\ attached' = IF ok THEN "yes" ELSE "no"
    /\ UNCHANGED <<chunk, request, out, toDaemon, toKernel, sending, inflight, receiving, nsent, desync, contents>>

\* What xmp_read copies into the chunk; a byte no piece covers is what malloc
\* left there.
xmp_read(len, from, junk) ==
    LET pieces == BulkPieces(len \div BlockSize, len)
    IN  [i \in 1 .. len |->
            IF i - 1 \in Covered(pieces)
            THEN disk[RemoteByte(addrs, from \div BlockSize, pieces, i - 1)] ELSE junk]

\* What xmp_write leaves in the remote memory.
xmp_write(len, from) ==
    LET pieces == BulkPieces(len \div BlockSize, len)
        hits(p) == {pos \in Covered(pieces) : RemoteByte(addrs, from \div BlockSize, pieces, pos) = p}
    IN  [p \in DOMAIN disk |->
            IF hits(p) = {} THEN disk[p] ELSE chunk[(CHOOSE pos \in hits(p) : TRUE) + 1].val]

\* Mutant: one byte of the data is left out.
ServeReadShort ==
    /\ request'.type = "read"
    /\ \E junk \in DevByte :
          out' = <<Reply(request'.handle)>>
                   \o [i \in 1 .. request'.len - 1 |-> ByteUnit(xmp_read(request'.len, request'.from, junk)[i])]
    /\ dpc' = "write"
    /\ UNCHANGED <<chunk, disk, addrs>>

ServeRead ==
    /\ request'.type = "read"
    /\ \E junk \in DevByte :
          out' = <<Reply(request'.handle)>>
                   \o [i \in 1 .. request'.len |-> ByteUnit(xmp_read(request'.len, request'.from, junk)[i])]
    /\ dpc' = "write"
    /\ UNCHANGED <<chunk, disk, addrs>>

\* The data of the write follows the request.
ServeWrite ==
    /\ request'.type = "write"
    /\ chunk' = <<>> /\ dpc' = "payload"
    /\ UNCHANGED <<out, disk, addrs>>

\* Mutant: a trim is not answered.
ServeFlushOnly ==
    /\ request'.type \in {"flush", "trim"}
    /\ out' = IF request'.type = "flush" THEN <<Reply(request'.handle)>> ELSE <<>>
    /\ dpc' = IF request'.type = "flush" THEN "write" ELSE "header"
    /\ UNCHANGED <<chunk, disk, addrs>>

\* xmp_flush and xmp_trim do nothing.
ServeFlushTrim ==
    /\ request'.type \in {"flush", "trim"}
    /\ out' = <<Reply(request'.handle)>> /\ dpc' = "write"
    /\ UNCHANGED <<chunk, disk, addrs>>

\* xmp_disc: buse_main returns.
ServeDisc ==
    /\ request'.type = "disc"
    /\ dpc' = "exit" /\ UNCHANGED <<chunk, out, disk, addrs>>

\* The head of the loop: a request, or the assertion on its magic fails.  A
\* header is one unit, as the kernel writes it to a local socket in one piece:
\* a read that returns a part of one (assert(bytes_read == sizeof(request)))
\* does not occur here.
ReadHeader ==
    /\ dpc = "header" /\ toDaemon # <<>>
    /\ toDaemon' = Tail(toDaemon)
    /\ request' = Head(toDaemon)
    /\ \/ ServeRead \/ ServeWrite \/ ServeFlushTrim \/ ServeDisc
       \/ /\ request'.kind # "rqst"
          /\ dpc' = "abort" /\ UNCHANGED <<chunk, out, disk, addrs>>
    /\ UNCHANGED <<toKernel, kernelVars>>

\* read_all, one unit of what it needs.
read_all ==
    /\ dpc = "payload" /\ Len(chunk) < request.len /\ toDaemon # <<>>
    /\ chunk' = Append(chunk, Head(toDaemon))
    /\ toDaemon' = Tail(toDaemon)
    /\ UNCHANGED <<dpc, disk, addrs, request, out, toKernel, kernelVars>>

\* The data is there: it is written and the request is answered.
DoWrite ==
    /\ dpc = "payload" /\ Len(chunk) = request.len
    /\ disk' = xmp_write(request.len, request.from)
    /\ out' = <<Reply(request.handle)>> /\ dpc' = "write"
    /\ UNCHANGED <<addrs, chunk, request, toDaemon, toKernel, kernelVars>>

\* write_all, one unit; after the last one the loop starts again.
write_all ==
    /\ dpc = "write" /\ out # <<>> /\ Len(toKernel) < SockCap /\ attached # "closed"
    /\ toKernel' = Append(toKernel, Head(out))
    /\ out' = Tail(out)
    /\ dpc' = IF Len(out) = 1 THEN "header" ELSE "write"
    /\ UNCHANGED <<disk, addrs, chunk, request, toDaemon, kernelVars>>

\* The stream has ended: between requests the loop ends, in the middle of one
\* an assertion fails or a signal ends the process.
EndOfStream ==
    /\ attached = "closed" /\ toDaemon = <<>>
    /\ \/ dpc = "header" /\ dpc' = "exit"
       \/ dpc = "payload" /\ Len(chunk) < request.len /\ dpc' = "abort"
       \/ dpc = "write" /\ dpc' = "abort"
    /\ UNCHANGED <<devVars, toDaemon, toKernel, kernelVars>>

Daemon == ReadHeader \/ read_all \/ DoWrite \/ write_all \/ EndOfStream

----------------------------------------------------------------------------
\* The kernel.  It writes requests one behind the other.
Submit(type, from, bytes) ==
    LET len == Len(bytes)
        r   == Rqst(nsent + 1, type, from, len)
        now == [i \in DOMAIN contents |-> IF i \in from .. from + len - 1 THEN bytes[i - from + 1] ELSE contents[i]]
    IN  /\ attached = "yes" /\ sending = <<>> /\ nsent < MaxRequests
        /\ from + len <= DevSize
        /\ nsent' = nsent + 1
        /\ sending' = <<r>> \o IF type = "write" THEN [i \in 1 .. len |-> ByteUnit(bytes[i])] ELSE <<>>
        /\ contents' = IF type = "write" THEN now ELSE contents
        /\ inflight' = IF type = "disc" THEN inflight
                       ELSE inflight \cup {[rqst |-> r, want |-> [i \in 1 .. len |-> contents[from + i - 1]]]}
        /\ attached' = IF type = "disc" THEN "disc" ELSE "yes"
        /\ UNCHANGED <<dpc, devVars, toDaemon, toKernel, receiving, desync>>

KernelWrites ==
    /\ sending # <<>> /\ Len(toDaemon) < SockCap /\ attached # "closed"
    /\ toDaemon' = Append(toDaemon, Head(sending))
    /\ sending' = Tail(sending)
    /\ UNCHANGED <<dpc, devVars, toKernel, inflight, receiving, attached, nsent, desync, contents>>

\* A reply is for a request in flight; the data of a read follows it.
KernelReads ==
    /\ toKernel # <<>> /\ ~desync
    /\ receiving # Nothing => Len(receiving.got) < receiving.q.rqst.len
    /\ toKernel' = Tail(toKernel)
    /\ LET u == Head(toKernel)
           answered == {q \in inflight : u.kind = "reply" /\ q.rqst.handle = u.handle}
       IN  \/ /\ receiving = Nothing /\ \E q \in answered : q.rqst.type # "read"
              /\ inflight' = inflight \ answered
              /\ UNCHANGED <<receiving, desync>>
           \/ /\ receiving = Nothing
              /\ \E q \in answered : /\ q.rqst.type = "read"
                                     /\ receiving' = [kind |-> "data", q |-> q, got |-> <<>>]
              /\ UNCHANGED <<inflight, desync>>
           \/ /\ receiving # Nothing /\ u.kind = "byte"
              /\ receiving' = [receiving EXCEPT !.got = Append(@, u.val)]
              /\ UNCHANGED <<inflight, desync>>
           \/ /\ IF receiving = Nothing THEN answered = {} ELSE u.kind # "byte"
              /\ desync' = TRUE
              /\ UNCHANGED <<inflight, receiving>>
    /\ UNCHANGED <<dpc, devVars, toDaemon, sending, attached, nsent, contents>>

\* A read has all its data.
KernelCompletes ==
    /\ receiving # Nothing /\ Len(receiving.got) = receiving.q.rqst.len
    /\ inflight' = inflight \ {receiving.q}
    /\ receiving' = Nothing
    /\ UNCHANGED <<dpc, devVars, toDaemon, toKernel, sending, attached, nsent, desync, contents>>

\* The device is detached in the middle of whatever is going on.
KernelCloses ==
    /\ attached \in {"yes", "disc"}
    /\ attached' = "closed" /\ sending' = <<>>
    /\ UNCHANGED <<dpc, devVars, toDaemon, toKernel, inflight, receiving, nsent, desync, contents>>

Kernel == KernelWrites \/ KernelReads \/ KernelCompletes

Requests ==
    \/ \E n \in Lens, from \in 0 .. DevSize - 1 :
          \/ \E bytes \in [1 .. n -> DevByte] : Submit("write", from, bytes)
          \/ Submit("read", from, [i \in 1 .. n |-> 0])
    \/ \E type \in {"flush", "trim", "disc"} : Submit(type, 0, <<>>)

BlockNext == (\E ok \in BOOLEAN : BlockSetup(ok)) \/ Daemon \/ Kernel \/ Requests \/ KernelCloses

\* The process runs, and the kernel writes what it has and reads what comes.
BlockFairness == WF_blockVars(Daemon) /\ WF_blockVars(KernelWrites) /\ WF_blockVars(KernelReads \/ KernelCompletes)
BlockSpec == BlockInit /\ [][BlockNext]_blockVars /\ BlockFairness

----------------------------------------------------------------------------
\* The variables have their types: buse_main takes bytes, never a request, for
\* the data of a write, and stays within the chunk.
BlockTypeOK ==
    /\ dpc \in {"off", "header", "payload", "write", "exit", "abort"}
    /\ attached \in {"no", "yes", "disc", "closed"} /\ nsent \in 0 .. MaxRequests
    /\ \A i \in 1 .. Len(chunk) : chunk[i].kind = "byte"
    /\ dpc = "payload" => Len(chunk) <= request.len
    /\ \A p \in DOMAIN disk : disk[p] \in DevByte
    /\ Len(toDaemon) <= SockCap /\ Len(toKernel) <= SockCap

\* Requests, replies and data never get out of step on the two streams: every
\* unit the kernel reads is the one it expects, and buse_main's assertions (but
\* the one on a partly read header, which is one unit here) fail only when the
\* kernel closes the stream in the middle of a request.
StreamsInStep ==
    /\ BlockTypeOK
    /\ ~desync
    /\ dpc = "abort" => attached = "closed"

\* A read of the block device returns the bytes that the requests made before
\* it left there, also when they were made without waiting for replies, and
\* whichever hosts and bulk batches the bytes are spread over.
DeviceReads ==
    receiving # Nothing /\ Len(receiving.got) = receiving.q.rqst.len => receiving.got = receiving.q.want

\* Every request made is answered, unless the kernel closes the stream; also
\* those that are under way when a disconnect is sent.  (A handle is used
\* once, so a request that is answered stays so.)
RequestsAnswered ==
    \A h \in 1 .. MaxRequests :
        <>[](attached = "closed" \/ ~\E q \in inflight : q.rqst.handle = h)
=============================================================================
