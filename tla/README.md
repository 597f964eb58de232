# A TLA+ model of BlueBridge

BlueBridge lets a program use the memory of other machines. A *client* thread
sends requests in UDP packets whose IPv6 destination address *is* the remote
pointer (`ip6_memaddr`: server, command, arguments, address); a *server*
executes them on its heap. On top of that, a *page table* (`lib/vmem`) offers a
virtual memory whose pages live in local frames and in a backing store: local
memory, a disk, remote memory, or striped remote memory.

This directory models these parts in TLA+, checks them with TLC on small
instances, and proves the central results with TLAPS.

## Parts of the system

| part | source | state | operations |
|---|---|---|---|
| page table | `lib/vmem/page_table.c` | protection and frame of each page, frame contents, replacement lists | five fault handlers, flush, thread start, clean-up |
| backing stores | `lib/vmem/{mem,disk,rmem,rrmem}.c` | page contents, locally or remotely | read, write, allocate, deallocate |
| remote memory client | `lib/client_lib.c` | pointers, `sub_ids`, receive buffer | allocate, read, write, free, trim, bulk forms |
| remote memory server | `lib/server_lib.c` | heap | one handler per command |
| raw and DPDK backends | `lib/raw_backend`, `lib/dpdk_backend` | rings shared with the kernel; queues of the network card and packet buffers | start-up, send, batched send, receive, bulk receive |
| block device | `lib/buse`, `apps/bb_disk.c` | the pointers of one large allocation | NBD read, write, trim, flush |
| RPC services | `apps/thrift` | pointers passed between processes, or arrays | array increment, addition, no-op, memory tests |
| switch and controller | `p4/p4_switch` | table of permitted addresses | packet forwarding, learning |
| key-value programs | `src/legacy/AsyncTCPLinux` | connections, pipelines | load generator and server over non-blocking TCP |
| simulator | `src/legacy/OldPageTable` | coremap, page table, swap | replay of a trace with five algorithms |

Faults are served in the faulting thread by a `SIGSEGV` handler, so other
threads run between the handler's steps. Each thread of a client has its own
socket, ring and port; servers are single loops. Nothing retries, times out or
matches a reply to its request.

## Modules

`Memory` (abstract specification). An array of values; a thread issues a load or
a store and later performs it.

`DemandPaging`. What the five replacement policies have in common, with the
choice of victim and free frame left open. One step per access to shared state:

| action | code (for LRU, in `page_table.c`) |
|---|---|
| `FaultFree`, `MapFirst`, `ReadFirst` | a frame is free: lines 94-98, the page is mapped *before* it is read |
| `FaultEvict`, `WriteBack`, `ReadIn`, `Map`, `Unmap` | lines 101-109, the victim is unmapped *last* |
| `FaultUpgrade` | lines 112-115, the first store to a page makes it writable |
| `StartFlush`, `FlushPage`, `EndFlush` | `register_vmem_threads`, `page_table_flush` |
| `InitThread`, `Clean` | `init_vmem_thread`, `clean_page_table` |
| `Issue`, `Load`, `Store` | the program's accesses (`apps/rmem_test.c`) |

The main thread works alone until it calls `register_vmem_threads`; then the
workers do, on pages and frames of their own (`PagingAssumption`). The remap and
the `mprotect` of `page_table_set_entry` are one step with the assignments to
the table: the threads that could tell the difference access other pages.
Workers may load and store in the model; `wc` only loads.

`PageTable`. The five policies with their data: `dllList` (LRU, FFIFO),
`freqList` (LFU), the hash table with a bucket per frame, RAND's `count`, and
FIFO's `frameState` and `framePage`. A linked list is a sequence, head first.
The aborts of `page_table_set_entry` and the NULL result of `getHashNode` are
branches to a state `abort` that `DemandPaging` does not have. `Split` and
`PagesOf` are the arithmetic of `wc_program_threads`. `loaded` is a history
variable.

`RemoteMem`. Clients, servers and the packets between them. A block is one value
(`BLOCK_SIZE` is 1 in this build), an allocation a range of cells, a pointer
`[subid, paddr]` plus what its holder knows: the server it came from, its place
in its allocation, and the value last written. A bulk call sends its blocks in
batches of `BatchSize`; the packets of a bulk write carry their number among
those for the same server and how many there are, those of a bulk read the
position in the buffer. `Rcv` takes any packet for the reply, as the code does.
calloc may find no room; an access through NULL ends the server. The network
keeps the order of packets between two nodes unless `Faults` says otherwise.
`allocate_uniform_rmem`, `read_uniform_rmem` and `write_uniform_rmem` are the bulk calls
with the pointers derived from the first.

`TraceSim`. The legacy simulator: a step replays one reference of a trace
(`access_mem`, `find_physpage`, `allocate_frame`), with the algorithm chosen at
the start. A reference finds its page in a frame (`Hit`), uses a page for the
first time (`FirstUse`), or brings it back from remote memory (`SwapIn`); the
last two take the first free frame or evict. `evict_fcn` gives the set of
possible victims, of which only `rand` has several. A frame holds the address of
its page and a version, which a store increments. `loaded` is a history
variable. It shares a run with `DemandPaging`, with which it has no state in common.

`PacketRing`. The raw backend: the receive and the transmit ring that a thread
shares with the kernel. The server's loop gives a frame back before it reads the
request in it, the client's functions after; both skip frames marked LOSING
without giving them back. `send_mmap` does not look whether its frame is in use.
Kernel and network card are external.

`Dpdk`. The DPDK backend: `config_dpdk` with the ports, cores and the link check,
then the polling loops of a server or a client, with every packet buffer
accounted for: in the pool, the card's queues, `tx_buffer` or the burst at hand.
Packets for other programs arrive too. DPDK and the card are external.

`Regions`. What the programs above the client library share: one allocation per
host, `memList` with a pointer to each block, and the cutting of a buffer into
batches by the bulk calls. A call is one step here; its packets are the subject of
`RemoteMem`. `BLOCK_SIZE` is 1, as in the build.

`Stores`. `mem.c`, `disk.c` and `rmem.c` behind `readData` and `writeData`. A
program is started and ends through `clean_page_table` (`CleanAtExit`), is killed
(`Kill`) or gets a signal, and is started again with another number of pages; the
file and the hosts' memory stay. The handler `sigterm` cleans up and *returns*, so
that the program goes on without memory, page table and store (`AfterSigterm`): it
ends, gives a host a pointer that is no longer allocated, or waits for ever. The
number of pages may be smaller than that of the hosts. Then the block offsets of
all hosts are 0, and `rmem_deallocate` frees `memList[0]` for each of them;
`free_rmem` has by then overwritten it with the client's own address, so that the
second call waits for ever.

`Raid`. The stripes, the parity and the repair of `rrmem.c`, for levels 0, 4 and
5 and every data of one block. A host may stop (`HostStops`). The calls of
`client_lib.c` test for a receive that failed, but the receive waits until there
is a packet; so a call to a host that has stopped does not return (`RaidCall`), and
the repair, although it is there, is not reached. What it would compute is part of
`RaidReadsBack`. The rest of the program sees `rrmem` as one more store.

`BlockDevice`. The kernel's nbd driver (external), the two streams between it and
`buse_main`, and the operations of `bb_disk.c` on remote memory. A stream holds
requests, replies and single bytes, so that short reads and writes happen in the
data; the kernel may have several requests under way. The header of a request is
one unit, as the assertion `bytes_read == sizeof(request)` of `buse.c` 157 takes for
granted: that assertion cannot fail here.

`ArrayRpc`. The array and the memory test service with their test clients, over
UDP with remote pointers and over TCP with arrays. Servers may be missing,
stopped, or killed. Words of the stack that are never set (over UDP the `offset`
of the blocks that the server's handlers and the client's tests read, and in `no_op`
the length, where line 300 compares instead of assigning) have any value of `Unset`.
When such a word does not fit, `read_uniform_rmem` stops, reads other memory, or uses
pointers that were never set; and the message of the memory tests is longer than a
block, for which client and server have room. A call that meets one of these *goes
astray* (`astray`): it returns with arbitrary bytes, ends its caller, waits for
ever, or ends the memory server (`hostUp`), and `bad` records that a memory server
was given a pointer to nothing. Thrift is external.

`AsyncKv`. The load generator and the key-value server over non-blocking TCP. A
socket buffer is a number of bytes, since all keys and all values are equal; a
handler reads and writes what there is and what fits. Connections may fail and
processes may be told to stop. A thread of the server goes on with a descriptor it
has closed, which another thread may have been given by `accept` for a new
connection: the thread serves that connection (`UseAfterClose`). `raced` are the
connections for which the outcome is not determined, because the other thread had
not cleared their metadata yet, or served them at the same time
(`RaceOnMetadata`, any metadata or a crash).

Definitions marked *Mutant* are deliberate errors in the code's logic; each is
used to show that a property can fail.

## Runs

| run | checks | bounds |
|---|---|---|
| `demand_paging` | `FramesNotShared`, `CleanPagesMatchStore`, `ImplementsMemory`; `TablesAgree`, `ContentsKept`, `OptIsOptimal`, `VictimIsOldest` | main and two workers, so that handlers interleave and the hand-over happens; simulator: every trace of six loads and stores to three pages with two frames: a page can be evicted, brought back, written and evicted again, and a bad victim costs a miss; OPT is compared with the best of all eviction schedules |
| `page_table_threads` | `ListsMatchPageTable`, `ImplementsDemandPaging`, `HandlersEnd` | two workers, one frame each, three pages: each fault after the first evicts |
| `page_table_lists` | `ListsMatchPageTable`, `LfuEvictsCleanFirst`, `FfifoEvictsOldest` | three frames, four pages: lists of length three, hash collisions |
| `fifo_order` | `FifoEvictsOldest`, violated | two frames, three pages |
| `remote_mem` | `BelievedContents`, `ReadResults`, `NothingLeftOver`, `CallReturns` | one client, two servers, three pointers, batches of two: an incomplete batch, a batch over two servers; four cells, enough that fragmentation leaves room |
| `remote_mem_unreliable` | `PointersDistinct`, `ReadResults` | two clients, one server with three cells: memory runs out and the server ends; loss and reordering; every call but the bulk write |
| `bulk_write_reordered` | `ReadResults`, violated | reordering only |
| `trim_pointer` | `PointerIsDestination`, violated | |
| `backends` | `PacketsHandledAsArrived`, `PacketsSentAsQueued`, `EveryPacketPasses`; `MbufsAccountedFor`, `PacketsInOrder`, `StartupEnds`, `DpdkCallReturns`, `RequestsProcessed` | rings of three and two frames, six packets in and four out: both wrap and overflow; bursts of two, a pool of six: queues overflow and the pool runs out; cards with no, one and two ports |
| `dpdk_burst` | `BatchWriteReturns`, violated | two replies, which fit in one burst |
| `programs` | `StoreReads`, `AllocatedAndFreed`; `RaidReadsBack`; `StreamsInStep`, `DeviceReads`, `RequestsAnswered`; `ResultsCorrect`, `EachAllocationFreedOnce`, `NobodyIsStuck`; `OneResponsePerRequest`, `ClientEndsForAReason`, `ClientEnds` | see below |
| `kv_ring` | `RingNotEmpty`, violated | one thread on each side, a pipeline of eight requests and a ring of four |

The type invariant of a module is the first conjunct of one of its invariants
(`ListsMatchPageTable`, `BelievedContents`, `TablesAgree`,
`PacketsHandledAsArrived`, `PacketsInOrder`, `AllocatedAndFreed`, `StreamsInStep`,
`EachAllocationFreedOnce`, `OneResponsePerRequest`); that of `DemandPaging` is
proved.

`demand_paging`, `backends` and `programs` run several components that share nothing in one
module: the first step decides which of them runs, and the others stay in their
initial states. In `programs`:

* stores: two hosts, one to three blocks (fewer than hosts, an even and an uneven
  split), two runs of the program, the second not on hosts that were given a pointer
  to nothing;
* RAID: blocks of one to five bytes on two to four hosts, so that stripes have
  equal and unequal lengths; a byte is one bit, as parity treats bits alike; one host
  stops;
* block device: three bytes on two hosts in batches of two, two requests of one or
  three bytes, streams that hold less than a request with its data;
* RPC: two clients, arrays of length 0 and 6, byte values modulo 6, which the
  additions exceed; a message of two bytes, longer than a block. One call of a
  behaviour goes astray, and it does so, or a server is stopped, only while at most one
  client has been started (`FaultBound`);
* key-value programs: two client threads, two server threads, keys of three and
  values of four bytes through sockets of five, so that both are cut; three requests
  per thread; pipelines of one and (5, cut to the number of requests) of three, which are
  shorter and longer than the ring of two; one fault (a failed listen or accept, a
  signal) per behaviour.

Deadlock is not checked where the system may stop: the programs end, a bound on
packets or requests is reached, or a client waits for a packet that is lost or
that nobody sends. In `remote_mem` a call that never returns is for
`CallReturns` to find, in `programs` a client that waits for ever for
`NobodyIsStuck`, which states with `ENABLED` that nobody can move only when all
clients have ended.

Fairness, always weak:

* `page_table_threads`: a thread inside an instruction or its handler keeps
  running (`Execute`), since handlers wait for nobody; likewise the flush.
  Issuing instructions is not fair: a program may stop.
* `remote_mem`: a server takes the packets of its ring as they come, a client polls
  its own ring, and packets are not lost; calling is not fair.
* `backends`, raw: the thread polls, and the kernel sends what is requested; packets
  need not arrive. DPDK: the thread runs (it polls and never sleeps), the card
  sends what is in its queue, and the replies to a client's requests arrive
  (possibly when the queue is full, and are dropped).
* `dpdk_burst`: as in `backends`.
* `programs`: the nbd daemon, and the kernel's writing and reading, go on. Of the
  key-value programs only that some thread that can go on does: each step of theirs
  is progress, so there is nothing to starve on.

What the violated runs show:

* FIFO: the first store to a page resets its age, so FIFO evicts a page that was
  loaded later. FFIFO evicts in order (`FfifoEvictsOldest`).
* `write_mem_bulk` answers the packet with the highest number. If it overtakes
  another packet of the batch, `write_bulk_rmem` returns too early, and a read
  that overtakes the late packet as well returns old data. All other calls are
  safe under reordering and loss as long as they return.
* `trim_bulk_rmem` leaves the client's own address in the pointer.
* `dpdk_client_rcv` returns with the first packet of a burst that is for it and
  forgets the others. When two servers acknowledge a batch in the same burst,
  `batch_write` waits for the second for ever.
* The ring of time stamps of the key-value client has 512 entries, and the default
  pipeline is all the requests. When as many requests are outstanding as the ring has
  entries, or a multiple, its indices are equal, and a response that arrives then ends
  the client at `assert(ts_cons != ts_prod)`.

Where a property has an exception, the exception is what the code does, and the
property says that nothing else goes wrong. The notable ones:

* after one dropped packet the raw receive ring loses its frames one by one
  (`EveryPacketPasses`); a server whose ring is full may read a later packet in
  place of the one it is handling (`PacketsHandledAsArrived`); more packets in one
  go than the transmit ring has frames overwrite each other (`PacketsSentAsQueued`);
* the DPDK backend starts only with exactly one port (`StartupEnds`);
* a store program that is killed leaves its memory allocated on the hosts, and so
  does one with fewer pages than hosts, which waits for ever when it frees them; one
  that gets a signal may wait for ever or use memory that it has freed
  (`AllocatedAndFreed`);
* a host of the RAID store that stops answering stops the program (`RaidReadsBack`). The
  repair computes the missing data on level 4, which the program uses; on level 5 a missing
  data stripe only in blocks whose parity is on the last host;
* a call of the RPC services may go astray, and then a result may be wrong, memory
  may stay allocated or be accessed outside, and processes may end or wait
  (`ResultsCorrect`, `EachAllocationFreedOnce`, `NobodyIsStuck`). That agrees with the comment at
  `ddc_client.c` 440, where a server is said to fail on a `write_rmem`. The properties show
  that the order in which clients and servers use the memory is not the cause;
* two clients over TCP whose connections reach the two servers in opposite orders
  wait for each other (`NobodyIsStuck`);
* when the first client thread finishes, the others stop, and one without any
  response divides by zero (`ClientEndsForAReason`). The assertion on the ring fails only
  with a pipeline that is not shorter than the ring, or on a connection in `raced`;
* the key-value server answers each request once on every connection not in `raced`
  (`OneResponsePerRequest`).

## Proofs

`DemandPagingProofs` and `DemandPagingRefinement` prove for all sets of threads,
pages, frames and values satisfying `PagingAssumption`:

* `TypeCorrect`, `FramesAreNotShared`, `CleanPagesCanBeDropped`: the type
  invariant and the two invariants of `demand_paging`;
* `PagingImplementsMemory` (in `DemandPagingRefinement`): `DemandPaging` implements `Memory` under the
  mapping `VirtualMem` (a page's contents are in its frame if it is resident and
  no handler has overwritten or not yet filled that frame, else in the store).

The invariants are not inductive alone. `IInv` adds, per thread, what its
program counter implies about its local variables (`ThreadInv`, `HandlerInv`):
the frame being filled belongs to the thread, the victim is mapped to it until
the end, the faulting page is not resident until it is mapped; and that pages
outside a running worker's share are not resident in its frames (`OwnedInv`).
A step of one thread preserves the facts of the others because what it writes
(its *footprint*) is in its own pages and frames (`StepFootprint`,
`OtherHandlers`). For the refinement,
handler and flush steps leave `VirtualMem` unchanged (`HandlerKeepsContents`)
and a load or store is the memory's (`AccessIsMemoryAccess`).

`DpdkProofs` proves for every number of buffers, descriptors and packets, and every
size of bursts and batches (`DpdkAssumption`):

* `NoMbufLost`: `MbufsAccountedFor` is an invariant of `Dpdk`. A server loses no
  buffer, and a client none but those that `dpdk_client_rcv` leaves in its burst.

The inductive invariant `MbufInv` adds that the counts are natural numbers
(`CountsOK`), and that outside a call nothing is buffered, outside a server's burst
there is none, and before a mode is chosen nothing has been lost
(`QuietOutsideCalls`): without these an action that sets `tx_buffer` or the burst anew
could forget what was in it. The steps that move buffers are a send through
`tx_buffer` (`FlushKeepsCount`) and a receive of a burst (`BurstSplitsQueue`,
`ReceiveKeepsCount`); the others keep every term of the sum (`NoBufferStep`).

Only model-checked: that `PageTable` implements `DemandPaging`; everything about
`RemoteMem`, `TraceSim`, `PacketRing`, `Stores`, `Raid`, `BlockDevice`, `ArrayRpc` and
`AsyncKv`; the other properties of `Dpdk`; and all liveness, which is out of the
prover's reach, like `ENABLED` in `NobodyIsStuck`.

## Not modelled

* Set-up of sockets, rings, shared memory and ports, the packet filter, header fields
  and checksums, configuration parsing, statistics, printing: no state that a
  property could be about, or effects outside the programs.
* How `read_raid_mem` and `write_raid_mem` of `client_lib.c`, which are marked as deprecated,
  address the hosts: they take the number of a host from a fixed byte of its address
  and send no length. `Raid` takes for granted that both fit.
* Signals that reach a program during `init_virtual_memory` or in the middle of a
  store's call made by `main`, and signals with several threads. (The fault handler
  masks signals.) The `sigaction` for `SIGKILL`, which the kernel refuses.
* What a stray access damages in the heap of a host that goes on: `bad` and `misused`
  record it, and no later run uses such a host.
* The width of FIFO's ages, which are ints: `ListsMatchPageTable` bounds them by twice the
  number of frames.
* A header of the block device that arrives in two pieces (see `BlockDevice`).
* The leftover chunks of bulk calls, which are empty with `BLOCK_SIZE` 1.
* `mat_multiply`, `word_count` and `sort_array` of the RPC services, and
  `add_arrays_perf`: nobody calls them. `thrift_utils.c` calls an older form of
  `gen_rdm_ip6_target`, which is modelled as that call uses it. Code generated by Thrift
  is external.
* Two clients with bulk writes on one server, and servers with both faults and bulk
  writes, are not checked together: their states are too many.
* The size of a worker's share in `wc_program_threads` when it is rounded up past
  the end of the data (`rmem_test.c` 181): `PageTableAssumption` excludes it.
* The linked lists of `page_table.c` at pointer level: they are sequences here.
* The P4 programs and their controller `heimdall`, whose meaning is that of the switch.
* `uthash` and `utlist`, a third-party library that the modelled code does not
  use.
* `ndpproxy`, `pagerank` and the latency and other benchmarks: they have no state
  that is shared or that lasts.
