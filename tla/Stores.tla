------------------------------- MODULE Stores -------------------------------
(***************************************************************************)
(* The stores that page_table.c reads pages from and writes pages to:      *)
(* lib/vmem/mem.c, disk.c and rmem.c, chosen by init_virtual_memory.  The  *)
(* file of the disk store and the memory of the hosts outlive the program: *)
(* it may get a signal or be killed, and be started again with another     *)
(* number of pages.  A call of a store is one step.                        *)
(***************************************************************************)
EXTENDS Regions

CONSTANTS Byte,      \* values of a byte, with 0
          Sizes,     \* values of the argument npages
          MaxRuns    \* bound: how often the program is started

ASSUME StoresAssumption ==
    /\ 0 \in Byte /\ MaxRuns \in Nat
    /\ Sizes \subseteq Nat \ {0}

VARIABLES phase,          \* "off", "run", "cleaned" (sigterm has returned) or "stuck"
          pagingSystem,
          nblocks,
          memList,        \* of rmem: block -> pointer
          heap,           \* allocated bytes of the hosts: pointer -> byte
          local,          \* contents of the mem store: block -> data
          file,           \* contents of myvirtualdisk: block -> data
          startedRuns,    \* number of the run
          killed,         \* history: runs that ended without clean_page_table,
          signalled,      \*   that went through sigterm,
          short,          \*   that had fewer pages than hosts,
          misused,        \*   and in which a host got a pointer to no allocation
          known,          \* history: block -> what a read should give
          result          \* history: the last read, block and data

contentVars == <<heap, local, file>>
runVars == <<killed, signalled, short, misused>>
storeVars == <<phase, pagingSystem, nblocks, memList, contentVars, startedRuns, runVars, known, result>>

Data == [0 .. BlockSize - 1 -> Byte]
Zero == [i \in 0 .. BlockSize - 1 |-> 0]
Anything == <<>>                      \* malloc: not yet written
NoResult == [block |-> -1, data |-> Zero]
Blocks(n) == 0 .. n - 1

StoresInit ==
    /\ phase = "off" /\ pagingSystem = "mem" /\ nblocks = 0
    /\ memList = <<>> /\ heap = <<>> /\ local = <<>> /\ file = <<>>
    /\ startedRuns = 0 /\ killed = {} /\ signalled = {} /\ short = {} /\ misused = {}
    /\ known = <<>> /\ result = NoResult

----------------------------------------------------------------------------
\* init_virtual_memory, the part that opens the store.
Started(system, n) ==
    /\ phase = "off" /\ startedRuns < MaxRuns
    /\ startedRuns' = startedRuns + 1
    /\ phase' = "run" /\ pagingSystem' = system /\ nblocks' = n
    /\ short' = IF n < NumHosts THEN short \cup {startedRuns'} ELSE short
    /\ result' = NoResult
    /\ UNCHANGED <<killed, signalled, misused>>

mem_allocate(n) ==
    /\ Started("mem", n)
    /\ \E junk \in [Blocks(n) -> Data] : local' = junk
    /\ known' = [b \in Blocks(n) |-> Anything]
    /\ UNCHANGED <<memList, heap, file>>

\* Bound: not on hosts whose heap may have been damaged.
rmem_allocate(n) ==
    /\ Started("rmem", n) /\ misused = {}
    /\ memList' = FillList(n, startedRuns')
    /\ heap' = [p \in DOMAIN heap \cup DOMAIN FillBytes(n, startedRuns') |->
                   IF p \in DOMAIN heap THEN heap[p] ELSE 0]
    /\ known' = [b \in Blocks(n) |-> Zero]
    /\ UNCHANGED <<local, file>>

\* Mutant: the file is emptied when it is opened.
DiskOpenTruncates(n) ==
    /\ Started("disk", n)
    /\ file' = [b \in Blocks(n) |-> Zero]
    /\ known' = [b \in Blocks(n) |-> IF b \in DOMAIN file THEN file[b] ELSE Zero]
    /\ UNCHANGED <<memList, heap, local>>

\* The file is created if there is none; ftruncate cuts it or adds zeros.
disk_open(n) ==
    /\ Started("disk", n)
    /\ file' = [b \in Blocks(n) |-> IF b \in DOMAIN file THEN file[b] ELSE Zero]
    /\ known' = [b \in Blocks(n) |-> IF b \in DOMAIN file THEN file[b] ELSE Zero]
    /\ UNCHANGED <<memList, heap, local>>

init_virtual_memory == \E n \in Sizes : mem_allocate(n) \/ rmem_allocate(n) \/ disk_open(n)

----------------------------------------------------------------------------
BytesAt(p) == [i \in 0 .. BlockSize - 1 |-> heap[Advance(p, i)]]
PutBytes(p, data) ==
    [q \in DOMAIN heap |-> IF \E i \in 0 .. BlockSize - 1 : q = Advance(p, i)
                           THEN data[q.off - p.off] ELSE heap[q]]

\* The process is over; what it had in its own memory is gone.
Over == local' = <<>> /\ memList' = <<>> /\ nblocks' = 0 /\ known' = <<>> /\ result' = NoResult

\* It ended by abort or a signal; the hosts do not learn of it.
Dies ==
    /\ phase' = "off" /\ Over
    /\ killed' = IF phase = "run" THEN killed \cup {startedRuns} ELSE killed
    /\ UNCHANGED <<pagingSystem, heap, file, startedRuns, signalled, short, misused>>

\* A block number that is too large aborts the program.
BadBlock(block) == phase = "run" /\ block >= nblocks /\ Dies

\* writeData, and the write of each store.
writeData(block, data) ==
    /\ phase = "run" /\ block < nblocks
    /\ \/ /\ pagingSystem = "mem"
          /\ local' = [local EXCEPT ![block] = data] /\ UNCHANGED <<heap, file>>
       \/ /\ pagingSystem = "rmem"
          /\ heap' = PutBytes(memList[block], data) /\ UNCHANGED <<local, file>>
       \/ /\ pagingSystem = "disk"
          /\ file' = [file EXCEPT ![block] = data] /\ UNCHANGED <<local, heap>>
    /\ known' = [known EXCEPT ![block] = data]
    /\ result' = NoResult
    /\ UNCHANGED <<phase, pagingSystem, nblocks, memList, startedRuns, runVars>>

\* readData, and the read of each store.
readData(block) ==
    /\ phase = "run" /\ block < nblocks
    /\ result' = [block |-> block,
                  data  |-> CASE pagingSystem = "mem"  -> local[block]
                              [] pagingSystem = "rmem" -> BytesAt(memList[block])
                              [] pagingSystem = "disk" -> file[block]]
    /\ UNCHANGED <<phase, pagingSystem, nblocks, memList, contentVars, startedRuns, runVars, known>>

----------------------------------------------------------------------------
\* free_mem of a host: right for the first byte of an allocation only.
IsAllocation(p) == p \in DOMAIN heap /\ p.off = 0
FreeAll(ptrs) == {q \in DOMAIN heap : \E p \in ptrs : p.subid = q.subid /\ p.alloc = q.alloc}

\* Mutant: only the first pointer is freed.
DeallocateFirst ==
    /\ heap' = [q \in DOMAIN heap \ FreeAll({memList[0]}) |-> heap[q]]
    /\ misused' = IF IsAllocation(memList[0]) THEN misused ELSE misused \cup {startedRuns}

\* What is freed: the first block of each host.
Firsts == {memList[Offset(nblocks, i)] : i \in Hosts}
rmem_deallocate ==
    /\ heap' = [q \in DOMAIN heap \ FreeAll(Firsts) |-> heap[q]]
    /\ misused' = IF \A p \in Firsts : IsAllocation(p) THEN misused ELSE misused \cup {startedRuns}

\* free_rmem receives the reply's destination, the client, into the pointer.
\* A pointer that is freed a second time leads to no host, and no reply comes.
FreesOnePointerTwice == Cardinality(Firsts) < NumHosts

\* clean_page_table, and where the program is then.  Nothing is written back,
\* and the mem store is not freed.
clean_page_table(next) ==
    /\ phase = "run"
    /\ IF pagingSystem = "rmem"
       THEN rmem_deallocate /\ phase' = IF FreesOnePointerTwice THEN "stuck" ELSE next
       ELSE phase' = next /\ UNCHANGED <<heap, misused>>
    /\ Over
    /\ UNCHANGED <<pagingSystem, file, startedRuns, killed, short>>

\* The end of main.
CleanAtExit == clean_page_table("off") /\ UNCHANGED signalled

\* SIGTERM, SIGINT or SIGBUS, while no fault is being handled (its handler
\* masks all signals).  sigterm cleans up and returns to the program.
sigterm == clean_page_table("cleaned") /\ signalled' = signalled \cup {startedRuns}

\* The program goes on with memory that is unmapped, a page table and a store
\* that are freed: the fault handler, or clean_page_table at the end of main,
\* uses them.  That ends the process, or a host gets a pointer to memory that
\* it has freed, or a request is sent to nobody and waited for.
AfterSigterm ==
    /\ phase = "cleaned"
    /\ \/ Dies
       \/ /\ pagingSystem = "rmem"
          /\ \/ misused' = misused \cup {startedRuns} /\ UNCHANGED phase
             \/ phase' = "stuck" /\ UNCHANGED misused
          /\ UNCHANGED <<pagingSystem, nblocks, memList, contentVars, startedRuns, killed, signalled, short, known, result>>

\* SIGKILL, which sigaction cannot intercept.
Kill == phase # "off" /\ Dies

MaxBlock == CHOOSE n \in Sizes : \A m \in Sizes : m <= n

StoresNext ==
    \/ init_virtual_memory
    \/ \E b \in 0 .. MaxBlock : BadBlock(b) \/ readData(b) \/ \E d \in Data : writeData(b, d)
    \/ CleanAtExit \/ sigterm \/ AfterSigterm \/ Kill

StoresSpec == StoresInit /\ [][StoresNext]_storeVars

----------------------------------------------------------------------------
\* The variables have their types: the contents of the stores are data, and
\* every pointer of memList leads to allocated bytes.
StoresTypeOK ==
    /\ phase \in {"off", "run", "cleaned", "stuck"} /\ pagingSystem \in {"mem", "rmem", "disk"}
    /\ nblocks \in Sizes \cup {0} /\ startedRuns \in 0 .. MaxRuns
    /\ killed \cup signalled \cup short \cup misused \subseteq 1 .. startedRuns
    /\ local = <<>> \/ local \in [Blocks(nblocks) -> Data]
    /\ file = <<>> \/ \E n \in Sizes : file \in [Blocks(n) -> Data]
    /\ \A p \in DOMAIN heap : p.subid \in Hosts /\ p.alloc \in 1 .. MaxRuns /\ heap[p] \in Byte
    /\ memList = <<>> \/ DOMAIN memList = Blocks(nblocks)
    /\ result.data \in Data

\* readData returns what the last writeData of that block wrote, in this run
\* or, on the disk store, in an earlier one that was closed, killed or told to
\* stop; before the first write it returns zeros (calloc, ftruncate), or
\* anything (malloc).
StoreReads ==
    result.block >= 0 => known[result.block] \in {result.data, Anything}

\* While a program runs on rmem, each byte of each block has a byte of its own
\* that a host allocated for this run (fill_rmem), and with at least as many
\* pages as hosts the hosts allocated no others for it, however the blocks
\* divide among them.  clean_page_table, at the end or in sigterm, gives all
\* of it back: memory of a run that is over is still allocated only if the
\* run was killed or had fewer pages than hosts.  A program waits for ever, or
\* gives a host a pointer to what is not allocated, only if sigterm made it go
\* on after cleaning up or, the former, if it had fewer pages than hosts (then
\* rmem_deallocate frees memList[0] once for every host).
AllocatedAndFreed ==
    /\ StoresTypeOK
    /\ phase = "run" /\ pagingSystem = "rmem" =>
          LET bytes == {<<b, i>> : b \in Blocks(nblocks), i \in 0 .. BlockSize - 1}
              At(x) == Advance(memList[x[1]], x[2])
              mine  == {p \in DOMAIN heap : p.alloc = startedRuns}
          IN  /\ \A x, y \in bytes : At(x) = At(y) => x = y
              /\ {At(x) : x \in bytes} \subseteq mine
              /\ nblocks >= NumHosts => mine \subseteq {At(x) : x \in bytes}
    /\ \A p \in DOMAIN heap : p.alloc \in killed \cup short \/ (p.alloc = startedRuns /\ phase = "run")
    /\ misused \subseteq signalled
    /\ phase = "stuck" => startedRuns \in signalled \cup short
=============================================================================
