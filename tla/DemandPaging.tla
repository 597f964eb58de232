---------------------------- MODULE DemandPaging ----------------------------
(***************************************************************************)
(* The part of lib/vmem/page_table.c that the five replacement policies    *)
(* have in common: page faults served by copying pages between a backing   *)
(* store and a small set of frames.  Which resident page is evicted, and   *)
(* which unused frame is filled, is left open: page_table.c decides it     *)
(* with the lists that module PageTable models.                            *)
(*                                                                         *)
(* A fault handler runs in the faulting thread (it is a SIGSEGV handler)   *)
(* and other threads run between its steps, so each access it makes to     *)
(* shared state (a page table entry, a frame, the store) is one step.      *)
(***************************************************************************)

EXTENDS Naturals

CONSTANTS Thread, Page, Value,   \* as in Memory; pages are numbered from 0
          Frame,        \* frames of the physical memory
          Main,         \* the thread that runs alone until register_vmem_threads
          FramesOf,     \* thread -> its frames [startFrame, endFrame)
          PagesOf       \* thread -> the pages it accesses

Worker == Thread \ {Main}

\* Workers run with caches of their own on pages of their own
\* (init_vmem_thread; wc_program_threads splits the data at page boundaries).
ASSUME PagingAssumption ==
    /\ Main \in Thread
    /\ 0 \in Page /\ 0 \in Frame /\ 0 \in Value
    /\ FramesOf \in [Thread -> SUBSET Frame]
    /\ PagesOf \in [Thread -> SUBSET Page]
    /\ \A t, u \in Worker : t # u => /\ FramesOf[t] \cap FramesOf[u] = {}
                                     /\ PagesOf[t] \cap PagesOf[u] = {}

VARIABLES op, addr, reg,  \* the instruction each thread executes, as in Memory
          pageBits,       \* pt->page_bits: protection of each page
          pageMapping,    \* pt->page_mapping: the frame behind each page
          physmem,        \* contents of the frames
          store,          \* contents of the backing store (mem, disk, rmem, rrmem)
          pc,             \* where each thread is: running, or inside the handler
          frame,          \* the handler's local: the frame it fills
          tempPage,       \* the handler's local: the page it evicts
          phase           \* "single", "flush" (register_vmem_threads), "threads", "exit"

progVars == <<op, addr, reg>>
ptVars == <<pageBits, pageMapping>>
handlerVars == <<frame, tempPage>>
vars == <<op, addr, reg, pageBits, pageMapping, physmem, store,
          pc, frame, tempPage, phase>>

PC == {"new", "run", "mapFirst", "readFirst", "write", "read", "map", "unmap"}
Bits == {"NONE", "READ", "RW"}

Resident(p) == pageBits[p] # "NONE"

Init ==
    /\ op = [t \in Thread |-> "idle"]
    /\ addr = [t \in Thread |-> 0]
    /\ reg = [t \in Thread |-> 0]
    /\ pageBits = [p \in Page |-> "NONE"]
    /\ pageMapping = [p \in Page |-> 0]
    /\ physmem = [f \in Frame |-> 0]
    /\ store \in [Page -> Value]
    /\ pc = [t \in Thread |-> IF t = Main THEN "run" ELSE "new"]
    /\ frame = [t \in Thread |-> 0]
    /\ tempPage = [t \in Thread |-> 0]
    /\ phase = "single"

\* Main may run before register_vmem_threads, a worker after it.
MayRun(t) == pc[t] = "run" /\ phase = (IF t = Main THEN "single" ELSE "threads")

\* init_vmem_thread
InitThread(t) ==
    /\ pc[t] = "new" /\ phase = "threads"
    /\ pc' = [pc EXCEPT ![t] = "run"]
    /\ UNCHANGED <<progVars, ptVars, physmem, store, handlerVars, phase>>

Issue(t) ==
    /\ MayRun(t) /\ op[t] = "idle"
    /\ \E p \in PagesOf[t] : addr' = [addr EXCEPT ![t] = p]
    /\ \/ op' = [op EXCEPT ![t] = "load"] /\ reg' = [reg EXCEPT ![t] = 0]
       \/ \E v \in Value : /\ op' = [op EXCEPT ![t] = "store"]
                           /\ reg' = [reg EXCEPT ![t] = v]
    /\ UNCHANGED <<ptVars, physmem, store, pc, handlerVars, phase>>

\* The instruction is over.
Done(t) ==
    /\ op' = [op EXCEPT ![t] = "idle"]
    /\ addr' = [addr EXCEPT ![t] = 0]

\* The instruction finds the page mapped with the protection it needs.
Load(t) ==
    /\ MayRun(t) /\ op[t] = "load" /\ Resident(addr[t])
    /\ reg' = [reg EXCEPT ![t] = physmem[pageMapping[addr[t]]]]
    /\ Done(t)
    /\ UNCHANGED <<ptVars, physmem, store, pc, handlerVars, phase>>

\* Mutant: a page mapped read-only can be written.
StoreAnyPage(t) ==
    /\ MayRun(t) /\ op[t] = "store" /\ Resident(addr[t])
    /\ physmem' = [physmem EXCEPT ![pageMapping[addr[t]]] = reg[t]]
    /\ reg' = [reg EXCEPT ![t] = 0]
    /\ Done(t)
    /\ UNCHANGED <<ptVars, store, pc, handlerVars, phase>>

Store(t) ==
    /\ MayRun(t) /\ op[t] = "store" /\ pageBits[addr[t]] = "RW"
    /\ physmem' = [physmem EXCEPT ![pageMapping[addr[t]]] = reg[t]]
    /\ reg' = [reg EXCEPT ![t] = 0]
    /\ Done(t)
    /\ UNCHANGED <<ptVars, store, pc, handlerVars, phase>>

\* Mutant: the frame may be in use.
FaultAnyFrame(t) ==
    /\ MayRun(t) /\ op[t] # "idle" /\ ~Resident(addr[t])
    /\ \E f \in FramesOf[t] : frame' = [frame EXCEPT ![t] = f]
    /\ pc' = [pc EXCEPT ![t] = "mapFirst"]
    /\ UNCHANGED <<progVars, ptVars, physmem, store, tempPage, phase>>

\* The fault finds an unused frame of the thread ...
FaultFree(t) ==
    /\ MayRun(t) /\ op[t] # "idle" /\ ~Resident(addr[t])
    /\ \E f \in FramesOf[t] :
          /\ \A p \in Page : Resident(p) => pageMapping[p] # f
          /\ frame' = [frame EXCEPT ![t] = f]
    /\ pc' = [pc EXCEPT ![t] = "mapFirst"]
    /\ UNCHANGED <<progVars, ptVars, physmem, store, tempPage, phase>>

\* ... maps the page to it, and only then fetches the contents.
MapFirst(t) ==
    /\ pc[t] = "mapFirst"
    /\ pageMapping' = [pageMapping EXCEPT ![addr[t]] = frame[t]]
    /\ pageBits' = [pageBits EXCEPT ![addr[t]] = "READ"]
    /\ pc' = [pc EXCEPT ![t] = "readFirst"]
    /\ UNCHANGED <<progVars, physmem, store, handlerVars, phase>>

\* The handler returns: its locals are gone.
Return(t) ==
    /\ frame' = [frame EXCEPT ![t] = 0]
    /\ tempPage' = [tempPage EXCEPT ![t] = 0]

ReadFirst(t) ==
    /\ pc[t] = "readFirst"
    /\ physmem' = [physmem EXCEPT ![frame[t]] = store[addr[t]]]
    /\ pc' = [pc EXCEPT ![t] = "run"]
    /\ Return(t)
    /\ UNCHANGED <<progVars, ptVars, store, phase>>

\* Mutant: the evicted page is not written back.
FaultEvictNoWriteBack(t) ==
    /\ MayRun(t) /\ op[t] # "idle" /\ ~Resident(addr[t])
    /\ \E v \in Page :
          /\ Resident(v) /\ pageMapping[v] \in FramesOf[t]
          /\ tempPage' = [tempPage EXCEPT ![t] = v]
          /\ frame' = [frame EXCEPT ![t] = pageMapping[v]]
          /\ pc' = [pc EXCEPT ![t] = "read"]
    /\ UNCHANGED <<progVars, ptVars, physmem, store, phase>>

\* Or it evicts a page that is in one of the thread's frames,
FaultEvict(t) ==
    /\ MayRun(t) /\ op[t] # "idle" /\ ~Resident(addr[t])
    /\ \E v \in Page :
          /\ Resident(v) /\ pageMapping[v] \in FramesOf[t]
          /\ tempPage' = [tempPage EXCEPT ![t] = v]
          /\ frame' = [frame EXCEPT ![t] = pageMapping[v]]
          /\ pc' = [pc EXCEPT ![t] = IF pageBits[v] = "RW" THEN "write" ELSE "read"]
    /\ UNCHANGED <<progVars, ptVars, physmem, store, phase>>

\* writing it back first if it has been written,
WriteBack(t) ==
    /\ pc[t] = "write"
    /\ store' = [store EXCEPT ![tempPage[t]] = physmem[frame[t]]]
    /\ pc' = [pc EXCEPT ![t] = "read"]
    /\ UNCHANGED <<progVars, ptVars, physmem, handlerVars, phase>>

\* fetching the new page over it while it is still mapped,
ReadIn(t) ==
    /\ pc[t] = "read"
    /\ physmem' = [physmem EXCEPT ![frame[t]] = store[addr[t]]]
    /\ pc' = [pc EXCEPT ![t] = "map"]
    /\ UNCHANGED <<progVars, ptVars, store, handlerVars, phase>>

\* mapping the new page, and last unmapping the old one.
Map(t) ==
    /\ pc[t] = "map"
    /\ pageMapping' = [pageMapping EXCEPT ![addr[t]] = frame[t]]
    /\ pageBits' = [pageBits EXCEPT ![addr[t]] = "READ"]
    /\ pc' = [pc EXCEPT ![t] = "unmap"]
    /\ UNCHANGED <<progVars, physmem, store, handlerVars, phase>>

Unmap(t) ==
    /\ pc[t] = "unmap"
    /\ pageMapping' = [pageMapping EXCEPT ![tempPage[t]] = frame[t]]
    /\ pageBits' = [pageBits EXCEPT ![tempPage[t]] = "NONE"]
    /\ pc' = [pc EXCEPT ![t] = "run"]
    /\ Return(t)
    /\ UNCHANGED <<progVars, physmem, store, phase>>

\* A store to a page mapped read-only makes it writable: the page is now dirty.
FaultUpgrade(t) ==
    /\ MayRun(t) /\ op[t] = "store" /\ pageBits[addr[t]] = "READ"
    /\ pageBits' = [pageBits EXCEPT ![addr[t]] = "RW"]
    /\ UNCHANGED <<progVars, pageMapping, physmem, store, pc, handlerVars, phase>>

\* register_vmem_threads: page_table_flush writes back and unmaps every page,
StartFlush ==
    /\ MayRun(Main) /\ op[Main] = "idle"
    /\ phase' = "flush"
    /\ UNCHANGED <<progVars, ptVars, physmem, store, pc, handlerVars>>

FlushPage(p) ==
    /\ phase = "flush" /\ Resident(p)
    /\ store' = [store EXCEPT ![p] = IF pageBits[p] = "RW"
                                     THEN physmem[pageMapping[p]] ELSE @]
    /\ pageBits' = [pageBits EXCEPT ![p] = "NONE"]
    /\ UNCHANGED <<progVars, pageMapping, physmem, pc, handlerVars, phase>>

\* and then the workers may start, unless their caches together are larger
\* than the virtual memory.
EndFlush ==
    /\ phase = "flush" /\ \A p \in Page : ~Resident(p)
    /\ phase' \in {"threads", "exit"}
    /\ UNCHANGED <<progVars, ptVars, physmem, store, pc, handlerVars>>

\* clean_page_table at the end of the program: nothing is written back.
Clean ==
    /\ phase \in {"single", "threads"}
    /\ \A t \in Thread : op[t] = "idle" /\ pc[t] \in {"new", "run"}
    /\ phase' = "exit"
    /\ UNCHANGED <<progVars, ptVars, physmem, store, pc, handlerVars>>

Program(t) == Issue(t) \/ Load(t) \/ Store(t)
FaultHandler(t) ==
    \/ FaultFree(t) \/ MapFirst(t) \/ ReadFirst(t)
    \/ FaultEvict(t) \/ WriteBack(t) \/ ReadIn(t) \/ Map(t) \/ Unmap(t)
    \/ FaultUpgrade(t)

Next ==
    \/ \E t \in Thread : InitThread(t) \/ Program(t) \/ FaultHandler(t)
    \/ StartFlush
    \/ \E p \in Page : FlushPage(p)
    \/ EndFlush
    \/ Clean

Spec == Init /\ [][Next]_vars
-----------------------------------------------------------------------------
TypeOK ==
    /\ op \in [Thread -> {"idle", "load", "store"}]
    /\ addr \in [Thread -> Page]
    /\ reg \in [Thread -> Value]
    /\ pageBits \in [Page -> Bits]
    /\ pageMapping \in [Page -> Frame]
    /\ physmem \in [Frame -> Value]
    /\ store \in [Page -> Value]
    /\ pc \in [Thread -> PC]
    /\ frame \in [Thread -> Frame]
    /\ tempPage \in [Thread -> Page]
    /\ phase \in {"single", "flush", "threads", "exit"}

\* The thread's handler has overwritten the frame of p, or not filled it yet:
\* the store, not the frame, holds what p contains.
InFlight(t, p) ==
    \/ pc[t] = "readFirst" /\ addr[t] = p
    \/ pc[t] \in {"map", "unmap"} /\ tempPage[t] = p

\* What the program's virtual memory contains.
VirtualMem ==
    [p \in Page |-> IF Resident(p) /\ \A t \in Thread : ~InFlight(t, p)
                    THEN physmem[pageMapping[p]] ELSE store[p]]

Virtual == INSTANCE Memory WITH mem <- VirtualMem

\* Whatever the faults, evictions and the flush do, every load returns what
\* was last stored to its page (page_table_get_virtmem's memory is memory).
ImplementsMemory == Virtual!Spec

\* Two resident pages share a frame only while a handler is between mapping
\* the new page and unmapping the old one (page_table_set_entry twice).
FramesNotShared ==
    \A p, q \in Page :
        Resident(p) /\ Resident(q) /\ p # q /\ pageMapping[p] = pageMapping[q]
        => \E t \in Thread : pc[t] = "unmap" /\ {p, q} = {addr[t], tempPage[t]}

\* A page that is mapped read-only can be dropped without writing it back
\* (the handlers call writeData only when bits == PROT_READ|PROT_WRITE).
CleanPagesMatchStore ==
    \A p \in Page :
        pageBits[p] = "READ" /\ (\A t \in Thread : ~InFlight(t, p))
        => physmem[pageMapping[p]] = store[p]
=============================================================================
