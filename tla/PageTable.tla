----------------------------- MODULE PageTable -----------------------------
(***************************************************************************)
(* lib/vmem/page_table.c: the page fault handlers of the five replacement  *)
(* policies, with the lists, hash table and frame tables they decide with, *)
(* page_table_flush and the hand-over from the main thread to the workers. *)
(*                                                                         *)
(* The variables shared with DemandPaging have the same meaning there; a   *)
(* handler advances in the same steps.  The linked lists are sequences,    *)
(* head first.                                                             *)
(***************************************************************************)
EXTENDS Naturals, SequencesExt

CONSTANTS NPages, NFrames,   \* pt->npages and pt->nframes (per thread)
          NThreads,          \* NUM_THREADS: workers of register_vmem_threads
          BlockSize,         \* BLOCK_SIZE, the size of a page
          FileSize,          \* bytes of data that wc_program_threads splits
          Value,             \* contents of a page
          Policies           \* the values of replacementPolicy considered

Page == 0 .. NPages - 1
Worker == 0 .. NThreads - 1
Main == NThreads
Thread == Worker \cup {Main}
Frame == 0 .. NFrames * NThreads - 1

\* Mutant: init_vmem_thread does not set startFrame.
StartAtZero(t) == 0

\* startFrame and endFrame
Start(t) == IF t = Main THEN 0 ELSE t * NFrames
FrameRange(t) == Start(t) .. Start(t) + NFrames - 1

\* wc_program_threads: a page-aligned share of the data for each worker.
Split ==
    LET share == FileSize \div NThreads
    IN  share + (BlockSize - (share % BlockSize))
PagesOf ==
    [t \in Thread |->
        IF t = Main THEN Page
        ELSE {b \div BlockSize : b \in Split * t ..
                 (IF t = NThreads - 1 THEN FileSize ELSE Split * (t + 1)) - 1}]

\* useCount of a freqListNode is at most this in the model
MaxUse == 2

ASSUME PageTableAssumption ==
    /\ {NPages, NFrames, NThreads, BlockSize} \subseteq Nat \ {0}
    /\ FileSize \in Nat /\ 0 \in Value
    /\ Policies \subseteq {"FIFO", "LRU", "LFU", "RAND", "FFIFO"}
    /\ \A t \in Thread : PagesOf[t] \subseteq Page

VARIABLES op, addr, reg, pageBits, pageMapping, physmem, store,
          pc, frame, tempPage, phase,
          replacementPolicy,
          local,            \* the __thread variables of each thread: dllList,
                            \* freqList, hashTable and count
          frameState,       \* FIFO: age of the page in a frame, 0 if none
          framePage,        \* FIFO: the page in a frame
          flushed,          \* loop counter of page_table_flush under FIFO
          loaded            \* history: pages of each thread, oldest load first

progVars == <<op, addr, reg>>
fifoVars == <<frameState, framePage>>
handlerVars == <<frame, tempPage>>
vars == <<op, addr, reg, pageBits, pageMapping, physmem, store, pc, frame,
          tempPage, phase, replacementPolicy, local, frameState, framePage,
          flushed, loaded>>

HasDllList == replacementPolicy \in {"LRU", "FFIFO"}
HasPolicy(name) == replacementPolicy = name
-----------------------------------------------------------------------------
(* The per-thread lists.  r is the record local[t].                        *)

EmptyLocal ==
    [dllList |-> <<>>, freqList |-> [u \in 0 .. MaxUse |-> <<>>],
     hashTable |-> [i \in 0 .. NFrames - 1 |-> <<>>], count |-> 0]

hashFunction(p) == p % NFrames
insertHashNode(r, p) == [r EXCEPT !.hashTable[hashFunction(p)] = <<p>> \o @]
\* Mutant: deleteHashNode only looks at the bucket.
DeleteNothing(r, p) == r

deleteHashNode(r, p) == [r EXCEPT !.hashTable[hashFunction(p)] = RemoveFirst(@, p)]
InHash(r, p) == Contains(r.hashTable[hashFunction(p)], p)

createdllListNode(r, p) == [r EXCEPT !.dllList = <<p>> \o @]
moveListNodeToFront(r, p) == [r EXCEPT !.dllList = <<p>> \o RemoveFirst(@, p)]
deletedllListNode(r, p) == [r EXCEPT !.dllList = RemoveFirst(@, p)]

createlfuListNode(r, p) == [r EXCEPT !.freqList[0] = <<p>> \o @]
UseCount(r, p) == CHOOSE u \in 0 .. MaxUse : Contains(r.freqList[u], p)
\* Mutant: the use count is never increased.
StayAtFreq(r, p) == r

moveNodeToNextFreq(r, p) ==
    LET u == UseCount(r, p)
    IN  [r EXCEPT !.freqList[u] = RemoveFirst(@, p), !.freqList[u + 1] = <<p>> \o @]
deletelfuListNode(r, p) == [r EXCEPT !.freqList[UseCount(r, p)] = RemoveFirst(@, p)]

\* freqList->count and freqList->head
LfuCount(r) == Len(r.freqList[0]) + Len(r.freqList[1]) + Len(r.freqList[2])
LfuHead(r) == r.freqList[CHOOSE u \in 0 .. MaxUse :
                 r.freqList[u] # <<>> /\ \A w \in 0 .. u - 1 : r.freqList[w] = <<>>]

\* What a handler does to the lists when a page gets a frame ...
Insert(r, p) ==
    CASE HasDllList       -> insertHashNode(createdllListNode(r, p), p)
      [] HasPolicy("LFU")  -> insertHashNode(createlfuListNode(r, p), p)
      [] HasPolicy("RAND") -> insertHashNode(r, p)
      [] OTHER             -> r

\* ... when it picks the page to evict (deleteLRU, deleteLFU) ...
Delete(r, p) ==
    CASE HasDllList      -> deletedllListNode(deleteHashNode(r, p), p)
      [] HasPolicy("LFU") -> deletelfuListNode(deleteHashNode(r, p), p)
      [] OTHER            -> r

\* Mutant: FFIFO also moves the page to the front.
TouchFront(r, p) ==
    CASE HasDllList        -> moveListNodeToFront(r, p)
      [] HasPolicy("LFU")  -> moveNodeToNextFreq(r, p)
      [] OTHER             -> r

\* ... and when the page that is written is already there.
Touch(r, p) ==
    CASE HasPolicy("LRU") -> moveListNodeToFront(r, p)
      [] HasPolicy("LFU") -> moveNodeToNextFreq(r, p)
      [] OTHER            -> r

NonEmptyBuckets(r) == {i \in 0 .. NFrames - 1 : r.hashTable[i] # <<>>}

\* FIFO: one more fault has gone by for every page of the thread.
Aged(t) == [f \in Frame |-> IF f \in FrameRange(t) /\ frameState[f] # 0
                            THEN frameState[f] + 1 ELSE frameState[f]]

\* The test for a free frame, and the frame.
HasFreeFrame(t) ==
    CASE HasDllList       -> Len(local[t].dllList) < NFrames
      [] HasPolicy("LFU")  -> LfuCount(local[t]) < NFrames
      [] HasPolicy("RAND") -> local[t].count < NFrames
      [] HasPolicy("FIFO") -> \E f \in FrameRange(t) : frameState[f] = 0

FreeFrame(t) ==
    CASE HasDllList       -> Start(t) + Len(local[t].dllList)
      [] HasPolicy("LFU")  -> Start(t) + LfuCount(local[t])
      [] HasPolicy("RAND") -> Start(t) + local[t].count
      [] HasPolicy("FIFO") -> Min({f \in FrameRange(t) : frameState[f] = 0})

\* The frame with the largest age; the first one of several.
OldestFrame(t) ==
    Min({f \in FrameRange(t) : \A g \in FrameRange(t) : frameState[g] <= frameState[f]})

\* The pages the policy may evict: RAND starts at a random bucket and takes
\* the head of the first non-empty one, the others have no choice.
Victims(t) ==
    CASE HasDllList       -> {Last(local[t].dllList)}
      [] HasPolicy("LFU")  -> {Last(LfuHead(local[t]))}
      [] HasPolicy("RAND") -> {Head(local[t].hashTable[i]) : i \in NonEmptyBuckets(local[t])}
      [] HasPolicy("FIFO") -> {framePage[OldestFrame(t)]}
-----------------------------------------------------------------------------
Resident(p) == pageBits[p] # "NONE"

Init ==
    /\ op = [t \in Thread |-> "idle"]
    /\ addr = [t \in Thread |-> 0]
    /\ reg = [t \in Thread |-> 0]
    /\ pageBits = [p \in Page |-> "NONE"]
    /\ pageMapping = [p \in Page |-> 0]
    /\ physmem = [f \in Frame |-> 0]
    /\ store \in [Page -> Value]
    /\ pc = [t \in Thread |-> IF t = Main THEN "run" ELSE "new"]
    /\ frame = [t \in Thread |-> 0]
    /\ tempPage = [t \in Thread |-> 0]
    /\ phase = "single"
    /\ replacementPolicy \in Policies
    /\ local = [t \in Thread |-> EmptyLocal]
    /\ frameState = [f \in Frame |-> 0]
    /\ framePage = [f \in Frame |-> 0]
    /\ flushed = 0
    /\ loaded = [t \in Thread |-> <<>>]

MayRun(t) == pc[t] = "run" /\ phase = (IF t = Main THEN "single" ELSE "threads")

\* page_table_set_entry, called by thread t, which goes on at next.
SetEntry(t, p, f, b, next) ==
    IF f \in FrameRange(t)
    THEN /\ pageMapping' = [pageMapping EXCEPT ![p] = f]
         /\ pageBits' = [pageBits EXCEPT ![p] = b]
         /\ pc' = [pc EXCEPT ![t] = next]
    ELSE /\ pc' = [pc EXCEPT ![t] = "abort"]
         /\ UNCHANGED <<pageMapping, pageBits>>

InitThread(t) ==
    /\ pc[t] = "new" /\ phase = "threads"
    /\ pc' = [pc EXCEPT ![t] = "run"]
    /\ local' = [local EXCEPT ![t] = EmptyLocal]
    /\ UNCHANGED <<progVars, pageBits, pageMapping, physmem, store, handlerVars,
                   phase, replacementPolicy, fifoVars, flushed, loaded>>

\* The program: an instruction that reads or writes a page, and its
\* execution once the page is mapped with the protection it needs.
Issue(t) ==
    /\ MayRun(t) /\ op[t] = "idle"
    /\ \E p \in PagesOf[t] : addr' = [addr EXCEPT ![t] = p]
    /\ \/ op' = [op EXCEPT ![t] = "load"] /\ reg' = [reg EXCEPT ![t] = 0]
       \/ \E v \in Value : /\ op' = [op EXCEPT ![t] = "store"]
                           /\ reg' = [reg EXCEPT ![t] = v]
    /\ UNCHANGED <<pageBits, pageMapping, physmem, store, pc, handlerVars, phase,
                   replacementPolicy, local, fifoVars, flushed, loaded>>

\* The instruction is over.
Done(t) ==
    /\ op' = [op EXCEPT ![t] = "idle"]
    /\ addr' = [addr EXCEPT ![t] = 0]

Load(t) ==
    /\ MayRun(t) /\ op[t] = "load" /\ Resident(addr[t])
    /\ reg' = [reg EXCEPT ![t] = physmem[pageMapping[addr[t]]]]
    /\ Done(t)
    /\ UNCHANGED <<pageBits, pageMapping, physmem, store, pc, handlerVars,
                   phase, replacementPolicy, local, fifoVars, flushed, loaded>>

Store(t) ==
    /\ MayRun(t) /\ op[t] = "store" /\ pageBits[addr[t]] = "RW"
    /\ physmem' = [physmem EXCEPT ![pageMapping[addr[t]]] = reg[t]]
    /\ reg' = [reg EXCEPT ![t] = 0]
    /\ Done(t)
    /\ UNCHANGED <<pageBits, pageMapping, store, pc, handlerVars, phase,
                   replacementPolicy, local, fifoVars, flushed, loaded>>

\* The page is not in memory and a frame is free.
FaultFree(t) ==
    /\ MayRun(t) /\ op[t] # "idle" /\ ~Resident(addr[t]) /\ HasFreeFrame(t)
    /\ LET f == FreeFrame(t)
       IN  /\ frame' = [frame EXCEPT ![t] = f]
           /\ IF HasPolicy("FIFO")
              THEN /\ frameState' = [Aged(t) EXCEPT ![f] = 1]
                   /\ framePage' = [framePage EXCEPT ![f] = addr[t]]
              ELSE UNCHANGED fifoVars
    /\ local' = [local EXCEPT ![t] = Insert(@, addr[t])]
    /\ loaded' = [loaded EXCEPT ![t] = Append(@, addr[t])]
    /\ pc' = [pc EXCEPT ![t] = "mapFirst"]
    /\ UNCHANGED <<progVars, pageBits, pageMapping, physmem, store, tempPage, phase,
                   replacementPolicy, flushed>>

MapFirst(t) ==
    /\ pc[t] = "mapFirst"
    /\ SetEntry(t, addr[t], frame[t], "READ", "readFirst")
    /\ UNCHANGED <<progVars, physmem, store, handlerVars, phase,
                   replacementPolicy, local, fifoVars, flushed, loaded>>

\* The handler returns: its locals are gone.
Return(t) ==
    /\ frame' = [frame EXCEPT ![t] = 0]
    /\ tempPage' = [tempPage EXCEPT ![t] = 0]

ReadFirst(t) ==
    /\ pc[t] = "readFirst"
    /\ physmem' = [physmem EXCEPT ![frame[t]] = store[addr[t]]]
    /\ local' = [local EXCEPT ![t].count = IF HasPolicy("RAND") THEN @ + 1 ELSE @]
    /\ pc' = [pc EXCEPT ![t] = "run"]
    /\ Return(t)
    /\ UNCHANGED <<progVars, pageBits, pageMapping, store, phase,
                   replacementPolicy, fifoVars, flushed, loaded>>

\* No frame is free: pick a victim and, if it is dirty, write it back first.
FaultEvict(t) ==
    /\ MayRun(t) /\ op[t] # "idle" /\ ~Resident(addr[t]) /\ ~HasFreeFrame(t)
    /\ \E v \in Victims(t) :
          /\ tempPage' = [tempPage EXCEPT ![t] = v]
          /\ frame' = [frame EXCEPT ![t] = pageMapping[v]]
          /\ local' = [local EXCEPT ![t] = Delete(@, v)]
          /\ loaded' = [loaded EXCEPT ![t] = Remove(@, v)]
          /\ pc' = [pc EXCEPT ![t] = IF pageBits[v] = "RW" THEN "write" ELSE "read"]
    /\ frameState' = Aged(t)
    /\ UNCHANGED <<progVars, pageBits, pageMapping, physmem, store, phase,
                   replacementPolicy, framePage, flushed>>

WriteBack(t) ==
    /\ pc[t] = "write"
    /\ store' = [store EXCEPT ![tempPage[t]] = physmem[frame[t]]]
    /\ pc' = [pc EXCEPT ![t] = "read"]
    /\ UNCHANGED <<progVars, pageBits, pageMapping, physmem, handlerVars, phase,
                   replacementPolicy, local, fifoVars, flushed, loaded>>

ReadIn(t) ==
    /\ pc[t] = "read"
    /\ physmem' = [physmem EXCEPT ![frame[t]] = store[addr[t]]]
    /\ pc' = [pc EXCEPT ![t] = "map"]
    /\ UNCHANGED <<progVars, pageBits, pageMapping, store, handlerVars, phase,
                   replacementPolicy, local, fifoVars, flushed, loaded>>

Map(t) ==
    /\ pc[t] = "map"
    /\ SetEntry(t, addr[t], frame[t], "READ", "unmap")
    /\ UNCHANGED <<progVars, physmem, store, handlerVars, phase,
                   replacementPolicy, local, fifoVars, flushed, loaded>>

\* Unmap the victim, then enter the new page into the lists.
Unmap(t) ==
    /\ pc[t] = "unmap"
    /\ SetEntry(t, tempPage[t], frame[t], "NONE", "run")
    /\ local' = [local EXCEPT ![t] =
          Insert(IF HasPolicy("RAND") THEN deleteHashNode(@, tempPage[t]) ELSE @, addr[t])]
    /\ IF HasPolicy("FIFO")
       THEN /\ frameState' = [frameState EXCEPT ![frame[t]] = 1]
            /\ framePage' = [framePage EXCEPT ![frame[t]] = addr[t]]
       ELSE UNCHANGED fifoVars
    /\ loaded' = [loaded EXCEPT ![t] = Append(@, addr[t])]
    /\ Return(t)
    /\ UNCHANGED <<progVars, physmem, store, phase, replacementPolicy, flushed>>

\* Mutant: the page is mapped as it was.
FaultUpgradeRead(t) ==
    /\ MayRun(t) /\ op[t] = "store" /\ pageBits[addr[t]] = "READ"
    /\ UNCHANGED vars

\* A store to a page mapped read-only.  getHashNode dereferences NULL when
\* the page is not in this thread's hash table.
FaultUpgrade(t) ==
    /\ MayRun(t) /\ op[t] = "store" /\ pageBits[addr[t]] = "READ"
    /\ IF replacementPolicy \in {"LRU", "LFU"} /\ ~InHash(local[t], addr[t])
       THEN /\ pc' = [pc EXCEPT ![t] = "abort"]
            /\ UNCHANGED <<local, pageBits, pageMapping>>
       ELSE /\ local' = [local EXCEPT ![t] = Touch(@, addr[t])]
            /\ SetEntry(t, addr[t], pageMapping[addr[t]], "RW", "run")
    /\ IF HasPolicy("FIFO")
       THEN /\ frameState' = [Aged(t) EXCEPT ![pageMapping[addr[t]]] = 1]
            /\ framePage' = [framePage EXCEPT ![pageMapping[addr[t]]] = addr[t]]
       ELSE UNCHANGED fifoVars
    /\ UNCHANGED <<progVars, physmem, store, handlerVars, phase,
                   replacementPolicy, flushed, loaded>>

\* register_vmem_threads, called by the main thread
StartFlush ==
    /\ MayRun(Main) /\ op[Main] = "idle"
    /\ phase' = "flush"
    /\ UNCHANGED <<progVars, pageBits, pageMapping, physmem, store, pc, handlerVars,
                   replacementPolicy, local, fifoVars, flushed, loaded>>

\* page_table_flush: is an iteration left, and the page it is about.
FlushLeft ==
    CASE HasDllList       -> local[Main].dllList # <<>>
      [] HasPolicy("LFU")  -> LfuCount(local[Main]) > 0
      [] HasPolicy("RAND") -> NonEmptyBuckets(local[Main]) # {}
      [] HasPolicy("FIFO") -> flushed < NFrames

FlushVictim ==
    CASE HasDllList       -> Last(local[Main].dllList)
      [] HasPolicy("LFU")  -> Last(LfuHead(local[Main]))
      [] HasPolicy("RAND") -> Head(local[Main].hashTable[Min(NonEmptyBuckets(local[Main]))])
      [] HasPolicy("FIFO") -> framePage[flushed]

FlushStep ==
    /\ phase = "flush" /\ pc[Main] = "run" /\ FlushLeft
    /\ LET v == FlushVictim
           f == pageMapping[v]
       IN  /\ store' = [store EXCEPT ![v] = IF pageBits[v] = "RW" THEN physmem[f] ELSE @]
           /\ SetEntry(Main, v, f, "NONE", "run")
           /\ local' = [local EXCEPT ![Main] =
                 IF HasPolicy("RAND") THEN deleteHashNode(@, v) ELSE Delete(@, v)]
           /\ IF HasPolicy("FIFO")
              THEN /\ frameState' = [frameState EXCEPT ![f] = 0]
                   /\ flushed' = flushed + 1
              ELSE UNCHANGED <<frameState, flushed>>
           /\ loaded' = [loaded EXCEPT ![Main] = Remove(@, v)]
    /\ UNCHANGED <<progVars, physmem, handlerVars, phase, replacementPolicy, framePage>>

\* The frame tables of FIFO are cleared for the workers, the others start
\* with lists of their own.
EndFlush ==
    /\ phase = "flush" /\ pc[Main] = "run" /\ ~FlushLeft
    /\ IF NFrames * NThreads > NPages
       THEN phase' = "exit" /\ UNCHANGED fifoVars
       ELSE /\ phase' = "threads"
            /\ frameState' = [f \in Frame |-> 0]
            /\ framePage' = [f \in Frame |-> 0]
    /\ UNCHANGED <<progVars, pageBits, pageMapping, physmem, store, pc, handlerVars,
                   replacementPolicy, local, flushed, loaded>>

\* clean_page_table, by the main thread when the program is done: the lists
\* of the main thread are emptied, no page is written back.
Clean ==
    /\ phase \in {"single", "threads"}
    /\ \A t \in Thread : op[t] = "idle" /\ pc[t] \in {"new", "run"}
    /\ phase' = "exit"
    /\ local' = [local EXCEPT ![Main] = [EmptyLocal EXCEPT !.count = local[Main].count]]
    /\ UNCHANGED <<progVars, pageBits, pageMapping, physmem, store, pc, handlerVars,
                   replacementPolicy, fifoVars, flushed, loaded>>

Execute(t) ==
    \/ Load(t) \/ Store(t)
    \/ FaultFree(t) \/ MapFirst(t) \/ ReadFirst(t)
    \/ FaultEvict(t) \/ WriteBack(t) \/ ReadIn(t) \/ Map(t) \/ Unmap(t)
    \/ FaultUpgrade(t)

Next ==
    \/ \E t \in Thread : InitThread(t) \/ Issue(t) \/ Execute(t)
    \/ StartFlush \/ FlushStep \/ EndFlush
    \/ Clean

Spec == Init /\ [][Next]_vars

\* A thread that is executing an instruction goes on: nothing in a handler
\* waits for another thread, and the scheduler is fair.
FairSpec ==
    /\ Spec
    /\ \A t \in Thread : WF_vars(Execute(t))
    /\ WF_vars(FlushStep \/ EndFlush)
-----------------------------------------------------------------------------
PC == {"new", "run", "mapFirst", "readFirst", "write", "read", "map", "unmap"}

TypeOK ==
    /\ op \in [Thread -> {"idle", "load", "store"}]
    /\ addr \in [Thread -> Page] /\ reg \in [Thread -> Value]
    /\ pageBits \in [Page -> {"NONE", "READ", "RW"}]
    /\ pageMapping \in [Page -> Frame]
    /\ physmem \in [Frame -> Value] /\ store \in [Page -> Value]
    /\ pc \in [Thread -> PC \cup {"abort"}]
    /\ frame \in [Thread -> Frame] /\ tempPage \in [Thread -> Page]
    /\ phase \in {"single", "flush", "threads", "exit"}
    /\ replacementPolicy \in Policies
    /\ \A t \in Thread : /\ local[t].dllList \in Seq(Page) /\ loaded[t] \in Seq(Page)
                         /\ \A u \in 0 .. MaxUse : local[t].freqList[u] \in Seq(Page)
                         /\ \A i \in 0 .. NFrames - 1 : local[t].hashTable[i] \in Seq(Page)
                         /\ local[t].count \in 0 .. NFrames
    /\ frameState \in [Frame -> Nat] /\ framePage \in [Frame -> Page]
    /\ flushed \in 0 .. NFrames

DP == INSTANCE DemandPaging WITH FramesOf <- [t \in Thread |-> FrameRange(t)]

\* Under every policy the handlers only ever fill frames of their own that
\* hold no page and only evict pages of their own, the flush reaches every
\* page, and page_table_set_entry never aborts.
ImplementsDemandPaging == DP!Spec

\* The pages a thread has in its frames, and those its lists say it has.
ResidentOf(t) == {p \in Page : Resident(p) /\ pageMapping[p] \in FrameRange(t)}
Hashed(t) == [i \in 0 .. NFrames - 1 |-> ToSet(local[t].hashTable[i])]
Listed(t) ==
    IF HasPolicy("FIFO")
    THEN {framePage[f] : f \in {g \in FrameRange(t) : frameState[g] # 0}}
    ELSE CASE HasDllList      -> ToSet(local[t].dllList)
           [] HasPolicy("LFU") -> UNION {ToSet(local[t].freqList[u]) : u \in 0 .. MaxUse}
           [] OTHER            -> UNION {Hashed(t)[i] : i \in 0 .. NFrames - 1}

\* Outside its handler, a thread's replacement lists, its hash table and (for
\* RAND) its count say exactly which pages are in its frames: a page they
\* forgot would never be evicted or flushed, one too many aborts the program.
\* The ages FIFO keeps as ints stay below twice the number of frames, however
\* long the program runs: they never overflow.
ListsMatchPageTable ==
    /\ TypeOK
    /\ \A f \in Frame : frameState[f] <= 2 * NFrames
    /\ \A t \in Thread : MayRun(t) =>
          /\ Listed(t) = ResidentOf(t)
          /\ ~HasPolicy("FIFO") =>
                \A i \in 0 .. NFrames - 1 :
                   /\ Hashed(t)[i] = {p \in ResidentOf(t) : hashFunction(p) = i}
                   /\ Len(local[t].hashTable[i]) = Cardinality(Hashed(t)[i])
          /\ HasPolicy("RAND") => local[t].count = Cardinality(ResidentOf(t))

\* Thread t has picked a page to evict.
Evicts(t) == pc[t] = "run" /\ pc'[t] \in {"write", "read"}

\* LFU counts faults, and a page in memory faults at most once more, when it
\* is first written: a dirty page is evicted only when all others are dirty too.
LfuEvictsCleanFirst ==
    [][\A t \in Thread :
          Evicts(t) /\ HasPolicy("LFU") /\ pageBits[tempPage'[t]] = "RW"
          => \A p \in ResidentOf(t) : pageBits[p] = "RW"]_vars

\* The FIFO handler evicts the page that has been in a frame the longest
\* ("first in first out page replacement", page_table.c:201).
FifoEvictsOldest ==
    [][\A t \in Thread : Evicts(t) /\ HasPolicy("FIFO")
                         => tempPage'[t] = Head(loaded[t])]_vars

\* The FFIFO handler does so, whichever pages are written in between.
FfifoEvictsOldest ==
    [][\A t \in Thread : Evicts(t) /\ HasPolicy("FFIFO")
                         => tempPage'[t] = Head(loaded[t])]_vars

\* Every access of the program is completed, whatever faults it takes, and
\* register_vmem_threads returns (or ends the program): the flush terminates.
HandlersEnd ==
    /\ \A t \in Thread : []<>(op[t] = "idle")
    /\ []<>(phase # "flush")

=============================================================================
