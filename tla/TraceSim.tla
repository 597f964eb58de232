------------------------------ MODULE TraceSim ------------------------------
(***************************************************************************)
(* legacy/OldPageTable: the simulator that replays a trace of memory       *)
(* references on a page table whose swap space is remote memory, with five *)
(* replacement algorithms.                                                 *)
(*                                                                         *)
(* A step replays one line of the trace.  Addresses are page numbers: the  *)
(* offset in the page, which init_frame records with it, is left out.  A   *)
(* second-level table appears zeroed, so the two levels are one function   *)
(* here.  coremap is malloc'ed and in_use is read before it is written;    *)
(* nothing is freed before, so the memory is still the zeroes of the       *)
(* kernel.  A call to remote memory does what it is asked for: RemoteMem   *)
(* is about that.                                                          *)
(***************************************************************************)
EXTENDS Integers, SequencesExt, FiniteSetsExt

CONSTANTS NPages,     \* pages a trace refers to
          MemSize,    \* memsize: frames of physmem
          NRefs,      \* length of the trace
          Types,      \* the reference types that occur: "S" for S and M, "L" for L and I
          Algs        \* the replacement algorithms considered

ASSUME SimAssumption ==
    /\ NPages \in Nat \ {0} /\ MemSize \in Nat \ {0} /\ NRefs \in Nat
    /\ Types \subseteq {"L", "S"}
    /\ Algs \subseteq {"rand", "lru", "fifo", "clock", "opt"}

SimPage == 0 .. NPages - 1
SimFrame == 0 .. MemSize - 1
INVALID_SWAP == 0
None == NPages

VARIABLES alg,       \* the algorithm evict_fcn and ref_fcn belong to
          trace,     \* the trace file
          pos,       \* the line replay_trace reads next
          pgtbl,     \* page table entries
          coremap,
          simPhysmem, \* physmem: a frame holds a version counter and the page's address
          remote,    \* the remote pages allocated by swap_pageout
          policy,    \* the data of the replacement algorithms
          count,     \* the event counters
          loaded     \* history: the line at which a frame was last allocated

simVars == <<alg, trace, pos, pgtbl, coremap, simPhysmem, remote, policy, count, loaded>>

init_second_level ==
    [frame |-> 0, valid |-> FALSE, dirty |-> FALSE, onswap |-> FALSE, swap_off |-> INVALID_SWAP]

Content == [vaddr : SimPage \cup {None}, version : 0 .. NRefs]

\* lru_init, clock_init, fifo_init, opt_init
PolicyInit == [lru |-> <<>>, lru_refed |-> [f \in SimFrame |-> FALSE],
               clk_refed |-> [f \in SimFrame |-> FALSE], clk_hand |-> 0,
               fifo_head |-> 0, opt_curr |-> 1]

\* main starts with algorithm a on trace tr.
SimStart(a, tr) ==
    /\ alg = a /\ trace = tr
    /\ pos = 1
    /\ pgtbl = [p \in SimPage |-> init_second_level]
    /\ coremap = [f \in SimFrame |-> [in_use |-> FALSE, pte |-> None, vaddr |-> None]]
    /\ simPhysmem = [f \in SimFrame |-> [vaddr |-> None, version |-> 0]]
    /\ remote = <<>>
    /\ policy = PolicyInit
    /\ count = [hit |-> 0, miss |-> 0, ref |-> 0, evict_clean |-> 0, evict_dirty |-> 0]
    /\ loaded = [f \in SimFrame |-> 0]

SimInit == \E a \in Algs, tr \in [1 .. NRefs -> [type : Types, page : SimPage]] : SimStart(a, tr)
-----------------------------------------------------------------------------
(* The algorithms.  evict_fcn picks a frame and updates the algorithm's data; *)
(* ref_fcn sees the frame of every reference.                                 *)

lru_evict == {[frame |-> Head(policy.lru),
               policy |-> [policy EXCEPT !.lru = Tail(@), !.lru_refed[Head(policy.lru)] = FALSE]]}

\* Mutant: a frame in the list keeps its place.
LruRefOnce(d, f) ==
    [d EXCEPT !.lru = IF d.lru_refed[f] THEN @ ELSE Append(@, f), !.lru_refed[f] = TRUE]

\* The new node goes to the tail before the old one is taken out.
lru_ref(d, f) ==
    [d EXCEPT !.lru = IF d.lru_refed[f] THEN RemoveFirst(Append(@, f), f) ELSE Append(@, f),
              !.lru_refed[f] = TRUE]

\* The hand stays on the frame it chose.
clock_evict ==
    LET At(k) == (policy.clk_hand + k) % MemSize
        Unset == {k \in 0 .. MemSize - 1 : ~policy.clk_refed[At(k)]}
        passed == IF Unset = {} THEN MemSize ELSE Min(Unset)
        chosen == At(passed)
    IN  {[frame |-> chosen,
          policy |-> [policy EXCEPT
                        !.clk_refed = [f \in SimFrame |->
                            \/ f = chosen
                            \/ policy.clk_refed[f] /\ \A k \in 0 .. passed - 1 : At(k) # f],
                        !.clk_hand = chosen]]}

clock_ref(d, f) == [d EXCEPT !.clk_refed[f] = TRUE]

fifo_evict == {[frame |-> policy.fifo_head,
                policy |-> [policy EXCEPT !.fifo_head = (@ + 1) % MemSize]]}

rand_evict == {[frame |-> f, policy |-> policy] : f \in SimFrame}

\* The references of a frame's page after the current one.
NextUses(f) == {i \in policy.opt_curr + 1 .. NRefs : trace[i].page = coremap[f].vaddr}

\* Mutant: the page used again soonest.
OptEvictSoonest ==
    LET Unused == {f \in SimFrame : NextUses(f) = {}}
    IN  {[frame |-> IF Unused # {} THEN Min(Unused)
                    ELSE CHOOSE f \in SimFrame : \A g \in SimFrame : Min(NextUses(f)) <= Min(NextUses(g)),
          policy |-> policy]}

opt_evict ==
    LET Unused == {f \in SimFrame : NextUses(f) = {}}
    IN  {[frame |-> IF Unused # {} THEN Min(Unused)
                    ELSE CHOOSE f \in SimFrame : \A g \in SimFrame : Min(NextUses(f)) >= Min(NextUses(g)),
          policy |-> policy]}

opt_ref(d) == [d EXCEPT !.opt_curr = IF @ = NRefs THEN 1 ELSE @ + 1]

evict_fcn == CASE alg = "lru"   -> lru_evict
               [] alg = "clock" -> clock_evict
               [] alg = "fifo"  -> fifo_evict
               [] alg = "rand"  -> rand_evict
               [] alg = "opt"   -> opt_evict

ref_fcn(d, f) == CASE alg = "lru"   -> lru_ref(d, f)
                   [] alg = "clock" -> clock_ref(d, f)
                   [] alg = "opt"   -> opt_ref(d)
                   [] OTHER         -> d
-----------------------------------------------------------------------------
(* find_physpage *)

\* The frame allocate_frame uses: the first free one, or the victim's.
Candidates ==
    LET Free == {f \in SimFrame : ~coremap[f].in_use}
    IN  IF Free # {} THEN {[frame |-> Min(Free), policy |-> policy]} ELSE evict_fcn

\* swap_pageout allocates a remote page for a page that has none.
swap_pageout(f) ==
    LET off == pgtbl[coremap[f].pte].swap_off
    IN  IF off = INVALID_SWAP
        THEN [swap_off |-> Len(remote) + 1, remote |-> Append(remote, simPhysmem[f])]
        ELSE [swap_off |-> off, remote |-> [remote EXCEPT ![off] = simPhysmem[f]]]

\* Mutant: the entry of a page that was written out stays valid.
EvictDirtyStaysValid(f) ==
    [pgtbl |-> [pgtbl EXCEPT ![coremap[f].pte].onswap = TRUE,
                             ![coremap[f].pte].swap_off = swap_pageout(f).swap_off],
     remote |-> swap_pageout(f).remote,
     count |-> [count EXCEPT !.evict_dirty = @ + 1]]

EvictDirty(f) ==
    [pgtbl |-> [pgtbl EXCEPT ![coremap[f].pte].valid = FALSE,
                             ![coremap[f].pte].onswap = TRUE,
                             ![coremap[f].pte].swap_off = swap_pageout(f).swap_off],
     remote |-> swap_pageout(f).remote,
     count |-> [count EXCEPT !.evict_dirty = @ + 1]]

EvictClean(f) ==
    [pgtbl |-> [pgtbl EXCEPT ![coremap[f].pte].valid = FALSE],
     remote |-> remote,
     count |-> [count EXCEPT !.evict_clean = @ + 1]]

\* Mutant: a page that is already in the swap space is dropped, dirty or not.
AllocateDropsSwapped(f) ==
    IF ~coremap[f].in_use THEN [pgtbl |-> pgtbl, remote |-> remote, count |-> count]
    ELSE IF pgtbl[coremap[f].pte].dirty /\ ~pgtbl[coremap[f].pte].onswap THEN EvictDirty(f)
    ELSE EvictClean(f)

\* What allocate_frame makes of the page in the frame it uses.
allocate_frame(f) ==
    IF ~coremap[f].in_use THEN [pgtbl |-> pgtbl, remote |-> remote, count |-> count]
    ELSE IF pgtbl[coremap[f].pte].dirty THEN EvictDirty(f)
    ELSE EvictClean(f)

Now == trace[pos]
Written == IF Now.type = "S" THEN 1 ELSE 0

\* The end of find_physpage, and access_mem: the reference is counted, the
\* entry is valid, a store makes the page dirty and increments its version.
Referenced(table, entry, c, content, d) ==
    /\ pgtbl' = [table EXCEPT ![Now.page] =
                    [entry EXCEPT !.valid = TRUE, !.dirty = @ \/ Now.type = "S"]]
    /\ count' = [c EXCEPT !.ref = @ + 1]
    /\ simPhysmem' = [simPhysmem EXCEPT ![entry.frame] = [content EXCEPT !.version = @ + Written]]
    /\ policy' = ref_fcn(d, entry.frame)
    /\ pos' = pos + 1
    /\ UNCHANGED <<alg, trace>>

Hit ==
    /\ pos <= NRefs
    /\ LET entry == pgtbl[Now.page]
       IN  /\ entry.valid
           /\ Referenced(pgtbl, entry, [count EXCEPT !.hit = @ + 1],
                         simPhysmem[entry.frame], policy)
    /\ UNCHANGED <<coremap, remote, loaded>>

\* A page that is not in memory is given the frame of candidate e, from which
\* allocate_frame has removed a page with result a.
LoadFrame(e, a, dirty, content) ==
    /\ coremap' = [coremap EXCEPT ![e.frame] =
                      [in_use |-> TRUE, pte |-> Now.page, vaddr |-> Now.page]]
    /\ loaded' = [loaded EXCEPT ![e.frame] = pos]
    /\ remote' = a.remote
    /\ Referenced(a.pgtbl, [pgtbl[Now.page] EXCEPT !.frame = e.frame, !.dirty = dirty],
                  [a.count EXCEPT !.miss = @ + 1], content, e.policy)

\* The first reference to a page: init_frame, and the page is dirty.
FirstUse ==
    /\ pos <= NRefs
    /\ ~pgtbl[Now.page].valid /\ ~pgtbl[Now.page].onswap
    /\ \E e \in Candidates :
          LoadFrame(e, allocate_frame(e.frame), TRUE, [vaddr |-> Now.page, version |-> 0])

\* A page that was evicted: swap_pagein, after the victim has been paged out.
SwapIn ==
    /\ pos <= NRefs
    /\ ~pgtbl[Now.page].valid /\ pgtbl[Now.page].onswap
    /\ \E e \in Candidates :
          LET a == allocate_frame(e.frame)
          IN  LoadFrame(e, a, FALSE, a.remote[pgtbl[Now.page].swap_off])

SimNext == Hit \/ FirstUse \/ SwapIn

SimSpec == SimInit /\ [][SimNext]_simVars
-----------------------------------------------------------------------------
(* Properties *)

\* The type invariant: the algorithms' data and the counters stay in range.
SimTypeOK ==
    /\ alg \in Algs
    /\ trace \in [1 .. NRefs -> [type : Types, page : SimPage]]
    /\ pos \in 1 .. NRefs + 1
    /\ pgtbl \in [SimPage -> [frame : SimFrame, valid : BOOLEAN, dirty : BOOLEAN,
                           onswap : BOOLEAN, swap_off : 0 .. NPages]]
    /\ coremap \in [SimFrame -> [in_use : BOOLEAN, pte : SimPage \cup {None}, vaddr : SimPage \cup {None}]]
    /\ simPhysmem \in [SimFrame -> Content]
    /\ remote \in Seq(Content)
    /\ policy \in [lru : Seq(SimFrame), lru_refed : [SimFrame -> BOOLEAN],
                   clk_refed : [SimFrame -> BOOLEAN], clk_hand : SimFrame,
                   fifo_head : SimFrame, opt_curr : 1 .. NRefs]
    /\ count \in [{"hit", "miss", "ref", "evict_clean", "evict_dirty"} -> 0 .. NRefs]
    /\ loaded \in [SimFrame -> 0 .. NRefs]

Past == 1 .. pos - 1
Seen == {trace[i].page : i \in Past}
Stores(p) == Cardinality({i \in Past : trace[i].page = p /\ trace[i].type = "S"})

\* No version of a page is lost, however it travels between frames and remote
\* pages: a page that was referenced is in its frame, or else in its remote
\* page, with its address and with one version per store to it (the check in
\* access_mem).
ContentsKept ==
    \A p \in Seen :
        LET entry == pgtbl[p]
        IN  /\ entry.valid \/ entry.onswap
            /\ (IF entry.valid THEN simPhysmem[entry.frame] ELSE remote[entry.swap_off])
                  = [vaddr |-> p, version |-> Stores(p)]

\* The tables agree.  A frame in use holds the one page whose valid entry names
\* it, and a valid entry names a frame in use.  The list of lru.c holds every
\* frame in use once, so that the assertions of lru_evict hold whenever a
\* victim is needed.  And of the counters that main prints, a reference is a
\* hit or a miss, and a miss fills a free frame or evicts a page.
TablesAgree ==
    /\ SimTypeOK
    /\ \A f \in SimFrame :
          coremap[f].in_use =>
              /\ coremap[f].vaddr = coremap[f].pte
              /\ pgtbl[coremap[f].pte].valid /\ pgtbl[coremap[f].pte].frame = f
    /\ \A p \in SimPage :
          pgtbl[p].valid => coremap[pgtbl[p].frame].in_use /\ coremap[pgtbl[p].frame].pte = p
    /\ alg = "lru" =>
          /\ IsInjective(policy.lru)
          /\ ToSet(policy.lru) = {f \in SimFrame : coremap[f].in_use}
          /\ \A f \in SimFrame : policy.lru_refed[f] <=> coremap[f].in_use
    /\ count.hit + count.miss = count.ref /\ count.ref = pos - 1
    /\ count.miss = count.evict_clean + count.evict_dirty
                      + Cardinality({f \in SimFrame : coremap[f].in_use})

LastUse(p) == Max({i \in Past : trace[i].page = p})
SimResident == {p \in SimPage : pgtbl[p].valid}

\* The page that a step evicts, if it does, was referenced before every other
\* resident page under LRU.  Under FIFO it was loaded before every other one,
\* though fifo_head counts frames and not loads.
VictimIsOldest ==
    [][\A p, q \in SimResident :
          ~pgtbl'[p].valid =>
              /\ alg = "lru" => LastUse(p) <= LastUse(q)
              /\ alg = "fifo" => loaded[pgtbl[p].frame] <= loaded[pgtbl[q].frame]]_simVars

\* The fewest misses with which the trace can be replayed, by any choice of
\* victims: from line i on, with the pages of S in memory.
Fewest ==
    LET From[i \in 1 .. NRefs + 1, S \in SUBSET SimPage] ==
            IF i > NRefs THEN 0
            ELSE LET p == trace[i].page
                 IN  IF p \in S THEN From[i + 1, S]
                     ELSE IF Cardinality(S) < MemSize THEN 1 + From[i + 1, S \cup {p}]
                     ELSE 1 + Min({From[i + 1, (S \ {q}) \cup {p}] : q \in S})
    IN  From[1, {}]

\* opt.c is optimal: at the end of a trace it has missed as rarely as any
\* algorithm can.
OptIsOptimal == alg = "opt" /\ pos = NRefs + 1 => count.miss = Fewest
=============================================================================
