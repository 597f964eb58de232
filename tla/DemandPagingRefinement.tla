--------------------- MODULE DemandPagingRefinement ----------------------
(***************************************************************************)
(* Demand paging implements a memory, for any number of threads, pages and *)
(* frames: loads and stores access the virtual memory, and no step of a    *)
(* handler or of the flush changes it.                                     *)
(***************************************************************************)
EXTENDS DemandPagingProofs

\* Whether a page is in flight depends on the thread that takes a step only.
LEMMA InFlightStep ==
  ASSUME IInv, NEW t \in Thread, Step(t), NEW p \in Page
  PROVE  \A u \in Thread \ {t} : InFlight(u, p)' <=> InFlight(u, p)
  BY StepFacts, SMTT(30) DEF InFlight

\* A handler step moves contents between the frames and the store, but no
\* page of the virtual memory changes.
LEMMA HandlerKeepsContents ==
  ASSUME IInv, NEW t \in Thread, FaultHandler(t) \/ Load(t)
  PROVE  VirtualMem' = VirtualMem
<1>1. Step(t)
  BY Zenon DEF Step
<1>2. TypeOK /\ HandlerOK(t) /\ op[t] # "idle"
  BY <1>1, StepFacts DEF IInv, HandlerInv
<1>3. SUFFICES ASSUME NEW p \in Page PROVE VirtualMem'[p] = VirtualMem[p]
  BY Zenon DEF VirtualMem
<1> DEFINE Busy == \E u \in Thread \ {t} : InFlight(u, p)
           InFrame == Resident(p) /\ ~Busy /\ ~InFlight(t, p)
<1>4. Busy' <=> Busy
  BY <1>1, InFlightStep
<1>5. /\ InFrame => VirtualMem[p] = physmem[pageMapping[p]]
      /\ ~InFrame => VirtualMem[p] = store[p]
      /\ InFrame' => VirtualMem'[p] = physmem'[pageMapping'[p]]
      /\ ~InFrame' => VirtualMem'[p] = store'[p]
  BY Zenon DEF VirtualMem
<1>6. ASSUME InFrame' <=> InFrame, store' = store, pageMapping'[p] = pageMapping[p],
             InFrame => physmem'[pageMapping[p]] = physmem[pageMapping[p]]
      PROVE  VirtualMem'[p] = VirtualMem[p]
  BY <1>5, <1>6, Zenon
<1>7. p \in DOMAIN pageBits /\ p \in DOMAIN pageMapping /\ p \in DOMAIN store
  BY <1>2 DEF TypeOK
<1> HIDE DEF Busy, InFrame
<1>8. CASE Load(t) \/ FaultFree(t) \/ FaultEvict(t)
  <2>1. pageBits' = pageBits /\ pageMapping' = pageMapping /\ physmem' = physmem
        /\ store' = store /\ pc[t] = "run"
        /\ ~InFlight(t, p)'
    <3>1. CASE Load(t)
      BY <3>1, <1>2 DEF Load, MayRun, InFlight, ptVars, TypeOK
    <3>2. CASE FaultFree(t)
      BY <3>2, <1>2 DEF FaultFree, MayRun, InFlight, ptVars, progVars, TypeOK
    <3>3. CASE FaultEvict(t)
      BY <3>3, <1>2 DEF FaultEvict, MayRun, InFlight, ptVars, progVars, TypeOK
    <3>. QED
      BY <1>8, <3>1, <3>2, <3>3
  <2>2. InFrame' <=> InFrame
    BY <1>4, <2>1 DEF Resident, InFlight, InFrame
  <2>. QED
    BY <1>6, <2>1, <2>2
<1>9. CASE MapFirst(t)
  <2>1. /\ pc[t] = "mapFirst" /\ pc'[t] = "readFirst"
        /\ addr' = addr /\ physmem' = physmem /\ store' = store /\ tempPage' = tempPage
        /\ p # addr[t] => pageBits'[p] = pageBits[p] /\ pageMapping'[p] = pageMapping[p]
        /\ ~Resident(addr[t])
    BY <1>2, <1>7, <1>9 DEF MapFirst, HandlerOK, progVars, handlerVars, TypeOK
  <2>2. CASE p = addr[t]
    <3>1. ~InFrame /\ ~InFrame'
      BY <2>1, <2>2, Zenon DEF InFlight, InFrame
    <3>. QED
      BY <1>5, <2>1, <3>1
  <2>3. CASE p # addr[t]
    <3>1. InFrame' <=> InFrame
      BY <1>4, <2>1, <2>3 DEF Resident, InFlight, InFrame
    <3>. QED
      BY <1>6, <2>1, <2>3, <3>1
  <2>. QED
    BY <2>2, <2>3
<1>10. CASE ReadFirst(t)
  <2>1. Resident(p) /\ pageMapping[p] = frame[t] => p = addr[t]
    BY <1>10, FrameExclusive, Zenon DEF ReadFirst, InHandler, Evicting
  <2>2. /\ pc[t] = "readFirst" /\ pc'[t] = "run"
        /\ addr' = addr /\ pageBits' = pageBits /\ pageMapping' = pageMapping
        /\ store' = store
        /\ physmem'[frame[t]] = store[addr[t]] /\ pageMapping[addr[t]] = frame[t]
        /\ \A f \in Frame \ {frame[t]} : physmem'[f] = physmem[f]
    BY <1>2, <1>10 DEF ReadFirst, HandlerOK, progVars, ptVars, TypeOK
  <2>3. CASE p = addr[t]
    BY <1>5, <2>2, <2>3, Zenon DEF InFlight, InFrame
  <2>4. CASE p # addr[t]
    <3>1. InFrame' <=> InFrame
      BY <1>4, <2>2, <2>4 DEF Resident, InFlight, InFrame
    <3>2. pageMapping[p] \in Frame
      BY <1>2 DEF TypeOK
    <3>. QED
      BY <1>6, <2>1, <2>2, <2>4, <3>1, <3>2 DEF InFrame
  <2>. QED
    BY <2>3, <2>4
<1>11. CASE WriteBack(t)
  <2>1. p = tempPage[t] => ~Busy
    BY <1>2, <1>11, NotInFlight DEF WriteBack, Evicting, Busy
  <2>2. /\ pc[t] = "write" /\ pc'[t] = "read"
        /\ addr' = addr /\ pageBits' = pageBits /\ pageMapping' = pageMapping
        /\ physmem' = physmem /\ tempPage' = tempPage
        /\ p # tempPage[t] => store'[p] = store[p]
        /\ pageMapping[tempPage[t]] = frame[t] /\ Resident(tempPage[t])
    BY <1>2, <1>7, <1>11 DEF WriteBack, HandlerOK, Evicting, progVars, ptVars, handlerVars, TypeOK
  <2>3. InFrame' <=> InFrame
    BY <1>4, <2>2 DEF Resident, InFlight, InFrame
  <2>4. p = tempPage[t] => InFrame
    BY <2>1, <2>2 DEF InFlight, InFrame
  <2>. QED
    BY <1>5, <2>2, <2>3, <2>4, Zenon
<1>12. CASE ReadIn(t)
  <2>1. Resident(p) /\ pageMapping[p] = frame[t] => p = tempPage[t]
    BY <1>12, FrameExclusive, Zenon DEF ReadIn, InHandler
  <2>2. /\ pc[t] = "read" /\ pc'[t] = "map"
        /\ addr' = addr /\ pageBits' = pageBits /\ pageMapping' = pageMapping
        /\ store' = store /\ tempPage' = tempPage
        /\ \A f \in Frame \ {frame[t]} : physmem'[f] = physmem[f]
        /\ pageMapping[tempPage[t]] = frame[t] /\ physmem[frame[t]] = store[tempPage[t]]
    BY <1>2, <1>12 DEF ReadIn, HandlerOK, Evicting, progVars, ptVars, handlerVars, TypeOK
  <2>3. CASE p = tempPage[t]
    <3>1. ~InFrame'
      BY <2>2, <2>3, Zenon DEF InFlight, InFrame
    <3>. QED
      BY <1>5, <2>2, <2>3, <3>1, Zenon
  <2>4. CASE p # tempPage[t]
    <3>1. InFrame' <=> InFrame
      BY <1>4, <2>2, <2>4 DEF Resident, InFlight, InFrame
    <3>2. pageMapping[p] \in Frame
      BY <1>2 DEF TypeOK
    <3>. QED
      BY <1>6, <2>1, <2>2, <2>4, <3>1, <3>2 DEF InFrame
  <2>. QED
    BY <2>3, <2>4
<1>13. CASE Map(t)
  <2>1. /\ pc[t] = "map" /\ pc'[t] = "unmap"
        /\ addr' = addr /\ physmem' = physmem /\ store' = store /\ tempPage' = tempPage
        /\ p # addr[t] => pageBits'[p] = pageBits[p] /\ pageMapping'[p] = pageMapping[p]
        /\ pageMapping'[addr[t]] = frame[t] /\ physmem[frame[t]] = store[addr[t]]
        /\ ~Resident(addr[t])
    BY <1>2, <1>7, <1>13 DEF Map, HandlerOK, progVars, handlerVars, TypeOK
  <2>2. CASE p = addr[t]
    <3>1. ~InFrame
      BY <2>1, <2>2 DEF InFrame
    <3>. QED
      BY <1>5, <2>1, <2>2, <3>1, Zenon
  <2>3. CASE p # addr[t]
    <3>1. InFrame' <=> InFrame
      BY <1>4, <2>1, <2>3 DEF Resident, InFlight, InFrame
    <3>. QED
      BY <1>6, <2>1, <2>3, <3>1
  <2>. QED
    BY <2>2, <2>3
<1>14. CASE Unmap(t)
  <2>1. /\ pc[t] = "unmap" /\ pc'[t] = "run"
        /\ addr' = addr /\ physmem' = physmem /\ store' = store
        /\ p # tempPage[t] => pageBits'[p] = pageBits[p] /\ pageMapping'[p] = pageMapping[p]
        /\ pageBits'[tempPage[t]] = "NONE"
    BY <1>2, <1>7, <1>14 DEF Unmap, progVars, TypeOK
  <2>2. CASE p = tempPage[t]
    <3>1. ~InFrame /\ ~InFrame'
      BY <2>1, <2>2 DEF InFlight, Resident, InFrame
    <3>. QED
      BY <1>5, <2>1, <3>1
  <2>3. CASE p # tempPage[t]
    <3>1. InFrame' <=> InFrame
      BY <1>4, <2>1, <2>3 DEF Resident, InFlight, InFrame
    <3>. QED
      BY <1>6, <2>1, <2>3, <3>1
  <2>. QED
    BY <2>2, <2>3
<1>15. CASE FaultUpgrade(t)
  <2>1. /\ addr' = addr /\ pc' = pc /\ tempPage' = tempPage
        /\ pageMapping' = pageMapping /\ physmem' = physmem /\ store' = store
        /\ pageBits[addr[t]] = "READ" /\ pageBits'[addr[t]] = "RW"
        /\ p # addr[t] => pageBits'[p] = pageBits[p]
    BY <1>2, <1>7, <1>15 DEF FaultUpgrade, progVars, handlerVars, TypeOK
  <2>2. InFrame' <=> InFrame
    BY <1>4, <2>1 DEF Resident, InFlight, InFrame
  <2>. QED
    BY <1>6, <2>1, <2>2
<1>. QED
  BY <1>8, <1>9, <1>10, <1>11, <1>12, <1>13, <1>14, <1>15, Zenon DEF FaultHandler

\* A load reads the page's contents, a store changes that page and no other.
LEMMA AccessIsMemoryAccess ==
  ASSUME IInv, NEW t \in Thread
  PROVE  /\ Load(t) => physmem[pageMapping[addr[t]]] = VirtualMem[addr[t]]
         /\ Store(t) => VirtualMem' = [VirtualMem EXCEPT ![addr[t]] = reg[t]]
<1>1. TypeOK
  BY DEF IInv
<1>2. ASSUME pc[t] = "run", op[t] # "idle" PROVE \A u \in Thread : ~InFlight(u, addr[t])
  BY <1>2, NotInFlight DEF InFlight
<1>3. CASE Load(t)
  BY <1>1, <1>2, <1>3, SMTT(30) DEF Load, Store, MayRun, VirtualMem, TypeOK
<1>4. CASE Store(t)
  <2>1. pc[t] = "run" /\ op[t] = "store" /\ Resident(addr[t]) /\ Step(t) /\ pc' = pc
    BY <1>4 DEF Store, MayRun, Resident, Step
  <2>2. ASSUME NEW p \in Page
        PROVE  VirtualMem'[p] = IF p = addr[t] THEN reg[t] ELSE VirtualMem[p]
    <3>1. \A u \in Thread : InFlight(u, p)' <=> InFlight(u, p)
      BY <2>1, InFlightStep DEF InFlight
    <3>2. VirtualMem'[p] = IF Resident(p)' /\ \A u \in Thread : ~InFlight(u, p)
                           THEN physmem'[pageMapping'[p]] ELSE store'[p]
      BY <3>1, SMTT(30) DEF VirtualMem
    <3>3. CASE p = addr[t]
      BY <1>1, <1>2, <1>4, <2>1, <3>2, <3>3 DEF Store, TypeOK, ptVars, Resident
    <3>4. CASE p # addr[t]
      <4>1. Resident(p) => pageMapping[p] # pageMapping[addr[t]]
        BY <2>1, <3>4, AccessExclusive, SMTT(30)
      <4>. QED
        BY <1>1, <1>4, <3>2, <3>4, <4>1 DEF Store, TypeOK, ptVars, Resident, VirtualMem
    <3>. QED
      BY <3>3, <3>4, SMTT(30)
  <2>3. /\ VirtualMem' = [p \in Page |-> VirtualMem'[p]]
        /\ [VirtualMem EXCEPT ![addr[t]] = reg[t]]
             = [p \in Page |-> IF p = addr[t] THEN reg[t] ELSE VirtualMem[p]]
    BY <1>1, Zenon DEF VirtualMem, TypeOK
  <2>4. VirtualMem' = [VirtualMem EXCEPT ![addr[t]] = reg[t]]
    BY <2>2, <2>3, Zenon
  <2>. QED
    BY <1>4, <2>1, <2>4, ZenonT(30) DEF Load
<1>. QED
  BY <1>3, <1>4

\* Every behaviour of demand paging is a behaviour of a memory: a load returns
\* what was last stored to its page, whatever was evicted, fetched or flushed.
THEOREM PagingImplementsMemory == Spec => ImplementsMemory
<1>1. Init => Virtual!Init
  <2> SUFFICES ASSUME Init PROVE Virtual!Init
    OBVIOUS
  <2>1. VirtualMem = store
    BY DEF Init, VirtualMem, Resident
  <2>. QED
    BY <2>1 DEF Init, Virtual!Init
<1>2. IInv /\ [Next]_vars => [Virtual!Next]_(Virtual!vars)
  <2> SUFFICES ASSUME IInv, [Next]_vars PROVE [Virtual!Next]_(Virtual!vars)
    OBVIOUS
  <2>1. TypeOK
    BY DEF IInv
  <2>2. ASSUME NEW t \in Thread, Load(t) PROVE Virtual!Next
    <3>1. VirtualMem' = VirtualMem /\ physmem[pageMapping[addr[t]]] = VirtualMem[addr[t]]
      BY <2>2, HandlerKeepsContents, AccessIsMemoryAccess
    <3>2. Virtual!Load(t)
      BY <2>2, <3>1 DEF Load, Done, Virtual!Load, Virtual!Done
    <3>. QED
      BY <3>2 DEF Virtual!Next
  <2>3. ASSUME NEW t \in Thread, Store(t) PROVE Virtual!Next
    <3>1. VirtualMem' = [VirtualMem EXCEPT ![addr[t]] = reg[t]]
      BY <2>3, AccessIsMemoryAccess
    <3>2. Virtual!Store(t)
      BY <2>3, <3>1 DEF Store, Done, Virtual!Store, Virtual!Done
    <3>. QED
      BY <3>2 DEF Virtual!Next
  <2>4. ASSUME NEW t \in Thread, FaultHandler(t) PROVE UNCHANGED Virtual!vars
    <3>1. VirtualMem' = VirtualMem
      BY <2>4, HandlerKeepsContents, SMTT(30)
    <3>2. UNCHANGED <<op, addr, reg>>
      BY <2>4, Zenon DEF FaultHandler, FaultFree, MapFirst, ReadFirst, FaultEvict, WriteBack,
         ReadIn, Map, Unmap, FaultUpgrade, progVars
    <3>. QED
      BY <3>1, <3>2 DEF Virtual!vars
  <2>5. ASSUME NEW t \in Thread, Issue(t) PROVE Virtual!Next
    <3>1. \A u \in Thread, p \in Page : InFlight(u, p)' <=> InFlight(u, p)
      BY <2>1, <2>5, SMTT(30) DEF Issue, InFlight, MayRun, TypeOK, handlerVars
    <3>2. VirtualMem' = VirtualMem
      BY <2>5, <3>1, Zenon DEF Issue, VirtualMem, Resident, ptVars
    <3>3. \E p \in Page : addr' = [addr EXCEPT ![t] = p]
      BY <2>5, PagingAssumption, Zenon DEF Issue
    <3>4. Virtual!Issue(t)
      BY <2>5, <3>2, <3>3, Zenon DEF Issue, Virtual!Issue
    <3>. QED
      BY <3>4, SMTT(30) DEF Virtual!Next
  <2>6. ASSUME NEW t \in Thread, InitThread(t) PROVE UNCHANGED Virtual!vars
    <3>1. \A u \in Thread, p \in Page : InFlight(u, p)' <=> InFlight(u, p)
      BY <2>1, <2>6 DEF InitThread, InFlight, TypeOK, progVars, handlerVars
    <3>. QED
      BY <2>6, <3>1 DEF InitThread, VirtualMem, Resident, Virtual!vars, progVars, ptVars
  <2>7. CASE StartFlush \/ EndFlush \/ Clean \/ UNCHANGED vars
    BY <2>7 DEF StartFlush, EndFlush, Clean, vars, VirtualMem, Resident, InFlight, Virtual!vars,
       progVars, ptVars, handlerVars
  <2>8. ASSUME NEW p \in Page, FlushPage(p) PROVE UNCHANGED Virtual!vars
    <3>1. \A t \in Thread : pc[t] \in {"new", "run"}
      BY <2>8 DEF FlushPage, IInv, ThreadInv, InHandler, Home
    <3>2. \A u \in Thread, q \in Page : ~InFlight(u, q) /\ ~InFlight(u, q)'
      BY <2>8, <3>1 DEF FlushPage, InFlight
    <3>3. pageBits[p] = "READ" => physmem[pageMapping[p]] = store[p]
      BY <3>2 DEF IInv, CleanPagesMatchStore
    <3>4. ASSUME NEW q \in Page PROVE VirtualMem'[q] = VirtualMem[q]
      BY <2>1, <2>8, <3>2, <3>3, <3>4, SMTT(30) DEF VirtualMem, FlushPage, Resident, TypeOK, Bits
    <3>5. VirtualMem' = VirtualMem
      BY <3>4, Zenon DEF VirtualMem
    <3>. QED
      BY <2>8, <3>5, SMTT(30) DEF FlushPage, Virtual!vars, progVars
  <2>. QED
    BY <2>2, <2>3, <2>4, <2>5, <2>6, <2>7, <2>8 DEF Next, Program
<1>. QED
  BY <1>1, <1>2, InvariantHolds, PTL DEF Spec, ImplementsMemory, Virtual!Spec
=============================================================================
