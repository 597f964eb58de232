------------------------ MODULE DemandPagingProofs -------------------------
(***************************************************************************)
(* DemandPaging, proved for any number of threads, pages and frames: the   *)
(* inductive invariant behind FramesNotShared and CleanPagesMatchStore.    *)
(***************************************************************************)
EXTENDS DemandPaging, TLAPS

InHandler(t) == pc[t] \notin {"new", "run"}
Evicting(t) == pc[t] \in {"write", "read", "map", "unmap"}
Home(t) == IF t = Main THEN "single" ELSE "threads"

\* A thread executes an instruction only in its phase, on its own pages, and
\* is in a handler only while it executes one, with a frame of its own.
ThreadInv ==
    \A t \in Thread :
        /\ op[t] # "idle" => phase = Home(t) /\ addr[t] \in PagesOf[t]
        /\ InHandler(t) => op[t] # "idle" /\ frame[t] \in FramesOf[t]

\* In the workers' phase every resident page is one of a worker's pages, in
\* one of that worker's frames.
OwnedInv ==
    phase = "threads" =>
        \A p \in Page : Resident(p) =>
            \E w \in Worker : p \in PagesOf[w] /\ pageMapping[p] \in FramesOf[w]

\* What holds at each point of a handler.
HandlerOK(t) ==
    /\ pc[t] \in {"mapFirst", "write", "read", "map"} => ~Resident(addr[t])
    /\ pc[t] = "mapFirst" => \A p \in Page : Resident(p) => pageMapping[p] # frame[t]
    /\ pc[t] \in {"readFirst", "unmap"} =>
          pageBits[addr[t]] = "READ" /\ pageMapping[addr[t]] = frame[t]
    /\ Evicting(t) =>
          /\ Resident(tempPage[t]) /\ pageMapping[tempPage[t]] = frame[t]
          /\ tempPage[t] # addr[t]
    /\ pc[t] = "write" => pageBits[tempPage[t]] = "RW"
    /\ pc[t] = "read" => physmem[frame[t]] = store[tempPage[t]]
    /\ pc[t] \in {"map", "unmap"} => physmem[frame[t]] = store[addr[t]]

HandlerInv == \A t \in Thread : HandlerOK(t)

IInv == TypeOK /\ ThreadInv /\ OwnedInv /\ HandlerInv
        /\ FramesNotShared /\ CleanPagesMatchStore
-----------------------------------------------------------------------------
\* The initial state: nothing is resident, no thread is in a handler.
LEMMA InitIInv == Init => IInv
  BY PagingAssumption, SMTT(30) DEF Init, IInv, TypeOK, ThreadInv, OwnedInv, HandlerInv, HandlerOK,
     FramesNotShared, CleanPagesMatchStore, InFlight, InHandler, Evicting, Resident, PC, Bits

\* Every action of the handlers, the program and the flush keeps the types.
LEMMA TypeStep == TypeOK /\ [Next]_vars => TypeOK'
<1> SUFFICES ASSUME TypeOK, [Next]_vars PROVE TypeOK'
  OBVIOUS
<1> USE PagingAssumption DEF TypeOK, PC, Bits, progVars, ptVars, handlerVars
<1>1. ASSUME NEW t \in Thread, InitThread(t) PROVE TypeOK'
  BY <1>1 DEF InitThread
<1>2. ASSUME NEW t \in Thread, Issue(t) PROVE TypeOK'
  BY <1>2 DEF Issue
<1>3. ASSUME NEW t \in Thread, Load(t) PROVE TypeOK'
  BY <1>3 DEF Load, Done
<1>4. ASSUME NEW t \in Thread, Store(t) PROVE TypeOK'
  BY <1>4 DEF Store, Done
<1>5. ASSUME NEW t \in Thread, FaultFree(t) PROVE TypeOK'
  BY <1>5 DEF FaultFree
<1>6. ASSUME NEW t \in Thread, MapFirst(t) PROVE TypeOK'
  BY <1>6 DEF MapFirst
<1>7. ASSUME NEW t \in Thread, ReadFirst(t) PROVE TypeOK'
  BY <1>7 DEF ReadFirst, Return
<1>8. ASSUME NEW t \in Thread, FaultEvict(t) PROVE TypeOK'
  BY <1>8 DEF FaultEvict
<1>9. ASSUME NEW t \in Thread, WriteBack(t) PROVE TypeOK'
  BY <1>9 DEF WriteBack
<1>10. ASSUME NEW t \in Thread, ReadIn(t) PROVE TypeOK'
  BY <1>10 DEF ReadIn
<1>11. ASSUME NEW t \in Thread, Map(t) PROVE TypeOK'
  BY <1>11 DEF Map
<1>12. ASSUME NEW t \in Thread, Unmap(t) PROVE TypeOK'
  BY <1>12 DEF Unmap, Return
<1>13. ASSUME NEW t \in Thread, FaultUpgrade(t) PROVE TypeOK'
  BY <1>13 DEF FaultUpgrade
<1>14. CASE StartFlush
  BY <1>14 DEF StartFlush
<1>15. ASSUME NEW p \in Page, FlushPage(p) PROVE TypeOK'
  BY <1>15 DEF FlushPage
<1>16. CASE EndFlush
  BY <1>16 DEF EndFlush
<1>17. CASE Clean
  BY <1>17 DEF Clean
<1>18. CASE UNCHANGED vars
  BY <1>18 DEF vars
<1> HIDE DEF TypeOK, PC, Bits, progVars, ptVars, handlerVars
<1>. QED
  BY <1>1, <1>2, <1>3, <1>4, <1>5, <1>6, <1>7, <1>8, <1>9, <1>10, <1>11, <1>12,
     <1>13, <1>14, <1>15, <1>16, <1>17, <1>18 DEF Next, Program, FaultHandler

\* Two threads that execute instructions are workers, and neither touches a
\* page or a frame of the other (wc_program_threads, init_vmem_thread).
LEMMA Others ==
  ASSUME IInv, NEW t \in Thread, NEW u \in Thread, t # u, op[t] # "idle", InHandler(u)
  PROVE  /\ t \in Worker /\ u \in Worker /\ phase = "threads"
         /\ PagesOf[t] \cap PagesOf[u] = {} /\ FramesOf[t] \cap FramesOf[u] = {}
         /\ addr[t] \in PagesOf[t] /\ addr[u] \in PagesOf[u] /\ frame[u] \in FramesOf[u]
         /\ InHandler(t) => frame[t] \in FramesOf[t]
         /\ Evicting(t) => tempPage[t] \in PagesOf[t]
         /\ Evicting(u) => tempPage[u] \in PagesOf[u]
         /\ Resident(addr[t]) => pageMapping[addr[t]] \in FramesOf[t]
<1>1. /\ op[u] # "idle" /\ phase = Home(t) /\ phase = Home(u)
      /\ addr[t] \in PagesOf[t] /\ addr[u] \in PagesOf[u] /\ frame[u] \in FramesOf[u]
      /\ InHandler(t) => frame[t] \in FramesOf[t]
  BY DEF IInv, ThreadInv
<1>2. t \in Worker /\ u \in Worker /\ phase = "threads"
  BY <1>1 DEF Home, Worker
<1>3. /\ PagesOf[t] \cap PagesOf[u] = {} /\ FramesOf[t] \cap FramesOf[u] = {}
  BY <1>2, PagingAssumption
<1>4. ASSUME NEW x \in Worker, NEW p \in Page, Resident(p)
      PROVE  p \in PagesOf[x] <=> pageMapping[p] \in FramesOf[x]
  <2>1. PICK w \in Worker : p \in PagesOf[w] /\ pageMapping[p] \in FramesOf[w]
    BY <1>2, <1>4 DEF IInv, OwnedInv
  <2>. QED
    BY <2>1, PagingAssumption
<1>5. ASSUME NEW x \in Worker, Evicting(x) PROVE frame[x] \in FramesOf[x] /\ tempPage[x] \in PagesOf[x]
  <2>1. x \in Thread /\ tempPage[x] \in Page /\ frame[x] \in FramesOf[x]
    BY <1>5 DEF IInv, TypeOK, ThreadInv, InHandler, Evicting, Worker
  <2>2. Resident(tempPage[x]) /\ pageMapping[tempPage[x]] = frame[x]
    BY <2>1, <1>5 DEF IInv, HandlerInv, HandlerOK
  <2>. QED
    BY <2>1, <2>2, <1>4
<1>6. addr[t] \in Page
  BY DEF IInv, TypeOK
<1>. QED
  BY <1>1, <1>2, <1>3, <1>4, <1>5, <1>6
\* A resident page in the frame that a handler works on is the page it loads
\* or the page it evicts.
LEMMA FrameExclusive ==
  ASSUME IInv, NEW t \in Thread, InHandler(t),
         NEW p \in Page, Resident(p), pageMapping[p] = frame[t]
  PROVE  \/ pc[t] \in {"readFirst", "unmap"} /\ p = addr[t]
         \/ Evicting(t) /\ p = tempPage[t]
<1>1. TypeOK /\ HandlerOK(t) /\ FramesNotShared
  BY DEF IInv, HandlerInv
<1>2. op[t] # "idle"
  BY DEF IInv, ThreadInv
<1>3. pc[t] # "mapFirst"
  BY <1>1 DEF HandlerOK
<1>4. CASE pc[t] = "readFirst"
  <2>1. SUFFICES ASSUME p # addr[t] PROVE FALSE
    BY <1>4
  <2>2. Resident(addr[t]) /\ pageMapping[addr[t]] = frame[t] /\ addr[t] \in Page
    BY <1>1, <1>4 DEF HandlerOK, Resident, TypeOK
  <2>3. PICK u \in Thread : pc[u] = "unmap" /\ {p, addr[t]} = {addr[u], tempPage[u]}
    BY <1>1, <2>1, <2>2 DEF FramesNotShared
  <2>4. u # t /\ InHandler(u) /\ Evicting(u)
    BY <1>4, <2>3 DEF InHandler, Evicting
  <2>5. addr[t] \in PagesOf[t] /\ addr[u] \in PagesOf[u] /\ tempPage[u] \in PagesOf[u]
        /\ PagesOf[t] \cap PagesOf[u] = {}
    BY <1>2, <2>4, Others
  <2>. QED
    BY <2>3, <2>5
<1>5. CASE Evicting(t)
  <2>1. SUFFICES ASSUME p # tempPage[t], ~(pc[t] = "unmap" /\ p = addr[t]) PROVE FALSE
    BY <1>5
  <2>2. Resident(tempPage[t]) /\ pageMapping[tempPage[t]] = frame[t] /\ tempPage[t] \in Page
    BY <1>1, <1>5 DEF HandlerOK, TypeOK
  <2>3. PICK u \in Thread : pc[u] = "unmap" /\ {p, tempPage[t]} = {addr[u], tempPage[u]}
    BY <1>1, <2>1, <2>2 DEF FramesNotShared
  <2>4. u # t
    BY <2>1, <2>3
  <2>5. InHandler(u) /\ Evicting(u)
    BY <2>3 DEF InHandler, Evicting
  <2>6. tempPage[t] \in PagesOf[t] /\ addr[u] \in PagesOf[u] /\ tempPage[u] \in PagesOf[u]
        /\ PagesOf[t] \cap PagesOf[u] = {}
    BY <1>2, <1>5, <2>4, <2>5, Others
  <2>. QED
    BY <2>3, <2>6
<1>. QED
  BY <1>1, <1>3, <1>4, <1>5 DEF TypeOK, PC, InHandler, Evicting

\* A thread that executes an instruction outside its handler is alone in the
\* frame of the page it accesses.
LEMMA AccessExclusive ==
  ASSUME IInv, NEW t \in Thread, pc[t] = "run", op[t] # "idle", Resident(addr[t]),
         NEW p \in Page, Resident(p), pageMapping[p] = pageMapping[addr[t]]
  PROVE  p = addr[t]
<1>1. SUFFICES ASSUME p # addr[t] PROVE FALSE
  OBVIOUS
<1>2. PICK u \in Thread : pc[u] = "unmap" /\ {p, addr[t]} = {addr[u], tempPage[u]}
  BY <1>1, Zenon DEF IInv, TypeOK, FramesNotShared
<1>3. u # t /\ InHandler(u) /\ Evicting(u)
  BY <1>2 DEF InHandler, Evicting
<1>4. addr[t] \in PagesOf[t] /\ addr[u] \in PagesOf[u] /\ tempPage[u] \in PagesOf[u]
      /\ PagesOf[t] \cap PagesOf[u] = {}
  BY <1>3, Others
<1>. QED
  BY <1>2, <1>4

\* The pages that a thread accesses and evicts are not in flight in the
\* handler of another thread.
LEMMA NotInFlight ==
  ASSUME IInv, NEW t \in Thread, NEW u \in Thread, t # u, op[t] # "idle"
  PROVE  ~InFlight(u, addr[t]) /\ (Evicting(t) => ~InFlight(u, tempPage[t]))
<1>1. CASE ~InHandler(u)
  BY <1>1 DEF InHandler, InFlight
<1>2. CASE InHandler(u)
  <2>1. /\ addr[t] \in PagesOf[t] /\ addr[u] \in PagesOf[u]
        /\ Evicting(t) => tempPage[t] \in PagesOf[t]
        /\ Evicting(u) => tempPage[u] \in PagesOf[u]
        /\ PagesOf[t] \cap PagesOf[u] = {}
    BY <1>2, Others
  <2>. QED
    BY <2>1 DEF InFlight, Evicting
<1>. QED
  BY <1>1, <1>2
\* What a step of worker t may change: its own pages and frames, and
\* nothing of what another thread's handler holds.
Footprint(t) ==
    /\ \A p \in Page \ PagesOf[t] : /\ pageBits'[p] = pageBits[p]
                                    /\ pageMapping'[p] = pageMapping[p]
                                    /\ store'[p] = store[p]
    /\ \A p \in PagesOf[t] : pageBits'[p] # "NONE" => pageMapping'[p] \in FramesOf[t]
    /\ \A f \in Frame \ FramesOf[t] : physmem'[f] = physmem[f]

\* A thread's instruction, fault or handler step.
Step(t) == Load(t) \/ Store(t) \/ FaultHandler(t)

\* A step belongs to an instruction that the thread is executing; only the
\* thread's own locals change, and the phase does not.
LEMMA StepFacts ==
  ASSUME IInv, NEW t \in Thread, Step(t)
  PROVE  /\ op[t] # "idle" /\ phase' = phase /\ phase = Home(t)
         /\ \A u \in Thread \ {t} : /\ pc'[u] = pc[u] /\ op'[u] = op[u] /\ addr'[u] = addr[u]
                                    /\ frame'[u] = frame[u] /\ tempPage'[u] = tempPage[u]
<1>1. TypeOK /\ ThreadInv
  BY DEF IInv
<1>2. op[t] # "idle"
  BY <1>1 DEF Step, FaultHandler, Load, Store, FaultFree, MapFirst, ReadFirst, FaultEvict,
     WriteBack, ReadIn, Map, Unmap, FaultUpgrade, ThreadInv, InHandler
<1>3. phase' = phase
  BY DEF Step, FaultHandler, Load, Store, FaultFree, MapFirst, ReadFirst, FaultEvict,
     WriteBack, ReadIn, Map, Unmap, FaultUpgrade
<1>4. ASSUME NEW u \in Thread \ {t}
      PROVE  /\ pc'[u] = pc[u] /\ op'[u] = op[u] /\ addr'[u] = addr[u]
             /\ frame'[u] = frame[u] /\ tempPage'[u] = tempPage[u]
  BY <1>1, <1>4 DEF TypeOK, Step, FaultHandler, Load, Store, FaultFree, MapFirst, ReadFirst, FaultEvict,
     WriteBack, ReadIn, Map, Unmap, FaultUpgrade, Done, Return, progVars, handlerVars
<1>. QED
  BY <1>1, <1>2, <1>3, <1>4 DEF ThreadInv

\* A worker's step stays within the worker's pages and frames.
LEMMA StepFootprint ==
  ASSUME IInv, NEW t \in Worker, Step(t)
  PROVE  Footprint(t)
<1>1. /\ TypeOK /\ ThreadInv /\ HandlerOK(t) /\ t \in Thread
      /\ PagesOf[t] \subseteq Page /\ FramesOf[t] \subseteq Frame
  BY PagingAssumption DEF IInv, HandlerInv, Worker
<1>2. op[t] # "idle" /\ addr[t] \in PagesOf[t] /\ phase = "threads"
  BY <1>1, StepFacts DEF ThreadInv, Home, Worker
<1>3. ASSUME NEW p \in Page, Resident(p)
      PROVE  p \in PagesOf[t] <=> pageMapping[p] \in FramesOf[t]
  <2>1. PICK w \in Worker : p \in PagesOf[w] /\ pageMapping[p] \in FramesOf[w]
    BY <1>2, <1>3 DEF IInv, OwnedInv
  <2>. QED
    BY <2>1, PagingAssumption
<1>4. InHandler(t) => frame[t] \in FramesOf[t]
  BY <1>1 DEF ThreadInv
<1>5. Evicting(t) => tempPage[t] \in PagesOf[t]
  BY <1>1, <1>3, <1>4 DEF HandlerOK, TypeOK, InHandler, Evicting
<1>6. CASE UNCHANGED <<pageBits, pageMapping, physmem, store>>
  BY <1>1, <1>3, <1>6 DEF Footprint, Resident
<1> USE DEF Footprint, Resident, TypeOK, progVars, ptVars, handlerVars
<1>7. CASE Store(t)
  BY <1>1, <1>2, <1>3, <1>7 DEF Store
<1>8. CASE MapFirst(t)
  BY <1>1, <1>2, <1>3, <1>4, <1>8 DEF MapFirst, InHandler
<1>9. CASE ReadFirst(t)
  BY <1>1, <1>2, <1>3, <1>4, <1>9 DEF ReadFirst, InHandler
<1>10. CASE WriteBack(t)
  BY <1>1, <1>2, <1>3, <1>5, <1>10 DEF WriteBack, Evicting
<1>11. CASE ReadIn(t)
  BY <1>1, <1>2, <1>3, <1>4, <1>11 DEF ReadIn, InHandler
<1>12. CASE Map(t)
  BY <1>1, <1>2, <1>3, <1>4, <1>12 DEF Map, InHandler
<1>13. CASE Unmap(t)
  BY <1>1, <1>2, <1>3, <1>5, <1>13 DEF Unmap, Evicting
<1>14. CASE FaultUpgrade(t)
  BY <1>1, <1>2, <1>3, <1>14 DEF FaultUpgrade
<1>15. CASE Load(t) \/ FaultFree(t) \/ FaultEvict(t)
  BY <1>6, <1>15 DEF Load, FaultFree, FaultEvict
<1>. QED
  BY <1>7, <1>8, <1>9, <1>10, <1>11, <1>12, <1>13, <1>14, <1>15 DEF Step, FaultHandler

\* A step of one thread disturbs no other thread's handler.
LEMMA OtherHandlers ==
  ASSUME IInv, NEW t \in Thread, NEW u \in Thread, u # t, Step(t)
  PROVE  HandlerOK(u)'
<1>1. /\ op[t] # "idle" /\ pc'[u] = pc[u] /\ addr'[u] = addr[u]
      /\ frame'[u] = frame[u] /\ tempPage'[u] = tempPage[u]
  BY StepFacts
<1>2. CASE ~InHandler(u)
  BY <1>1, <1>2 DEF InHandler, HandlerOK, Evicting
<1>3. CASE InHandler(u)
  <2>1. /\ t \in Worker /\ PagesOf[t] \cap PagesOf[u] = {} /\ FramesOf[t] \cap FramesOf[u] = {}
        /\ addr[u] \in PagesOf[u] /\ frame[u] \in FramesOf[u]
        /\ Evicting(u) => tempPage[u] \in PagesOf[u]
    BY <1>1, <1>3, Others
  <2>2. Footprint(t) /\ HandlerOK(u) /\ TypeOK
    BY <2>1, StepFootprint DEF IInv, HandlerInv
  <2>3. addr[u] \in Page \ PagesOf[t] /\ frame[u] \in Frame \ FramesOf[t]
        /\ (Evicting(u) => tempPage[u] \in Page \ PagesOf[t])
    BY <2>1, <2>2 DEF TypeOK
  <2>4. pc[u] = "mapFirst" => \A p \in Page : Resident(p)' => pageMapping'[p] # frame[u]
    BY <2>1, <2>2, <2>3, SMTT(30) DEF Footprint, HandlerOK, Resident
  <2>. QED
    BY <1>1, <2>2, <2>3, <2>4, SMTT(30) DEF Footprint, HandlerOK, Resident, Evicting
<1>. QED
  BY <1>2, <1>3
\* The handler of the thread that takes a step is where its pc says.
LEMMA OwnHandler ==
  ASSUME IInv, NEW t \in Thread, Step(t)
  PROVE  HandlerOK(t)'
<1>1. TypeOK /\ HandlerOK(t) /\ op[t] # "idle"
  BY StepFacts DEF IInv, HandlerInv
<1> USE DEF HandlerOK, Evicting, Resident, TypeOK, progVars, ptVars, handlerVars
<1>2. CASE Load(t) \/ Store(t)
  BY <1>1, <1>2 DEF Load, Store, MayRun, Done
<1>3. CASE FaultFree(t)
  BY <1>1, <1>3 DEF FaultFree, MayRun
<1>4. CASE MapFirst(t)
  BY <1>1, <1>4 DEF MapFirst
<1>5. CASE ReadFirst(t)
  BY <1>1, <1>5 DEF ReadFirst
<1>6. CASE FaultEvict(t)
  <2>1. PICK v \in Page :
           /\ Resident(v) /\ pageMapping[v] \in FramesOf[t]
           /\ tempPage' = [tempPage EXCEPT ![t] = v]
           /\ frame' = [frame EXCEPT ![t] = pageMapping[v]]
           /\ pc' = [pc EXCEPT ![t] = IF pageBits[v] = "RW" THEN "write" ELSE "read"]
    BY <1>6, Zenon DEF FaultEvict
  <2>2. pageBits[v] = "READ" => physmem[pageMapping[v]] = store[v]
    <3>1. SUFFICES ASSUME pageBits[v] = "READ" PROVE \A u \in Thread : ~InFlight(u, v)
      BY <3>1 DEF IInv, CleanPagesMatchStore
    <3>2. ASSUME NEW u \in Thread, InFlight(u, v) PROVE FALSE
      <4>1. u # t /\ InHandler(u)
        BY <1>6, <3>2 DEF InFlight, FaultEvict, MayRun, InHandler
      <4>2. /\ frame[u] \in FramesOf[u] /\ FramesOf[t] \cap FramesOf[u] = {}
        BY <1>1, <4>1, Others
      <4>3. pageMapping[v] = frame[u]
        BY <3>2 DEF InFlight, IInv, HandlerInv
      <4>. QED
        BY <2>1, <4>2, <4>3
    <3>. QED
      BY <3>2, Zenon
  <2>. QED
    BY <1>1, <1>6, <2>1, <2>2, SMTT(30) DEF FaultEvict, MayRun, Bits
<1>7. CASE WriteBack(t)
  BY <1>1, <1>7 DEF WriteBack
<1>8. CASE ReadIn(t)
  BY <1>1, <1>8 DEF ReadIn
<1>9. CASE Map(t)
  BY <1>1, <1>9 DEF Map
<1>10. CASE Unmap(t)
  BY <1>1, <1>10 DEF Unmap
<1>11. CASE FaultUpgrade(t)
  BY <1>1, <1>11 DEF FaultUpgrade, MayRun
<1>. QED
  BY <1>2, <1>3, <1>4, <1>5, <1>6, <1>7, <1>8, <1>9, <1>10, <1>11, ZenonT(30) DEF Step, FaultHandler

\* A step leaves every thread in its phase, on its pages and in its frames.
LEMMA StepThreadInv ==
  ASSUME IInv, NEW t \in Thread, Step(t)
  PROVE  ThreadInv' /\ OwnedInv'
<1>1. TypeOK /\ ThreadInv /\ op[t] # "idle" /\ phase' = phase /\ phase = Home(t)
  BY StepFacts DEF IInv
<1>2. ASSUME NEW u \in Thread
      PROVE  /\ op'[u] # "idle" => phase' = Home(u) /\ addr'[u] \in PagesOf[u]
             /\ pc'[u] \notin {"new", "run"} => op'[u] # "idle" /\ frame'[u] \in FramesOf[u]
  <2>1. CASE u # t
    BY <1>1, <2>1, StepFacts DEF ThreadInv, InHandler
  <2>2. CASE u = t
    <3>1. /\ addr[t] \in PagesOf[t]
          /\ pc[t] \notin {"new", "run"} => frame[t] \in FramesOf[t]
      BY <1>1 DEF ThreadInv, InHandler
    <3>2. CASE Load(t) \/ Store(t) \/ FaultUpgrade(t)
      BY <1>1, <2>2, <3>1, <3>2 DEF Load, Store, FaultUpgrade, Done, MayRun, TypeOK, progVars, handlerVars
    <3>3. CASE FaultFree(t) \/ FaultEvict(t)
      BY <1>1, <2>2, <3>1, <3>3 DEF FaultFree, FaultEvict, TypeOK, progVars
    <3>4. CASE ReadFirst(t) \/ Unmap(t)
      BY <1>1, <2>2, <3>1, <3>4 DEF ReadFirst, Unmap, TypeOK, progVars
    <3>5. CASE MapFirst(t) \/ WriteBack(t) \/ ReadIn(t) \/ Map(t)
      BY <1>1, <2>2, <3>1, <3>5 DEF MapFirst, WriteBack, ReadIn, Map, TypeOK, progVars, handlerVars
    <3>. QED
      BY <3>2, <3>3, <3>4, <3>5 DEF Step, FaultHandler
  <2>. QED
    BY <2>1, <2>2
<1>3. ThreadInv'
  BY <1>2 DEF ThreadInv, InHandler, Home
<1>4. OwnedInv'
  <2>1. SUFFICES ASSUME phase = "threads", NEW p \in Page, pageBits'[p] # "NONE"
                 PROVE  \E w \in Worker : p \in PagesOf[w] /\ pageMapping'[p] \in FramesOf[w]
    BY <1>1 DEF OwnedInv, Resident
  <2>2. t \in Worker
    BY <1>1, <2>1 DEF Home, Worker
  <2>3. Footprint(t)
    BY <2>2, StepFootprint
  <2>4. CASE p \in PagesOf[t]
    BY <2>1, <2>2, <2>3, <2>4 DEF Footprint
  <2>5. CASE p \notin PagesOf[t]
    BY <2>1, <2>3, <2>5, SMTT(30) DEF Footprint, IInv, OwnedInv, Resident
  <2>. QED
    BY <2>4, <2>5
<1>. QED
  BY <1>3, <1>4
\* A step makes two pages share a frame only in the handler that is replacing
\* one by the other.
LEMMA StepFramesNotShared ==
  ASSUME IInv, NEW t \in Thread, Step(t)
  PROVE  FramesNotShared'
<1>1. TypeOK /\ HandlerOK(t) /\ FramesNotShared /\ op[t] # "idle"
  BY StepFacts DEF IInv, HandlerInv
<1>2. SUFFICES ASSUME NEW p \in Page, NEW q \in Page, p # q,
                      pageBits'[p] # "NONE", pageBits'[q] # "NONE",
                      pageMapping'[p] = pageMapping'[q]
               PROVE  \E u \in Thread : pc'[u] = "unmap" /\ {p, q} = {addr'[u], tempPage'[u]}
  BY DEF FramesNotShared, Resident
<1>3. ASSUME Resident(p), Resident(q), pageMapping[p] = pageMapping[q],
             pc[t] # "unmap" \/ tempPage[t] \notin {p, q}
      PROVE  \E u \in Thread : pc'[u] = "unmap" /\ {p, q} = {addr'[u], tempPage'[u]}
  <2>1. PICK u \in Thread : pc[u] = "unmap" /\ {p, q} = {addr[u], tempPage[u]}
    BY <1>1, <1>2, <1>3 DEF FramesNotShared
  <2>2. u # t
    BY <1>3, <2>1
  <2>. QED
    BY <2>1, <2>2, StepFacts
<1>4. CASE pc[t] \notin {"mapFirst", "map", "unmap"}
  <2>1. pageMapping' = pageMapping /\ (pageBits' = pageBits \/ FaultUpgrade(t))
    BY <1>4, Zenon DEF Step, FaultHandler, Load, Store, FaultFree, MapFirst, ReadFirst, FaultEvict,
       WriteBack, ReadIn, Map, Unmap, FaultUpgrade, ptVars
  <2>2. Resident(p) /\ Resident(q)
    BY <1>1, <1>2, <2>1, SMTT(30) DEF FaultUpgrade, Resident, TypeOK
  <2>. QED
    BY <1>2, <1>3, <1>4, <2>1, <2>2, SMTT(30)
<1>5. CASE MapFirst(t)
  <2>1. /\ pageMapping' = [pageMapping EXCEPT ![addr[t]] = frame[t]]
        /\ pageBits' = [pageBits EXCEPT ![addr[t]] = "READ"]
        /\ pc[t] = "mapFirst"
    BY <1>5 DEF MapFirst
  <2>2. \A x \in Page : Resident(x) => pageMapping[x] # frame[t]
    BY <1>1, <2>1 DEF HandlerOK
  <2>3. p # addr[t] /\ q # addr[t]
    BY <1>1, <1>2, <2>1, <2>2 DEF Resident, TypeOK
  <2>. QED
    BY <1>1, <1>2, <1>3, <2>1, <2>3, Zenon DEF Resident, TypeOK
<1>6. CASE Map(t)
  <2>1. \A x \in Page : Resident(x) /\ pageMapping[x] = frame[t] => x = tempPage[t]
    BY <1>6, FrameExclusive DEF Map, InHandler
  <2>2. /\ pageMapping' = [pageMapping EXCEPT ![addr[t]] = frame[t]]
        /\ pageBits' = [pageBits EXCEPT ![addr[t]] = "READ"]
        /\ pc'[t] = "unmap" /\ addr'[t] = addr[t] /\ tempPage'[t] = tempPage[t] /\ pc[t] = "map"
    BY <1>1, <1>6 DEF Map, TypeOK, progVars, handlerVars
  <2>3. CASE p = addr[t] \/ q = addr[t]
    BY <1>1, <1>2, <2>1, <2>2, <2>3 DEF Resident, TypeOK
  <2>4. CASE p # addr[t] /\ q # addr[t]
    BY <1>1, <1>2, <1>3, <2>2, <2>4, Zenon DEF Resident, TypeOK
  <2>. QED
    BY <2>3, <2>4
<1>7. CASE Unmap(t)
  BY <1>1, <1>2, <1>3, <1>7, Zenon DEF Unmap, Resident, TypeOK
<1>8. pc[t] \in {"mapFirst", "map", "unmap"} => MapFirst(t) \/ Map(t) \/ Unmap(t)
  <2>1. pc[t] \in {"run", "readFirst", "write", "read"} \/ MapFirst(t) \/ Map(t) \/ Unmap(t)
    BY Zenon DEF Step, FaultHandler, Load, Store, FaultFree, ReadFirst, FaultEvict, WriteBack,
       ReadIn, FaultUpgrade, MayRun
  <2>. QED
    BY <2>1
<1>. QED
  BY <1>4, <1>5, <1>6, <1>7, <1>8, Zenon

\* A step leaves a clean page equal to its copy in the store.
LEMMA StepCleanPages ==
  ASSUME IInv, NEW t \in Thread, Step(t)
  PROVE  CleanPagesMatchStore'
<1>1. TypeOK /\ HandlerOK(t) /\ CleanPagesMatchStore /\ op[t] # "idle"
  BY StepFacts DEF IInv, HandlerInv
<1>2. SUFFICES ASSUME NEW p \in Page, pageBits'[p] = "READ", \A u \in Thread : ~InFlight(u, p)'
               PROVE  physmem'[pageMapping'[p]] = store'[p]
  BY DEF CleanPagesMatchStore
<1>3. ASSUME pageBits[p] = "READ", ~InFlight(t, p)
      PROVE  physmem[pageMapping[p]] = store[p]
  <2>1. \A u \in Thread \ {t} : ~InFlight(u, p)
    BY <1>2, StepFacts, SMTT(30) DEF InFlight
  <2>. QED
    BY <1>1, <1>3, <2>1 DEF CleanPagesMatchStore
<1> USE DEF TypeOK, InFlight, Resident, progVars, ptVars, handlerVars
<1>4. CASE Load(t) \/ FaultFree(t) \/ FaultEvict(t)
  BY <1>2, <1>3, <1>4 DEF Load, FaultFree, FaultEvict, MayRun
<1>5. CASE Store(t)
  <2>1. pc[t] = "run" /\ Resident(addr[t]) /\ p # addr[t] /\ Resident(p)
    BY <1>2, <1>5, Zenon DEF Store, MayRun
  <2>2. pageMapping[p] # pageMapping[addr[t]]
    BY <1>1, <2>1, AccessExclusive
  <2>. QED
    BY <1>1, <1>2, <1>3, <1>5, <2>1, <2>2, SMTT(30) DEF Store
<1>6. CASE MapFirst(t)
  BY <1>1, <1>2, <1>3, <1>6 DEF MapFirst
<1>7. CASE ReadFirst(t)
  <2>1. Resident(p) /\ pageMapping[p] = frame[t] => p = addr[t]
    BY <1>7, FrameExclusive DEF ReadFirst, InHandler, Evicting
  <2>. QED
    BY <1>1, <1>2, <1>3, <1>7, <2>1, SMTT(30) DEF ReadFirst, HandlerOK
<1>8. CASE WriteBack(t)
  BY <1>1, <1>2, <1>3, <1>8 DEF WriteBack, HandlerOK
<1>9. CASE ReadIn(t)
  <2>1. Resident(p) /\ pageMapping[p] = frame[t] => p = tempPage[t]
    BY <1>9, FrameExclusive DEF ReadIn, InHandler
  <2>. QED
    BY <1>1, <1>2, <1>3, <1>9, <2>1 DEF ReadIn
<1>10. CASE Map(t)
  BY <1>1, <1>2, <1>3, <1>10 DEF Map, HandlerOK
<1>11. CASE Unmap(t)
  BY <1>1, <1>2, <1>3, <1>11 DEF Unmap
<1>12. CASE FaultUpgrade(t)
  BY <1>1, <1>2, <1>3, <1>12 DEF FaultUpgrade, MayRun
<1>. QED
  BY <1>4, <1>5, <1>6, <1>7, <1>8, <1>9, <1>10, <1>11, <1>12 DEF Step, FaultHandler

\* The invariant is inductive.
LEMMA NextIInv == IInv /\ [Next]_vars => IInv'
<1> SUFFICES ASSUME IInv, [Next]_vars PROVE IInv'
  OBVIOUS
<1>1. TypeOK' /\ TypeOK
  BY TypeStep DEF IInv
<1>2. ASSUME NEW t \in Thread, Step(t) PROVE IInv'
  <2>1. HandlerInv'
    BY <1>2, OwnHandler, OtherHandlers DEF HandlerInv
  <2>. QED
    BY <1>1, <1>2, <2>1, StepThreadInv, StepFramesNotShared, StepCleanPages DEF IInv
<1>3. ASSUME NEW t \in Thread, Issue(t) PROVE IInv'
  <2>1. /\ pc[t] = "run" /\ phase = Home(t) /\ op[t] = "idle" /\ addr'[t] \in PagesOf[t]
        /\ \A u \in Thread \ {t} : addr'[u] = addr[u] /\ op'[u] = op[u]
        /\ UNCHANGED <<pageBits, pageMapping, physmem, store, pc, frame, tempPage, phase>>
    BY <1>1, <1>3, SMTT(30) DEF Issue, MayRun, Home, TypeOK, ptVars, handlerVars
  <2>2. ThreadInv'
    BY <1>1, <2>1, Zenon DEF IInv, ThreadInv, InHandler, Home
  <2>3. HandlerInv'
    BY <1>1, <2>1 DEF IInv, HandlerInv, HandlerOK, Evicting, Resident
  <2>4. FramesNotShared'
    <3> SUFFICES ASSUME NEW p \in Page, NEW q \in Page,
                        Resident(p), Resident(q), p # q, pageMapping[p] = pageMapping[q]
                 PROVE  \E u \in Thread : pc'[u] = "unmap" /\ {p, q} = {addr'[u], tempPage'[u]}
      BY <2>1, Zenon DEF FramesNotShared, Resident
    <3>1. PICK u \in Thread : pc[u] = "unmap" /\ {p, q} = {addr[u], tempPage[u]}
      BY DEF IInv, FramesNotShared
    <3>2. u # t
      BY <2>1, <3>1, SMTT(30)
    <3>. QED
      BY <2>1, <3>1, <3>2, Zenon
  <2>5. CleanPagesMatchStore'
    BY <1>1, <2>1 DEF IInv, CleanPagesMatchStore, InFlight
  <2>6. OwnedInv'
    BY <2>1 DEF IInv, OwnedInv, Resident
  <2>. QED
    BY <1>1, <2>2, <2>3, <2>4, <2>5, <2>6 DEF IInv
<1>4. ASSUME NEW t \in Thread, InitThread(t) PROVE IInv'
  <2>1. /\ pc[t] = "new" /\ pc'[t] = "run" /\ \A u \in Thread \ {t} : pc'[u] = pc[u]
        /\ UNCHANGED <<op, addr, pageBits, pageMapping, physmem, store, frame, tempPage, phase>>
    BY <1>1, <1>4 DEF InitThread, TypeOK, ptVars, progVars, handlerVars
  <2>2. ThreadInv'
    BY <1>1, <2>1 DEF IInv, ThreadInv, InHandler, Home
  <2>3. HandlerInv'
    BY <1>1, <2>1 DEF IInv, HandlerInv, HandlerOK, Evicting, Resident
  <2>4. FramesNotShared'
    <3> SUFFICES ASSUME NEW p \in Page, NEW q \in Page,
                        Resident(p), Resident(q), p # q, pageMapping[p] = pageMapping[q]
                 PROVE  \E u \in Thread : pc'[u] = "unmap" /\ {p, q} = {addr'[u], tempPage'[u]}
      BY <2>1, Zenon DEF FramesNotShared, Resident
    <3>1. PICK u \in Thread : pc[u] = "unmap" /\ {p, q} = {addr[u], tempPage[u]}
      BY DEF IInv, FramesNotShared
    <3>2. u # t
      BY <2>1, <3>1
    <3>. QED
      BY <2>1, <3>1, <3>2, Zenon
  <2>5. CleanPagesMatchStore'
    BY <1>1, <2>1 DEF IInv, CleanPagesMatchStore, InFlight
  <2>6. OwnedInv'
    BY <2>1, SMTT(30) DEF IInv, OwnedInv, Resident
  <2>. QED
    BY <1>1, <2>2, <2>3, <2>4, <2>5, <2>6 DEF IInv
<1>5. ASSUME \A t \in Thread : op[t] = "idle",
             UNCHANGED <<op, addr, pageBits, pageMapping, physmem, store, pc, frame, tempPage>>,
             phase' = "threads" => \A p \in Page : ~Resident(p)
      PROVE  IInv'
  BY <1>1, <1>5 DEF IInv, ThreadInv, OwnedInv, HandlerInv, HandlerOK, FramesNotShared,
     CleanPagesMatchStore, InFlight, InHandler, Evicting, Resident
<1>6. CASE StartFlush \/ EndFlush \/ Clean
  <2>1. \A t \in Thread : op[t] = "idle"
    BY <1>6 DEF StartFlush, EndFlush, Clean, MayRun, IInv, ThreadInv, Home
  <2>. QED
    BY <1>5, <1>6, <2>1 DEF StartFlush, EndFlush, Clean, progVars, ptVars, handlerVars
<1>7. ASSUME NEW p \in Page, FlushPage(p) PROVE IInv'
  <2>1. \A t \in Thread : op[t] = "idle" /\ pc[t] \in {"new", "run"}
    BY <1>7 DEF FlushPage, IInv, ThreadInv, InHandler, Home
  <2>2. /\ pageBits' = [pageBits EXCEPT ![p] = "NONE"]
        /\ UNCHANGED <<op, addr, pageMapping, physmem, pc, frame, tempPage, phase>>
        /\ phase = "flush" /\ \A q \in Page \ {p} : store'[q] = store[q]
    BY <1>1, <1>7 DEF FlushPage, TypeOK, progVars, handlerVars
  <2>3. ThreadInv' /\ OwnedInv' /\ HandlerInv'
    BY <1>1, <2>1, <2>2, SMTT(30) DEF ThreadInv, OwnedInv, HandlerInv, HandlerOK, InHandler, Evicting
  <2>4. FramesNotShared'
    BY <1>1, <2>1, <2>2 DEF IInv, FramesNotShared, Resident, TypeOK
  <2>5. CleanPagesMatchStore'
    BY <1>1, <2>1, <2>2, SMTT(30) DEF IInv, CleanPagesMatchStore, InFlight, TypeOK
  <2>. QED
    BY <1>1, <2>3, <2>4, <2>5 DEF IInv
<1>8. CASE UNCHANGED vars
  <2>1. /\ UNCHANGED <<op, addr, phase, pc, frame, tempPage>>
        /\ UNCHANGED <<pageBits, pageMapping, physmem, store>>
    BY <1>8 DEF vars
  <2>2. ThreadInv' /\ OwnedInv'
    BY <2>1 DEF IInv, ThreadInv, OwnedInv, InHandler, Resident
  <2>3. HandlerInv'
    BY <2>1 DEF IInv, HandlerInv, HandlerOK, Evicting, Resident
  <2>4. FramesNotShared'
    BY <2>1, Zenon DEF IInv, FramesNotShared, Resident
  <2>5. CleanPagesMatchStore'
    BY <2>1 DEF IInv, CleanPagesMatchStore, InFlight
  <2>. QED
    BY <1>1, <2>2, <2>3, <2>4, <2>5 DEF IInv
<1>. QED
  BY <1>2, <1>3, <1>4, <1>6, <1>7, <1>8 DEF Next, Program, Step

\* The inductive invariant holds in every reachable state.
THEOREM InvariantHolds == Spec => []IInv
  BY InitIInv, NextIInv, PTL DEF Spec

\* Every variable of the page table keeps its type.
THEOREM TypeCorrect == Spec => []TypeOK
  BY InvariantHolds, PTL DEF IInv

\* Two resident pages share a frame only between the two calls of
\* page_table_set_entry that replace one by the other.
THEOREM FramesAreNotShared == Spec => []FramesNotShared
  BY InvariantHolds, PTL DEF IInv

\* A page whose protection is PROT_READ equals its copy in the backing
\* store, so the handlers may drop it without writeData.
THEOREM CleanPagesCanBeDropped == Spec => []CleanPagesMatchStore
  BY InvariantHolds, PTL DEF IInv
=============================================================================
