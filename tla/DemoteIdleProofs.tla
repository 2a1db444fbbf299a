-------------------------- MODULE DemoteIdleProofs --------------------------
(* Proofs about the demote-idle policy, for any number of loops: types, no  *)
(* page of interest is lost, a stop reaches who waits, and only a shared    *)
(* word of the bitmap makes a page look idle that has been accessed.        *)
EXTENDS DemoteIdle, TLAPS

LEMMA TypeInit == Init => TypeOK
<1> SUFFICES ASSUME Init PROVE TypeOK
  OBVIOUS
<1>1. {snapshots, idlePages} \subseteq [Loops -> SUBSET Pages]
  BY DEF Init
<1>2. \A l \in Loops : pid[l] = None /\ pc[l] = "off"
  BY DEF Init
<1>3. {poi, idle, onDest, recent, masked, handed} \subseteq SUBSET Pages
  BY DEF Init
<1> QED BY <1>1, <1>2, <1>3 DEF Init, TypeOK

LEMMA TypeNext == TypeOK /\ [Next]_vars => TypeOK'
<1> SUFFICES ASSUME TypeOK, [Next]_vars PROVE TypeOK'
  OBVIOUS
<1> USE DEF pageVars, lifeCycle, locals
<1>1. CASE Environment
  <2>1. ASSUME NEW pg \in Pages, Access(pg) PROVE TypeOK'
    BY <2>1 DEF TypeOK, Access
  <2>2. ASSUME NEW p \in Pids, Exit(p) PROVE TypeOK'
    BY <2>2 DEF TypeOK, Exit
  <2>3. ASSUME NEW pages \in Files, WriteFiles(pages) PROVE TypeOK'
    <3>1. pages \subseteq Pages
      BY ConstantsAssumption
    <3>2. {poi, idle, onDest, recent, masked, handed}' \subseteq SUBSET Pages
      BY <2>3, <3>1 DEF TypeOK, WriteFiles
    <3> QED BY <2>3, <3>2 DEF TypeOK, WriteFiles
  <2> QED BY <1>1, <2>1, <2>2, <2>3 DEF Environment
<1>2. CASE Watcher
  <2>1. ASSUME NEW p \in Pids, AddPids(p) PROVE TypeOK'
    BY <2>1 DEF TypeOK, AddPids, PagesOf
  <2>2. ASSUME NEW p \in Pids, RemovePids(p) PROVE TypeOK'
    BY <2>2 DEF TypeOK, RemovePids
  <2> QED BY <1>2, <2>1, <2>2 DEF Watcher
<1>3. CASE Start
  BY <1>3 DEF TypeOK, Start, Goes
<1>4. CASE Stop
  BY <1>4 DEF TypeOK, Stop
<1>5. CASE Forget
  BY <1>5 DEF TypeOK, Forget
<1>6. ASSUME NEW task \in tasks, MoverMoves(task) PROVE TypeOK'
  BY <1>6 DEF TypeOK, MoverMoves
<1>7. ASSUME NEW l \in Loops, Step(l) PROVE TypeOK'
  <2>1. CASE Snapshot(l)
    BY <2>1 DEF TypeOK, Snapshot, Goes
  <2>2. CASE Look(l)
    BY <2>2 DEF TypeOK, Look, Goes
  <2>3. ASSUME NEW p \in Pids, OpenPagemap(l, p) PROVE TypeOK'
    BY <2>3, ConstantsAssumption DEF TypeOK, OpenPagemap, Goes
  <2>4. ASSUME NEW p \in Pids, CannotOpenPagemap(l, p) PROVE TypeOK'
    BY <2>4 DEF TypeOK, CannotOpenPagemap, Goes
  <2>5. CASE Scan(l)
    BY <2>5 DEF TypeOK, Scan, Ranges, Goes
  <2>6. CASE AddTask(l)
    <3>1. ToMove(l) \subseteq Pages /\ ToMove(l) # {}
      BY <2>6 DEF TypeOK, AddTask, ToMove, NotOnNode
    <3> QED BY <2>6, <3>1 DEF TypeOK, AddTask, Goes
  <2>7. CASE NothingToMove(l)
    BY <2>7 DEF TypeOK, NothingToMove, Goes
  <2>8. CASE Subtract(l)
    BY <2>8 DEF TypeOK, Subtract, Goes
  <2>9. CASE SetIdleAll(l)
    BY <2>9 DEF TypeOK, SetIdleAll, MarkedBy, Goes
  <2>10. CASE RoundEnds(l)
    BY <2>10 DEF TypeOK, RoundEnds, Goes
  <2>11. CASE Tick(l)
    BY <2>11 DEF TypeOK, Tick, Goes
  <2> QED BY <1>7, <2>1, <2>2, <2>3, <2>4, <2>5, <2>6, <2>7, <2>8, <2>9, <2>10, <2>11 DEF Step
<1>8. ASSUME NEW l \in Loops, Return(l) PROVE TypeOK'
  BY <1>8 DEF TypeOK, Return, Goes
<1>9. CASE UNCHANGED vars
  BY <1>9 DEF TypeOK, vars
<1> QED BY <1>1, <1>2, <1>3, <1>4, <1>5, <1>6, <1>7, <1>8, <1>9 DEF Next, MoverStep

\* The policy's state always has its type; in particular a loop works on a
\* process exactly between opening its pagemap and setting its idle flags.
THEOREM TypeCorrect == Spec => []TypeOK
  BY TypeInit, TypeNext, PTL DEF Spec

-----------------------------------------------------------------------------
\* The pages a loop is about to take out of the pages of interest have been
\* given to the mover.
Interest ==
  ~usePOIDir =>
    /\ KeptOrHandedOver
    /\ \A l \in Loops : pc[l] = "subtract" => idlePages[l] \subseteq handed

LEMMA InterestNext == TypeOK /\ Interest /\ [Next]_vars => Interest'
<1> SUFFICES ASSUME TypeOK, Interest, [Next]_vars, ~usePOIDir' PROVE Interest'
  BY DEF Interest
<1>0. ~usePOIDir
  BY DEF Next, vars, Environment, Access, Exit, WriteFiles, Watcher, AddPids, RemovePids, Start,
     Stop, Forget, MoverStep, MoverMoves, Step, Snapshot, Look, OpenPagemap, CannotOpenPagemap,
     Scan, AddTask, NothingToMove, Subtract, SetIdleAll, RoundEnds, Tick, Return
<1> USE <1>0 DEF Interest, KeptOrHandedOver
<1>1. ASSUME UNCHANGED <<told, poi, handed, idlePages>>, alive' \subseteq alive,
            \A l \in Loops : pc'[l] = "subtract" => pc[l] = "subtract"
      PROVE Interest'
  BY <1>1
<1>2. CASE Environment
  BY <1>1, <1>2 DEF Environment, Access, Exit, WriteFiles, locals
<1>3. CASE Watcher
  <2>1. ASSUME NEW p \in Pids, AddPids(p) PROVE Interest'
    BY <2>1 DEF AddPids, PagesOf, locals
  <2>2. ASSUME NEW p \in Pids, RemovePids(p) PROVE Interest'
    BY <2>2 DEF RemovePids, PagesOf, locals
  <2> QED BY <1>3, <2>1, <2>2 DEF Watcher
<1>4. CASE Start \/ Stop \/ Forget
  BY <1>1, <1>4 DEF Start, Stop, Forget, Goes, TypeOK, locals
<1>5. CASE MoverStep
  BY <1>1, <1>5 DEF MoverStep, MoverMoves, locals
<1>6. ASSUME NEW l \in Loops, Step(l) PROVE Interest'
  <2>1. CASE Snapshot(l) \/ Look(l) \/ RoundEnds(l) \/ Tick(l)
    BY <1>1, <2>1 DEF Snapshot, Look, RoundEnds, Tick, Goes, TypeOK, locals
  <2>2. ASSUME NEW p \in Pids, OpenPagemap(l, p) PROVE Interest'
    BY <1>1, <2>2 DEF OpenPagemap, Goes, TypeOK
  <2>3. ASSUME NEW p \in Pids, CannotOpenPagemap(l, p) PROVE Interest'
    BY <2>3 DEF CannotOpenPagemap, PagesOf, Goes, TypeOK
  <2>4. CASE Scan(l)
    BY <2>4 DEF Scan, Goes, TypeOK
  <2>5. CASE AddTask(l)
    BY <2>5 DEF AddTask, Goes, TypeOK
  <2>6. CASE NothingToMove(l)
    BY <2>6 DEF NothingToMove, Goes, TypeOK
  <2>7. CASE Subtract(l)
    BY <2>7 DEF Subtract, Goes, TypeOK
  <2>8. CASE SetIdleAll(l)
    BY <1>1, <2>8 DEF SetIdleAll, Goes, TypeOK
  <2> QED BY <1>6, <2>1, <2>2, <2>3, <2>4, <2>5, <2>6, <2>7, <2>8 DEF Step
<1>7. ASSUME NEW l \in Loops, Return(l) PROVE Interest'
  BY <1>1, <1>7 DEF Return, Goes, TypeOK, locals
<1>8. CASE UNCHANGED vars
  BY <1>1, <1>8 DEF vars, locals
<1> QED BY <1>2, <1>3, <1>4, <1>5, <1>6, <1>7, <1>8 DEF Next

\* No page of a process that lives is lost from the pages of interest without
\* having been given to the mover, also with several loops after missed stops.
THEOREM NoPageLost == Spec => []KeptOrHandedOver
<1>1. Init => Interest
  BY DEF Init, Interest, KeptOrHandedOver
<1>2. Interest => KeptOrHandedOver
  BY DEF Interest, KeptOrHandedOver
<1> QED BY <1>1, <1>2, InterestNext, TypeCorrect, PTL DEF Spec

-----------------------------------------------------------------------------
\* While Stop is under way no loop waits on a channel that is open.
Waiters == StopReachesWaiters /\ (stopping => \A l \in Loops : waitsOn[l] \notin Loops)

LEMMA WaitersNext == TypeOK /\ Waiters /\ [Next]_vars => Waiters'
<1> SUFFICES ASSUME TypeOK, Waiters, [Next]_vars PROVE Waiters'
  OBVIOUS
<1> USE ConstantsAssumption DEF Waiters, StopReachesWaiters
<1>1. ASSUME UNCHANGED <<stop, stopping, waitsOn>> PROVE Waiters'
  BY <1>1
<1>2. CASE Environment
  BY <1>1, <1>2 DEF Environment, Access, Exit, WriteFiles, lifeCycle
<1>3. CASE Watcher
  BY <1>1, <1>3 DEF Watcher, AddPids, RemovePids, lifeCycle
<1>4. CASE Start
  BY <1>4 DEF Start, TypeOK
<1>5. CASE Stop
  BY <1>5 DEF Stop, TypeOK
<1>6. CASE Forget
  BY <1>6 DEF Forget
<1>7. CASE MoverStep
  BY <1>1, <1>7 DEF MoverStep, MoverMoves, lifeCycle
<1>8. ASSUME NEW l \in Loops, Step(l) PROVE Waiters'
  <2>1. CASE RoundEnds(l)
    BY <2>1 DEF RoundEnds, TypeOK, lifeCycle
  <2>2. CASE Tick(l)
    BY <2>2 DEF Tick, TypeOK, lifeCycle
  <2> QED BY <1>1, <1>8, <2>1, <2>2
       DEF Step, Snapshot, Look, OpenPagemap, CannotOpenPagemap, Scan, AddTask, NothingToMove,
           Subtract, SetIdleAll, lifeCycle
<1>9. ASSUME NEW l \in Loops, Return(l) PROVE Waiters'
  BY <1>9 DEF Return, TypeOK, lifeCycle
<1>10. CASE UNCHANGED vars
  BY <1>1, <1>10 DEF vars, lifeCycle
<1> QED BY <1>2, <1>3, <1>4, <1>5, <1>6, <1>7, <1>8, <1>9, <1>10 DEF Next

\* A loop never waits for a channel that no later Stop can close.
THEOREM NoOrphanedWaiter == Spec => []StopReachesWaiters
<1>1. Init => Waiters
  BY ConstantsAssumption DEF Init, Waiters, StopReachesWaiters
<1>2. Waiters => StopReachesWaiters
  BY DEF Waiters
<1> QED BY <1>1, <1>2, WaitersNext, TypeCorrect, PTL DEF Spec

-----------------------------------------------------------------------------
\* A flag that has been set over an access is known to be, and a loop that scans
\* has not found any pages yet.
FlagsTrue ==
  /\ idle \cap recent \subseteq masked
  /\ \A l \in Loops : pc[l] \notin {"submit", "subtract"} => idlePages[l] = {}

LEMMA FlagsNext == TypeOK /\ FlagsTrue /\ [Next]_vars => FlagsTrue'
<1> SUFFICES ASSUME TypeOK, FlagsTrue, [Next]_vars PROVE FlagsTrue'
  OBVIOUS
<1> USE DEF FlagsTrue
<1>1. ASSUME UNCHANGED <<idle, recent, masked, idlePages>>,
            \A l \in Loops : pc[l] \in {"submit", "subtract"} => pc'[l] = pc[l]
      PROVE FlagsTrue'
  BY <1>1
<1>2. CASE Environment
  <2> UNCHANGED <<pc, idlePages>>
    BY <1>2 DEF Environment, Access, Exit, WriteFiles, locals
  <2> idle' \cap recent' \subseteq masked'
    BY <1>2 DEF Environment, Access, Exit, WriteFiles, pageVars
  <2> QED OBVIOUS
<1>3. CASE Watcher \/ Start \/ Stop \/ Forget
  BY <1>1, <1>3 DEF Watcher, AddPids, RemovePids, Start, Stop, Forget, Goes, TypeOK, pageVars, locals
<1>4. CASE MoverStep
  BY <1>1, <1>4 DEF MoverStep, MoverMoves, locals
<1>5. ASSUME NEW l \in Loops, Step(l) PROVE FlagsTrue'
  <2>1. CASE SetIdleAll(l)
    <3>1. PICK marked : MarkedBy(l, marked)
      BY <2>1 DEF SetIdleAll
    <3>2. idle' \cap recent' \subseteq masked'
      BY <3>1 DEF MarkedBy
    <3> QED BY <2>1, <3>2 DEF SetIdleAll, Goes, TypeOK
  <2>2. CASE Snapshot(l) \/ Look(l) \/ RoundEnds(l) \/ Tick(l)
    BY <1>1, <2>2 DEF Snapshot, Look, RoundEnds, Tick, Goes, TypeOK, pageVars, locals
  <2>3. ASSUME NEW p \in Pids, OpenPagemap(l, p) \/ CannotOpenPagemap(l, p) PROVE FlagsTrue'
    BY <1>1, <2>3 DEF OpenPagemap, CannotOpenPagemap, Goes, TypeOK, pageVars
  <2>4. CASE Scan(l)
    BY <2>4 DEF Scan, Goes, TypeOK, pageVars
  <2>5. CASE AddTask(l) \/ NothingToMove(l) \/ Subtract(l)
    BY <2>5 DEF AddTask, NothingToMove, Subtract, Goes, TypeOK, pageVars
  <2> QED BY <1>5, <2>1, <2>2, <2>3, <2>4, <2>5 DEF Step
<1>6. ASSUME NEW l \in Loops, Return(l) PROVE FlagsTrue'
  BY <1>1, <1>6 DEF Return, Goes, TypeOK, pageVars, locals
<1>7. CASE UNCHANGED vars
  BY <1>1, <1>7 DEF vars, pageVars, locals
<1> QED BY <1>2, <1>3, <1>4, <1>5, <1>6, <1>7 DEF Next

\* However page frames share words of the idle bitmap: a page that was accessed
\* since its marking counts as idle in a scan only if the code has marked the
\* word again for another process (policy_demoteidle.go:435).
THEOREM OnlyASharedWordMasks == Spec => OnlyNeighboursMaskAccess
<1>1. Init => FlagsTrue
  BY DEF Init, FlagsTrue
<1>2. TypeOK /\ FlagsTrue /\ [Next]_vars => FlagsTrue'
  BY FlagsNext
<1>3. TypeOK /\ FlagsTrue /\ [Next]_vars
        => [\A l \in Loops : pc[l] = "scan" => idlePages'[l] \cap recent \subseteq masked]_vars
  <2> SUFFICES ASSUME TypeOK, FlagsTrue, Next, NEW l \in Loops, pc[l] = "scan"
               PROVE idlePages'[l] \cap recent \subseteq masked \/ UNCHANGED vars
    BY DEF vars
  <2>1. idlePages[l] = {}
    BY DEF FlagsTrue
  <2>2. CASE Scan(l)
    BY <2>2 DEF Scan, TypeOK, FlagsTrue
  <2>3. ASSUME NEW m \in Loops, Scan(m), m # l PROVE idlePages'[l] = {}
    BY <2>1, <2>3 DEF Scan, TypeOK
  <2>4. ASSUME NEW m \in Loops, AddTask(m) \/ NothingToMove(m) \/ Subtract(m)
        PROVE idlePages'[l] = {}
    BY <2>1, <2>4 DEF AddTask, NothingToMove, Subtract, Goes, TypeOK
  <2>5. ASSUME UNCHANGED idlePages PROVE idlePages'[l] = {}
    BY <2>1, <2>5
  <2>6. CASE Environment \/ Watcher \/ Start \/ Stop \/ Forget \/ MoverStep
    BY <2>5, <2>6 DEF Environment, Access, Exit, WriteFiles, Watcher, AddPids, RemovePids, Start,
       Stop, Forget, MoverStep, MoverMoves, locals
  <2>7. ASSUME NEW m \in Loops, Step(m) \/ Return(m)
        PROVE idlePages'[l] = {} \/ Scan(l)
    BY <2>3, <2>4, <2>5, <2>7
       DEF Step, Return, Snapshot, Look, OpenPagemap, CannotOpenPagemap, SetIdleAll, RoundEnds,
           Tick, locals
  <2> QED BY <2>2, <2>6, <2>7 DEF Next
<1> QED BY <1>1, <1>2, <1>3, TypeCorrect, PTL DEF Spec, OnlyNeighboursMaskAccess
=============================================================================
