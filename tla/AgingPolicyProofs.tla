-------------------------- MODULE AgingPolicyProofs --------------------------
(***************************************************************************)
(* Theorems about the age policy's book: its type, and that no counter in  *)
(* it is idle and active at once if idleness takes two intervals at least. *)
(***************************************************************************)
EXTENDS AgingPolicy, SequenceTheorems, FiniteSetTheorems, TLAPS

LEMMA ActiveRoundsNat ==
  ActiveRounds \in Nat /\ AskedRounds \in Nat /\ ActiveRounds <= AskedRounds
<1>1. AskedRounds \in Nat
  BY ConstantsAssumption DEF ConstantsAssumption, AskedRounds
<1>2. LastRoundsBits \in Nat \ {0}
  BY ConstantsAssumption DEF ConstantsAssumption
<1> QED BY <1>1, <1>2 DEF ActiveRounds

LEMMA LaterInt == \A age, delta \in Int : Later(age, delta) \in Int
  BY ConstantsAssumption DEF ConstantsAssumption, Later

\* What a counter's entry tells: if it changed when it was last seen, both
\* happened in the same round.
Truthful(e) == 0 \in e.rounds => e.changed = e.seen

\* A counter's next entry, seen or not, has its type and stays truthful.
LEMMA NewEntryOK ==
  ASSUME NEW accesses \in Nat
  PROVE  NewEntry(accesses) \in Entries /\ Truthful(NewEntry(accesses))
  BY ActiveRoundsNat DEF NewEntry, Entries, Truthful

LEMMA UpdateCounterOK ==
  ASSUME NEW e \in Entries, NEW accesses \in Nat, NEW delta \in Int
  PROVE  /\ UpdateCounter(e, accesses, delta) \in Entries
         /\ Truthful(UpdateCounter(e, accesses, delta))
<1>1. Shifted(e.rounds) \subseteq 1 .. ActiveRounds
  BY DEF Shifted
<1>2. /\ Shifted(e.rounds) \in SUBSET (0 .. ActiveRounds)
      /\ Shifted(e.rounds) \cup {0} \in SUBSET (0 .. ActiveRounds)
      /\ 0 \notin Shifted(e.rounds)
  BY <1>1, ActiveRoundsNat
<1>3. Later(e.changed, delta) \in Int
  BY LaterInt DEF Entries
<1>4. QED
  BY <1>2, <1>3 DEF UpdateCounter, Entries, Truthful

LEMMA UnseenOK ==
  ASSUME NEW e \in Entries, Truthful(e), NEW delta \in Int
  PROVE  Unseen(e, delta) \in Entries /\ Truthful(Unseen(e, delta))
<1>1. Later(e.changed, delta) \in Int /\ Later(e.seen, delta) \in Int
  BY LaterInt DEF Entries
<1>2. QED
  BY <1>1 DEF Unseen, Entries, Truthful

\* TypeOK says of the book that its entries are, and have not been unseen for
\* more than two intervals; this adds that they are truthful.
BookInv == TypeOK /\ \A r \in DOMAIN book : Truthful(book[r])

BookOf(b) ==
  /\ DOMAIN b \subseteq Ranges
  /\ \A r \in DOMAIN b : b[r] \in Entries /\ b[r].seen <= 2 * Interval /\ Truthful(b[r])

\* A round keeps the book.
LEMMA RoundKeepsBook ==
  ASSUME BookInv, NEW delta \in Deltas
  PROVE  BookOf(Without(UpdatedBook(delta), DeadCounters(UpdatedBook(delta))))
<1> DEFINE u == UpdatedBook(delta)
           b == Without(u, DeadCounters(u))
<1>1. delta \in Int
  BY ConstantsAssumption DEF ConstantsAssumption
<1>2. ASSUME NEW r \in DOMAIN counts PROVE counts[r] \in Nat
  BY ConstantsAssumption DEF BookInv, TypeOK, ConstantsAssumption
<1>3. DOMAIN u = DOMAIN book \cup DOMAIN counts
  BY DEF UpdatedBook
<1>4. ASSUME NEW r \in DOMAIN u PROVE u[r] \in Entries /\ Truthful(u[r])
  <2>1. CASE r \notin DOMAIN book
    <3>1. u[r] = NewEntry(counts[r]) /\ counts[r] \in Nat
      BY <2>1, <1>2, <1>3 DEF UpdatedBook
    <3>2. QED BY <3>1, NewEntryOK
  <2>2. CASE r \in DOMAIN book /\ r \in DOMAIN counts
    <3>1. u[r] = UpdateCounter(book[r], counts[r], delta) /\ counts[r] \in Nat
      BY <2>2, <1>2, <1>3 DEF UpdatedBook
    <3>2. book[r] \in Entries
      BY <2>2 DEF BookInv, TypeOK
    <3>3. QED BY <3>1, <3>2, <1>1, UpdateCounterOK
  <2>3. CASE r \in DOMAIN book /\ r \notin DOMAIN counts
    <3>1. u[r] = Unseen(book[r], delta)
      BY <2>3, <1>3 DEF UpdatedBook
    <3>2. book[r] \in Entries /\ Truthful(book[r])
      BY <2>3 DEF BookInv, TypeOK
    <3>3. QED BY <3>1, <3>2, <1>1, UnseenOK
  <2>4. QED BY <2>1, <2>2, <2>3
<1>5. DOMAIN b = DOMAIN u \ DeadCounters(u) /\ \A r \in DOMAIN b : b[r] = u[r]
  BY DEF Without
<1>6. ASSUME NEW r \in DOMAIN b
      PROVE  b[r] \in Entries /\ b[r].seen <= 2 * Interval /\ Truthful(b[r])
  <2>1. b[r] = u[r] /\ r \in DOMAIN u /\ ~(u[r].seen > 2 * Interval)
    BY <1>5 DEF DeadCounters
  <2>2. u[r] \in Entries /\ Truthful(u[r])
    BY <2>1, <1>4
  <2>3. u[r].seen \in Int /\ 2 * Interval \in Int
    BY <2>2, ConstantsAssumption DEF Entries, ConstantsAssumption
  <2>4. QED BY <2>1, <2>2, <2>3
<1>7. DOMAIN b \subseteq Ranges
  BY <1>3, <1>5 DEF BookInv, TypeOK
<1>8. QED
  BY <1>6, <1>7 DEF BookOf

-----------------------------------------------------------------------------
(* The invariant, action by action *)

LEMMA InitBookInv == Init => BookInv
<1> SUFFICES ASSUME Init PROVE BookInv
  OBVIOUS
<1>1. Zeros \in [Ranges -> Int] /\ Zeros \in [Ranges -> 0 .. AskedRounds]
  BY ActiveRoundsNat DEF Zeros
<1>2. DOMAIN <<>> = {}
  OBVIOUS
<1>3. /\ DOMAIN counts = {} /\ DOMAIN book = {}
      /\ on \in [Pages -> Nodes]
  BY <1>2 DEF Init, Nodes
<1>4. QED
  BY <1>1, <1>3 DEF Init, BookInv, TypeOK, Nodes

LEMMA ScanInv == ASSUME BookInv, NEW r \in Ranges, NEW n \in 0 .. MaxCount, Scan(r, n) PROVE BookInv'
<1> DEFINE old == IF r \in DOMAIN counts THEN counts[r] ELSE 0
<1>1. MaxCount \in Nat
  BY ConstantsAssumption DEF ConstantsAssumption
<1>2. old \in 0 .. MaxCount
  BY <1>1 DEF BookInv, TypeOK
<1>3. old + n \in 0 .. MaxCount
  BY <1>1, <1>2 DEF Scan
<1>4. /\ DOMAIN counts' \subseteq Ranges
      /\ \A q \in DOMAIN counts' : counts'[q] \in 0 .. MaxCount
  BY <1>3 DEF Scan, BookInv, TypeOK
<1>5. accessed' \subseteq Ranges
  BY DEF Scan, BookInv, TypeOK
<1>6. QED
  BY <1>4, <1>5 DEF Scan, BookInv, TypeOK, moving, locals, history

LEMMA RoundInv == ASSUME BookInv, NEW delta \in Deltas, Round(delta) PROVE BookInv'
<1>1. BookOf(book')
  BY RoundKeepsBook DEF Round
<1>2. delta \in Int
  BY ConstantsAssumption DEF ConstantsAssumption
<1>3. quiet' \in [Ranges -> Int]
  <2>1. \A r \in Ranges : quiet[r] \in Int
    BY DEF BookInv, TypeOK
  <2>2. \A r \in Ranges : Later(quiet[r], delta) \in Int
    BY <2>1, <1>2, LaterInt
  <2>3. QED BY <2>2 DEF Round
<1>4. busy' \in [Ranges -> 0 .. AskedRounds]
  <2>1. \A r \in Ranges : busy[r] \in 0 .. AskedRounds
    BY DEF BookInv, TypeOK
  <2>2. QED BY <2>1, ActiveRoundsNat DEF Round
<1>5. accessed' = {} /\ pc' \in {"swapout", "ratio"}
  BY DEF Round, FirstPhase
<1>6. /\ DOMAIN book' \subseteq Ranges
      /\ \A r \in DOMAIN book' : book'[r] \in Entries /\ book'[r].seen <= 2 * Interval
      /\ \A r \in DOMAIN book' : Truthful(book'[r])
  BY <1>1 DEF BookOf
<1>7. UNCHANGED <<policy, alive, counts, trackerOn, moving, cgLoop, cpc, locals, panicked>>
  BY DEF Round
<1>8. TypeOK'
  BY <1>3, <1>4, <1>5, <1>6, <1>7 DEF BookInv, TypeOK, moving, locals
<1>9. QED
  BY <1>6, <1>8 DEF BookInv

\* The tracker's other steps, processes and the mover.
LEMMA OutsideInv ==
  ASSUME BookInv
  PROVE  /\ \A p \in Pids : Exit(p) \/ RemovePid(p) => BookInv'
         /\ \A pg \in Pages : SwapIn(pg) => BookInv'
         /\ \A task \in tasks : MoverMoves(task) => BookInv'
<1>1. ASSUME NEW p \in Pids, Exit(p) PROVE BookInv'
  BY <1>1 DEF Exit, BookInv, TypeOK, moving, locals, history
<1>2. ASSUME NEW p \in Pids, RemovePid(p) PROVE BookInv'
  BY <1>2 DEF RemovePid, Without, BookInv, TypeOK, moving, locals, history
<1>3. ASSUME NEW pg \in Pages, SwapIn(pg) PROVE BookInv'
  <2>1. on' \in [Pages -> Nodes]
    BY <1>3 DEF SwapIn, BookInv, TypeOK, Nodes
  <2>2. QED BY <1>3, <2>1 DEF SwapIn, BookInv, TypeOK, tracking, locals, history
<1>4. ASSUME NEW task \in tasks, MoverMoves(task) PROVE BookInv'
  <2>1. task.dest \in Nodes
    BY DEF BookInv, TypeOK
  <2>2. on' \in [Pages -> Nodes]
    BY <1>4, <2>1 DEF MoverMoves, BookInv, TypeOK
  <2>3. tasks' \subseteq [pages : SUBSET Pages, dest : Nodes]
    BY <1>4 DEF MoverMoves, BookInv, TypeOK
  <2>4. QED BY <1>4, <2>2, <2>3 DEF MoverMoves, BookInv, TypeOK, tracking, locals, history
<1>5. QED
  BY <1>1, <1>2, <1>3, <1>4

LEMMA ClientInv ==
  ASSUME BookInv, Start \/ Stop \/ StopSend \/ StopMover PROVE BookInv'
<1>1. CASE Start
  BY <1>1 DEF Start, BookInv, TypeOK, locals, history
<1>2. CASE Stop
  BY <1>2 DEF Stop, BookInv, TypeOK, moving, locals, history
<1>3. CASE StopSend
  BY <1>3 DEF StopSend, BookInv, TypeOK, tracking, moving, locals, history
<1>4. CASE StopMover
  BY <1>4 DEF StopMover, BookInv, TypeOK, tracking, locals, history
<1>5. QED
  BY <1>1, <1>2, <1>3, <1>4

LEMMA MoveInv ==
  ASSUME BookInv, MoveSwapOut \/ MoveIdle \/ MoveActive \/ MoveRatio PROVE BookInv'
<1>1. PICK node \in Nodes : \E S : Move(S, node)
  <2>1. CASE MoveSwapOut
    BY <2>1 DEF MoveSwapOut, Nodes
  <2>2. CASE MoveIdle
    BY <2>2 DEF MoveIdle, Nodes
  <2>3. CASE MoveActive
    BY <2>3 DEF MoveActive, Nodes
  <2>4. CASE MoveRatio
    BY <2>4 DEF MoveRatio, Nodes
  <2>5. QED BY <2>1, <2>2, <2>3, <2>4
<1>2. /\ pc' = "move" /\ dest' \in Nodes
      /\ UNCHANGED <<policy, tracking, book, moving, cgLoop, cpc, pages, panicked, history>>
  BY <1>1 DEF Move
<1>3. QED
  BY <1>2 DEF BookInv, TypeOK, tracking, moving, history

LEMMA FindPagesInv == ASSUME BookInv, FindPages PROVE BookInv'
<1>1. /\ pages' \subseteq Pages
      /\ pc' \in {"move", "nodes"}
      /\ UNCHANGED <<policy, tracking, book, moving, cgLoop, cpc, dest, panicked, history>>
  BY DEF FindPages, BookInv, TypeOK
<1>2. QED
  BY <1>1 DEF BookInv, TypeOK, tracking, moving, history

LEMMA AddTaskInv == ASSUME BookInv, AddTask PROVE BookInv'
<1> DEFINE toMove == {pg \in pages : on[pg] # dest}
<1>1. [pages |-> toMove, dest |-> dest] \in [pages : SUBSET Pages, dest : Nodes]
  BY DEF BookInv, TypeOK
<1>2. tasks' \subseteq [pages : SUBSET Pages, dest : Nodes]
  BY <1>1 DEF AddTask, BookInv, TypeOK
<1>3. /\ pages' = {} /\ pc' = "move" /\ panicked' \in BOOLEAN
      /\ UNCHANGED <<policy, tracking, book, on, moverOn, cgLoop, cpc, dest, history>>
  BY DEF AddTask
<1>4. QED
  BY <1>2, <1>3 DEF BookInv, TypeOK, tracking, history

LEMMA LoopInv ==
  ASSUME BookInv, MoveEnds \/ Tick \/ Quit \/ Close \/ Forget PROVE BookInv'
<1>1. CASE MoveEnds
  BY <1>1 DEF MoveEnds, NextPhase, BookInv, TypeOK, tracking, moving, locals, history
<1>2. CASE Tick
  BY <1>2 DEF Tick, BookInv, TypeOK, tracking, moving, locals, history
<1>3. CASE Quit
  BY <1>3 DEF Quit, BookInv, TypeOK, tracking, moving, locals, history
<1>4. CASE Close
  BY <1>4 DEF Close, BookInv, TypeOK, tracking, moving, locals, history
<1>5. CASE Forget
  <2>1. Zeros \in [Ranges -> Int] /\ Zeros \in [Ranges -> 0 .. AskedRounds]
    BY ActiveRoundsNat DEF Zeros
  <2>2. QED BY <1>5, <2>1 DEF Forget, BookInv, TypeOK, moving, locals
<1>6. QED
  BY <1>1, <1>2, <1>3, <1>4, <1>5

LEMMA StepBookInv == BookInv /\ [Next]_vars => BookInv'
<1> SUFFICES ASSUME BookInv, [Next]_vars PROVE BookInv'
  OBVIOUS
<1>1. CASE UNCHANGED vars
  BY <1>1 DEF BookInv, TypeOK, vars, tracking, moving, locals, history
<1>2. CASE Environment
  BY <1>2, ScanInv, OutsideInv DEF Environment
<1>3. CASE MoverStep
  BY <1>3, OutsideInv DEF MoverStep
<1>4. CASE Start \/ Stop \/ ClientStep
  BY <1>4, ClientInv DEF ClientStep
<1>5. CASE LoopStep
  BY <1>5, RoundInv, MoveInv, FindPagesInv, AddTaskInv, LoopInv DEF LoopStep
<1>6. CASE Tick \/ Quit
  BY <1>6, LoopInv
<1>7. CASE \E p \in Pids : RemovePid(p)
  BY <1>7, OutsideInv
<1>8. QED
  BY <1>1, <1>2, <1>3, <1>4, <1>5, <1>6, <1>7 DEF Next

-----------------------------------------------------------------------------

\* Every reachable state of either policy is well typed, and the book has no
\* entry that deleteDeadCounters should have deleted (policy_age.go:369).
THEOREM TypeCorrect == Spec => []TypeOK
<1>1. BookInv => TypeOK
  BY DEF BookInv
<1>2. QED
  BY <1>1, InitBookInv, StepBookInv, PTL DEF Spec

\* policy_age.go:388 and :434: with an idle duration of at least two intervals
\* no counter is idle and active, however rounds are delayed and counters come
\* and go.
THEOREM NoTugOfWarFromTwoIntervals ==
  ASSUME IdleDuration >= 2 * Interval
  PROVE  Spec => []NoTugOfWar
<1>1. BookInv => NoTugOfWar
  <2> SUFFICES ASSUME BookInv, NEW r \in DOMAIN book, IsIdle(r, IdleDuration), IsActive(r)
               PROVE  FALSE
    BY DEF NoTugOfWar
  <2>1. 0 \in book[r].rounds
    BY ActiveRoundsNat DEF IsActive
  <2>2. book[r].changed = book[r].seen /\ book[r].seen <= 2 * Interval /\ book[r].seen \in Int
    BY <2>1 DEF BookInv, TypeOK, Truthful, Entries
  <2>3. 2 * Interval \in Int /\ IdleDuration \in Int
    BY ConstantsAssumption DEF ConstantsAssumption
  <2>4. QED
    BY <2>2, <2>3 DEF IsIdle
<1>2. QED
  BY <1>1, InitBookInv, StepBookInv, PTL DEF Spec

-----------------------------------------------------------------------------
(* Folds *)

\* h is the fold, over each subset of s, of step: it takes pick[t] last of the elements of t.
IsFold(h, s, T, base, pick, step) ==
  /\ h \in [SUBSET s -> T]
  /\ h[{}] = base
  /\ \A t \in (SUBSET s) \ {{}} : h[t] = step[<<pick[t], h[t \ {pick[t]}]>>]

LEMMA SmallestSet ==
  ASSUME NEW D, IsFiniteSet(D), NEW W \in SUBSET SUBSET D, W # {}
  PROVE  \E s \in W : \A t \in W : t \subseteq s => t = s
<1>1. FiniteSubsetsOf(D) = SUBSET D /\ IsWellFoundedOn(StrictSubsetOrdering(D), FiniteSubsetsOf(D))
  BY FS_FiniteSubsetsOfFinite, FS_StrictSubsetOrderingWellFounded
<1>2. PICK s \in W : \A t \in W : <<t, s>> \notin StrictSubsetOrdering(D)
  BY <1>1, WFMin
<1> QED BY <1>2 DEF StrictSubsetOrdering

LEMMA FoldsAgree ==
  ASSUME NEW D, IsFiniteSet(D), NEW T, NEW base, NEW pick, NEW step,
         \A t \in (SUBSET D) \ {{}} : pick[t] \in t,
         NEW s \in SUBSET D, NEW u \in SUBSET D, NEW h, NEW k,
         IsFold(h, s, T, base, pick, step), IsFold(k, u, T, base, pick, step)
  PROVE  \A t \in SUBSET (s \cap u) : h[t] = k[t]
<1> DEFINE W == {t \in SUBSET (s \cap u) : h[t] # k[t]}
<1> SUFFICES ASSUME W # {} PROVE FALSE
  OBVIOUS
<1>1. PICK t \in W : \A v \in W : v \subseteq t => v = t
  <2>1. W \in SUBSET SUBSET D
    OBVIOUS
  <2> HIDE DEF W
  <2> QED BY <2>1, SmallestSet
<1>2. t # {}
  BY DEF IsFold
<1>3. pick[t] \in t
  BY <1>2
<1>4. t \ {pick[t]} \notin W
  BY <1>1, <1>3
<1>5. h[t \ {pick[t]}] = k[t \ {pick[t]}]
  BY <1>4
<1> QED BY <1>2, <1>5 DEF IsFold

LEMMA FoldExists ==
  ASSUME NEW D, IsFiniteSet(D), NEW T, NEW base \in T, NEW pick, NEW step \in [D \X T -> T],
         \A t \in (SUBSET D) \ {{}} : pick[t] \in t
  PROVE  \E h : IsFold(h, D, T, base, pick, step)
<1> DEFINE Fold(s, h) == IsFold(h, s, T, base, pick, step)
           W == {s \in SUBSET D : ~\E h : Fold(s, h)}
<1> SUFFICES ASSUME W # {} PROVE FALSE
  OBVIOUS
<1>1. PICK s \in W : \A v \in W : v \subseteq s => v = s
  <2>1. W \in SUBSET SUBSET D
    OBVIOUS
  <2> HIDE DEF W
  <2> QED BY <2>1, SmallestSet
<1> DEFINE of(t) == CHOOSE h : Fold(t, h)
           less(t) == t \ {pick[t]}
           h == [t \in SUBSET s |-> IF t = {} THEN base ELSE step[<<pick[t], of(less(t))[less(t)]>>]]
<1> HIDE DEF Fold
<1>2. ASSUME NEW t \in (SUBSET s) \ {{}}
      PROVE  less(t) \in SUBSET s /\ pick[t] \in D /\ Fold(less(t), of(less(t)))
  <2>1. pick[t] \in t
    OBVIOUS
  <2>2. less(t) \subseteq s /\ less(t) # s
    BY <2>1
  <2>3. \E k : Fold(less(t), k)
    BY <1>1, <2>2
  <2> QED BY <2>1, <2>2, <2>3
<1>3. ASSUME NEW t \in (SUBSET s) \ {{}} PROVE of(less(t))[less(t)] \in T
  <2>1. Fold(less(t), of(less(t)))
    BY <1>2
  <2> HIDE DEF of, less
  <2> QED BY <2>1 DEF Fold, IsFold
<1>4. h \in [SUBSET s -> T]
  <2>1. \A t \in (SUBSET s) \ {{}} : step[<<pick[t], of(less(t))[less(t)]>>] \in T
    BY <1>2, <1>3
  <2> HIDE DEF of, less
  <2> QED BY <2>1
<1>5. h[{}] = base
  OBVIOUS
<1>6. ASSUME NEW t \in (SUBSET s) \ {{}} PROVE h[t] = step[<<pick[t], h[less(t)]>>]
  <2> DEFINE u == less(t)
  <2>1. u \in SUBSET s /\ Fold(u, of(u))
    BY <1>2
  <2>2. h[u] = of(u)[u]
    <3>1. CASE u = {}
      BY <2>1, <3>1 DEF Fold, IsFold
    <3>2. CASE u # {}
      <4>1. h[u] = step[<<pick[u], of(less(u))[less(u)]>>]
        BY <2>1, <3>2
      <4>2. of(u)[u] = step[<<pick[u], of(u)[less(u)]>>]
        BY <2>1, <3>2 DEF Fold, IsFold
      <4>3. Fold(less(u), of(less(u))) /\ less(u) \in SUBSET D /\ u \in SUBSET D
        BY <1>2, <2>1, <3>2
      <4>4. less(u) \in SUBSET (u \cap less(u))
        OBVIOUS
      <4> HIDE DEF of, less, h, u
      <4>5. of(u)[less(u)] = of(less(u))[less(u)]
        BY <2>1, <4>3, <4>4, FoldsAgree DEF Fold
      <4> QED BY <4>1, <4>2, <4>5
    <3> QED BY <3>1, <3>2
  <2>3. h[t] = step[<<pick[t], of(u)[u]>>]
    OBVIOUS
  <2> HIDE DEF of, less, h
  <2> QED BY <2>2, <2>3
<1> HIDE DEF h
<1>7. Fold(s, h)
  BY <1>4, <1>5, <1>6 DEF Fold, IsFold
<1> QED BY <1>1, <1>7

\* g has the equations of a fold as far as its values are in T.
GoesBy(g, D, T, pick, step) ==
  /\ g[{}] \in T
  /\ \A t \in (SUBSET D) \ {{}} :
       /\ pick[t] \in t
       /\ g[t \ {pick[t]}] \in T => g[t] = step[<<pick[t], g[t \ {pick[t]}]>>]

\* Then all of them are, if those of step are.
LEMMA FoldStaysIn ==
  ASSUME NEW D, IsFiniteSet(D), NEW T, NEW pick, NEW step, step \in [D \X T -> T],
         NEW g, GoesBy(g, D, T, pick, step)
  PROVE  g[D] \in T
<1> USE DEF GoesBy
<1> DEFINE W == {t \in SUBSET D : g[t] \notin T}
<1> SUFFICES ASSUME W # {} PROVE FALSE
  OBVIOUS
<1>1. PICK t \in W : \A v \in W : v \subseteq t => v = t
  <2>1. W \in SUBSET SUBSET D
    OBVIOUS
  <2> HIDE DEF W
  <2> QED BY <2>1, SmallestSet
<1>2. t # {} /\ pick[t] \in t
  OBVIOUS
<1>3. t \ {pick[t]} \notin W
  BY <1>1, <1>2
<1> QED BY <1>2, <1>3

LEMMA LastOfFew ==
  ASSUME NEW n \in Nat, NEW t \in SUBSET (1 .. n), t # {}
  PROVE  Max(t) \in t
<1> DEFINE T == {n - i : i \in t}
<1>1. T \subseteq Nat /\ T # {}
  <2>1. \A i \in t : n - i \in Nat
    OBVIOUS
  <2> QED BY <2>1
<1>2. PICK x \in T : \A y \in T : <<y, x>> \notin OpToRel(<, Nat)
  BY <1>1, NatLessThanWellFounded, WFMin
<1>3. PICK last \in t : x = n - last
  BY <1>2
<1>4. ASSUME NEW i \in t PROVE last >= i
  <2>1. n - i \in T
    OBVIOUS
  <2>2. ~(n - i < n - last)
    BY <1>1, <1>2, <1>3, <2>1 DEF OpToRel
  <2> HIDE DEF T
  <2> QED BY <2>2
<1> QED BY <1>4 DEF Max

-----------------------------------------------------------------------------
(* Merging regions *)

Counter == [pid : Int, addr : Int, length : Nat, accesses : Nat]

\* The counters of m have only pages of those of tcs.
CoveredBy(tcs, m) ==
  \A i \in DOMAIN m : \A pg \in PagesOf(m[i]) : \E j \in DOMAIN tcs : pg \in PagesOf(tcs[j])

LEMMA IsPageOf ==
  ASSUME NEW r, NEW pg
  PROVE  pg \in PagesOf(r) <=>
           /\ pg = <<pg[1], pg[2]>> /\ pg[1] = r.pid
           /\ pg[2] \in r.addr .. (r.addr + r.length) - 1
<1> DEFINE R == r.addr .. (r.addr + r.length) - 1
<1>0. PagesIn(r) = R
  BY DEF PagesIn, EndAddr
<1> HIDE DEF R
<1>1. PagesOf(r) = {r.pid} \X R
  BY <1>0 DEF PagesOf
<1>2. pg \in {r.pid} \X R <=> pg = <<pg[1], pg[2]>> /\ pg[1] = r.pid /\ pg[2] \in R
  OBVIOUS
<1> QED BY <1>1, <1>2 DEF R

\* Of two counters that touch.
LEMMA LongerIsCovered ==
  ASSUME NEW x \in Counter, NEW tc \in Counter, x.pid = tc.pid, x.addr + x.length = tc.addr
  PROVE  LET r == [x EXCEPT !.length = @ + tc.length] IN
         r \in Counter /\ PagesOf(r) \subseteq PagesOf(x) \cup PagesOf(tc)
<1> DEFINE r == [x EXCEPT !.length = @ + tc.length]
<1>1. /\ x.addr \in Int /\ x.length \in Nat /\ tc.length \in Nat
      /\ x.pid \in Int /\ x.accesses \in Nat
      /\ x = [pid |-> x.pid, addr |-> x.addr, length |-> x.length, accesses |-> x.accesses]
  BY DEF Counter
<1>2. r = [pid |-> x.pid, addr |-> x.addr, length |-> x.length + tc.length, accesses |-> x.accesses]
  BY <1>1
<1>3. r \in Counter /\ r.pid = x.pid /\ r.addr = x.addr /\ r.length = x.length + tc.length
  BY <1>1, <1>2 DEF Counter
<1> HIDE DEF r
<1>4. ASSUME NEW pg \in PagesOf(r) PROVE pg \in PagesOf(x) \cup PagesOf(tc)
  <2>1. /\ pg = <<pg[1], pg[2]>> /\ pg[1] = x.pid
        /\ pg[2] \in x.addr .. (x.addr + (x.length + tc.length)) - 1
    BY <1>3, <1>4, IsPageOf
  <2>2. \/ pg[2] \in x.addr .. (x.addr + x.length) - 1
        \/ pg[2] \in x.addr + x.length .. ((x.addr + x.length) + tc.length) - 1
    BY <1>1, <2>1
  <2> QED BY <2>1, <2>2, IsPageOf
<1> QED BY <1>3, <1>4 DEF r

LEMMA JoinedIsCovered ==
  ASSUME NEW n \in Nat, NEW tcs \in [1 .. n -> Counter], NEW m \in Seq(Counter), CoveredBy(tcs, m),
         NEW j \in 1 .. n
  PROVE  Joined(m, tcs[j]) \in Seq(Counter) /\ CoveredBy(tcs, Joined(m, tcs[j]))
<1> DEFINE tc == tcs[j]
<1>0. tc \in Counter /\ DOMAIN tcs = 1 .. n
  OBVIOUS
<1>1. CASE Touches(m, tc)
  <2> DEFINE l == Len(m)
             r == [m[l] EXCEPT !.length = @ + tc.length]
  <2>1. /\ m # <<>> /\ Last(m).pid = tc.pid /\ EndAddr(Last(m)) = tc.addr
    BY <1>1 DEF Touches
  <2>2. l \in DOMAIN m /\ m[l] \in Counter /\ m[l].pid = tc.pid /\ m[l].addr + m[l].length = tc.addr
    BY <2>1 DEF Last, EndAddr
  <2>4. Joined(m, tc) = [m EXCEPT ![l] = r]
    BY <1>1 DEF Joined
  <2> HIDE DEF l, tc
  <2>5. r \in Counter /\ PagesOf(r) \subseteq PagesOf(m[l]) \cup PagesOf(tc)
    BY <1>0, <2>2, LongerIsCovered
  <2> HIDE DEF r
  <2>6. [m EXCEPT ![l] = r] \in Seq(Counter)
    BY <2>2, <2>5, ExceptSeq
  <2>7. CoveredBy(tcs, [m EXCEPT ![l] = r])
    <3>1. \A i \in DOMAIN m : [m EXCEPT ![l] = r][i] = IF i = l THEN r ELSE m[i]
      OBVIOUS
    <3>2. \A pg \in PagesOf(r) : \E k \in DOMAIN tcs : pg \in PagesOf(tcs[k])
      BY <1>0, <2>2, <2>5 DEF CoveredBy, tc
    <3> QED BY <3>1, <3>2 DEF CoveredBy
  <2> QED BY <2>4, <2>6, <2>7 DEF tc
<1>2. CASE ~Touches(m, tc)
  <2>1. Joined(m, tc) = Append(m, tc)
    BY <1>2 DEF Joined
  <2> HIDE DEF tc
  <2>2. /\ Append(m, tc) \in Seq(Counter) /\ DOMAIN Append(m, tc) = DOMAIN m \cup {Len(m) + 1}
        /\ \A i \in DOMAIN m : Append(m, tc)[i] = m[i]
        /\ Append(m, tc)[Len(m) + 1] = tc
    BY <1>0
  <2>3. CoveredBy(tcs, Append(m, tc))
    BY <1>0, <2>2 DEF CoveredBy, tc
  <2> QED BY <2>1, <2>2, <2>3 DEF tc
<1> QED BY <1>1, <1>2

LEMMA MergedIsCovered ==
  ASSUME NEW n \in Nat, NEW tcs \in [1 .. n -> Counter]
  PROVE  RegionsMerged(tcs) \in Seq(Counter) /\ CoveredBy(tcs, RegionsMerged(tcs))
<1> DEFINE D == 1 .. n
           T == {m \in Seq(Counter) : CoveredBy(tcs, m)}
           pick == [t \in (SUBSET D) \ {{}} |-> Max(t)]
           step == [e \in D \X T |-> Joined(e[2], tcs[e[1]])]
           f(g) == [s \in SUBSET D |-> IF s = {} THEN <<>> ELSE Joined(g[s \ {Max(s)}], tcs[Max(s)])]
           fold == CHOOSE g : g = f(g)
<1>1. RegionsMerged(tcs) = fold[D]
  <2>1. DOMAIN tcs = D
    OBVIOUS
  <2> HIDE DEF D
  <2> QED BY <2>1 DEF RegionsMerged, FoldLeft, MapThenFoldSet
<1>2. IsFiniteSet(D)
  BY FS_Interval
<1>3. <<>> \in T
  BY DEF CoveredBy
<1>4. step \in [D \X T -> T]
  <2>1. \A e \in D \X T : Joined(e[2], tcs[e[1]]) \in T
    BY JoinedIsCovered
  <2> HIDE DEF T, D
  <2> QED BY <2>1
<1>5. \A t \in (SUBSET D) \ {{}} : pick[t] = Max(t) /\ pick[t] \in t
  BY LastOfFew
<1> HIDE DEF D, T, pick, step
<1>6. PICK h : IsFold(h, D, T, <<>>, pick, step)
  BY <1>2, <1>3, <1>4, <1>5, FoldExists
<1>7. h = f(h)
  <2>1. h \in [SUBSET D -> T] /\ h[{}] = <<>>
    BY <1>6 DEF IsFold
  <2>2. ASSUME NEW t \in (SUBSET D) \ {{}}
        PROVE  h[t] = Joined(h[t \ {Max(t)}], tcs[Max(t)])
    <3>1. h[t] = step[<<pick[t], h[t \ {pick[t]}]>>] /\ h[t \ {pick[t]}] \in T /\ pick[t] \in D
      BY <1>5, <1>6 DEF IsFold
    <3> QED BY <1>5, <3>1 DEF step
  <2> QED BY <2>1, <2>2
<1>8. fold = f(fold)
  BY <1>7
<1> HIDE DEF fold
<1>9. fold[{}] = <<>>
  BY <1>8
<1>10. \A t \in (SUBSET D) \ {{}} :
          fold[t \ {pick[t]}] \in T => fold[t] = step[<<pick[t], fold[t \ {pick[t]}]>>]
  <2> SUFFICES ASSUME NEW t \in (SUBSET D) \ {{}}, fold[t \ {pick[t]}] \in T
               PROVE  fold[t] = step[<<pick[t], fold[t \ {pick[t]}]>>]
    OBVIOUS
  <2>1. fold[t] = Joined(fold[t \ {Max(t)}], tcs[Max(t)])
    BY <1>8
  <2>2. pick[t] \in D
    BY <1>5
  <2> QED BY <1>5, <2>1, <2>2 DEF step
<1>11. fold[D] \in T
  <2>1. GoesBy(fold, D, T, pick, step)
    BY <1>3, <1>5, <1>9, <1>10 DEF GoesBy
  <2> HIDE DEF f
  <2> QED BY <2>1, <1>2, <1>4, FoldStaysIn
<1> QED BY <1>1, <1>11 DEF T

-----------------------------------------------------------------------------
(* What the age policy moves *)

\* What the age policy may move to a node.
IsDue(pg, node) ==
  \E r \in DOMAIN book :
    /\ pg \in PagesOf(r)
    /\ CASE node = ActiveNode -> busy[r] >= ActiveRounds
         [] node = IdleNode -> quiet[r] > IdleDuration
         [] node = SwapNode -> quiet[r] > SwapOut

\* The book's entry of a range tells the truth about the tracker's counter: the
\* counter differs from it if and only if it has been counted up since, it was
\* changed as long ago as it says or longer, and in a row of as many rounds.
TellsTruth(r) ==
  /\ r \in DOMAIN counts
  /\ book[r].accesses <= counts[r]
  /\ counts[r] # book[r].accesses <=> r \in accessed
  /\ book[r].changed <= quiet[r]
  /\ \A i \in 0 .. ActiveRounds : 0 .. i \subseteq book[r].rounds => busy[r] >= i

\* As long as its process runs: a counter that is removed goes without a trace.
TruthfulBook == \A r \in DOMAIN book : r.pid \in alive => TellsTruth(r)

\* All pages of the counters left are due, and those found are of the first.
MovesAreDue ==
  /\ policy = "age" /\ pc \in {"move", "nodes"} =>
       /\ dest \in {SwapNode, IdleNode, ActiveNode}
       /\ todo \in Seq(Counter)
       /\ \A k \in DOMAIN todo :
            todo[k].pid \in alive => \A pg \in PagesOf(todo[k]) : IsDue(pg, dest)
  /\ pc = "nodes" => todo # <<>> /\ pages \subseteq PagesOf(Head(todo))

LastingInv ==
  /\ BookInv /\ quiet \in [Ranges -> Nat] /\ (pc = "ratio" => policy = "ratio")
  /\ TruthfulBook /\ MovesAreDue

LEMMA InitLastingInv == Init => LastingInv
<1> SUFFICES ASSUME Init PROVE LastingInv
  OBVIOUS
<1>1. DOMAIN book = {} /\ pc = "off" /\ quiet \in [Ranges -> Nat]
  BY DEF Init, Zeros
<1> QED BY <1>1, InitBookInv DEF LastingInv, TruthfulBook, MovesAreDue

\* Steps that leave the book, the counters and the history alone.
LEMMA StillTruthful ==
  ASSUME TruthfulBook, alive' \subseteq alive, UNCHANGED <<book, counts, accessed, quiet, busy>>
  PROVE  TruthfulBook'
BY DEF TruthfulBook, TellsTruth

LEMMA StillDue ==
  ASSUME MovesAreDue, alive' \subseteq alive, UNCHANGED <<policy, book, pc, locals, quiet, busy>>
  PROVE  MovesAreDue'
<1>1. ASSUME NEW pg, IsDue(pg, dest) PROVE IsDue(pg, dest)'
  BY <1>1 DEF IsDue, locals
<1>2. UNCHANGED <<policy, pc, todo, dest, pages>>
  BY DEF locals
<1> QED BY <1>1, <1>2 DEF MovesAreDue

\* Of the entries of the book that a round leaves.
LEMMA TruthAfterRound ==
  ASSUME LastingInv, NEW delta \in Deltas, Deltas \subseteq Nat, Round(delta),
         NEW r \in DOMAIN book', r.pid \in alive
  PROVE  TellsTruth(r)'
<1> DEFINE u == UpdatedBook(delta)
<1>1. /\ book'[r] = u[r] /\ r \in DOMAIN book \cup DOMAIN counts /\ r \in Ranges
      /\ counts' = counts /\ accessed' = {} /\ alive' = alive
  <2>1. /\ book' = Without(u, DeadCounters(u))
        /\ counts' = counts /\ accessed' = {} /\ alive' = alive
    BY DEF Round
  <2>2. DOMAIN u = DOMAIN book \cup DOMAIN counts
    BY DEF UpdatedBook
  <2> HIDE DEF u
  <2>3. r \in DOMAIN u /\ book'[r] = u[r]
    BY <2>1 DEF Without
  <2> QED BY <2>1, <2>2, <2>3 DEF LastingInv, BookInv, TypeOK
<1>2. /\ quiet[r] \in Nat /\ busy[r] \in 0 .. AskedRounds /\ delta \in Nat
      /\ quiet'[r] = IF r \in accessed THEN 0 ELSE Later(quiet[r], delta)
      /\ busy'[r] = IF r \notin accessed THEN 0
                    ELSE IF busy[r] < AskedRounds THEN busy[r] + 1 ELSE AskedRounds
  BY <1>1 DEF Round, LastingInv, BookInv, TypeOK
<1>3. /\ \A age \in Nat : Later(age, delta) \in Nat
      /\ \A x \in Int, y \in Nat : x <= y => Later(x, delta) <= Later(y, delta)
  BY <1>2, ConstantsAssumption DEF Later, ConstantsAssumption
<1>4. quiet'[r] \in Nat /\ busy'[r] \in 0 .. AskedRounds
  BY <1>2, <1>3, ActiveRoundsNat
<1>5. CASE r \notin DOMAIN book
  <2>1. r \in DOMAIN counts /\ book'[r] = NewEntry(counts[r]) /\ counts[r] \in Nat
    <3>1. r \in DOMAIN counts /\ u[r] = NewEntry(counts[r])
      BY <1>1, <1>5 DEF UpdatedBook
    <3> QED BY <1>1, <3>1, ConstantsAssumption DEF LastingInv, BookInv, TypeOK, ConstantsAssumption
  <2>2. /\ book'[r].accesses = counts[r] /\ book'[r].changed = 0 /\ book'[r].rounds = {0}
    BY <2>1 DEF NewEntry
  <2>3. ASSUME NEW i \in 0 .. ActiveRounds, 0 .. i \subseteq {0} PROVE busy'[r] >= i
    <3>1. i \in 0 .. i
      BY ActiveRoundsNat
    <3> QED BY <1>4, <2>3, <3>1, ActiveRoundsNat
  <2> QED BY <1>1, <1>4, <2>1, <2>2, <2>3 DEF TellsTruth
<1>6. CASE r \in DOMAIN book
  <2>1. TellsTruth(r) /\ book[r] \in Entries
    BY <1>6 DEF LastingInv, TruthfulBook, BookInv, TypeOK
  <2>2. /\ r \in DOMAIN counts /\ counts[r] \in Nat
        /\ book'[r] = UpdateCounter(book[r], counts[r], delta)
    <3>1. r \in DOMAIN counts
      BY <2>1 DEF TellsTruth
    <3>2. u[r] = UpdateCounter(book[r], counts[r], delta)
      BY <3>1, <1>6 DEF UpdatedBook
    <3> QED BY <1>1, <3>1, <3>2, ConstantsAssumption DEF LastingInv, BookInv, TypeOK, ConstantsAssumption
  <2>3. book'[r].accesses = counts[r]
    BY <2>2 DEF UpdateCounter
  <2>4. book'[r].changed <= quiet'[r]
    <3>1. CASE r \in accessed
      BY <1>2, <2>1, <2>2, <3>1 DEF TellsTruth, UpdateCounter
    <3>2. CASE r \notin accessed
      <4>1. book'[r].changed = Later(book[r].changed, delta) /\ quiet'[r] = Later(quiet[r], delta)
        BY <1>2, <2>1, <2>2, <3>2 DEF TellsTruth, UpdateCounter
      <4>2. book[r].changed <= quiet[r] /\ book[r].changed \in Int
        BY <2>1 DEF TellsTruth, Entries
      <4> QED BY <1>2, <1>3, <4>1, <4>2
    <3> QED BY <3>1, <3>2
  <2>5. ASSUME NEW i \in 0 .. ActiveRounds, 0 .. i \subseteq book'[r].rounds PROVE busy'[r] >= i
    <3>1. CASE i = 0
      BY <1>4, <3>1, ActiveRoundsNat
    <3>2. CASE i # 0
      <4>1. i - 1 \in 0 .. ActiveRounds /\ i \in Nat /\ 0 \in 0 .. i
        BY <3>2, ActiveRoundsNat
      <4>2. 0 \notin Shifted(book[r].rounds)
        BY DEF Shifted
      <4>3. r \in accessed /\ book'[r].rounds = Shifted(book[r].rounds) \cup {0}
        BY <2>1, <2>2, <2>5, <4>1, <4>2 DEF TellsTruth, UpdateCounter
      <4>4. 0 .. i - 1 \subseteq book[r].rounds
        <5> SUFFICES ASSUME NEW j \in 0 .. i - 1 PROVE j \in book[r].rounds
          OBVIOUS
        <5>1. j + 1 \in 0 .. i /\ j + 1 # 0 /\ (j + 1) - 1 = j
          BY <4>1
        <5>2. j + 1 \in Shifted(book[r].rounds)
          BY <2>5, <4>3, <5>1
        <5> QED BY <5>1, <5>2 DEF Shifted
      <4>5. busy[r] >= i - 1
        BY <2>1, <4>1, <4>4 DEF TellsTruth
      <4> QED BY <1>2, <4>1, <4>3, <4>5, ActiveRoundsNat
    <3> QED BY <3>1, <3>2
  <2> QED BY <1>1, <2>2, <2>3, <2>4, <2>5 DEF TellsTruth
<1> QED BY <1>5, <1>6

LEMMA RoundLasting ==
  ASSUME LastingInv, NEW delta \in Deltas, Deltas \subseteq Nat, Round(delta)
  PROVE  LastingInv'
<1>1. BookInv'
  BY RoundInv DEF LastingInv
<1>2. quiet' \in [Ranges -> Nat]
  <2>1. \A r \in Ranges : Later(quiet[r], delta) \in Nat
    BY ConstantsAssumption DEF LastingInv, Later, ConstantsAssumption
  <2> QED BY <2>1 DEF Round
<1>3. pc' \in {"swapout", "ratio"} /\ (pc' = "ratio" => policy' = "ratio") /\ alive' = alive
  BY ConstantsAssumption DEF Round, FirstPhase, LastingInv, BookInv, TypeOK, ConstantsAssumption
<1>4. TruthfulBook'
  BY <1>3, TruthAfterRound DEF TruthfulBook
<1>5. MovesAreDue'
  BY <1>3 DEF MovesAreDue
<1> QED BY <1>1, <1>2, <1>3, <1>4, <1>5 DEF LastingInv

LEMMA ScanLasting ==
  ASSUME LastingInv, NEW r \in Ranges, NEW n \in 0 .. MaxCount, Scan(r, n)
  PROVE  LastingInv'
<1>1. BookInv' /\ MovesAreDue'
  BY ScanInv, StillDue DEF LastingInv, Scan, history
<1>2. /\ (r.pid \in alive \/ n = 0) /\ alive' = alive /\ n \in Nat
      /\ UNCHANGED <<policy, book, pc, quiet, busy>>
  BY ConstantsAssumption DEF Scan, history, ConstantsAssumption
<1>3. ASSUME NEW q \in DOMAIN book, q.pid \in alive PROVE TellsTruth(q)'
  <2>1. TellsTruth(q) /\ q \in DOMAIN counts
    BY <1>3 DEF LastingInv, TruthfulBook, TellsTruth
  <2>2. counts[q] \in Nat /\ book[q].accesses \in Nat
    BY <2>1, ConstantsAssumption DEF LastingInv, BookInv, TypeOK, Entries, ConstantsAssumption
  <2>3. /\ q \in DOMAIN counts'
        /\ counts'[q] = IF q = r THEN counts[q] + n ELSE counts[q]
        /\ accessed' = IF n > 0 THEN accessed \cup {r} ELSE accessed
    BY <2>1 DEF Scan
  <2>4. /\ book[q].accesses <= counts'[q]
        /\ counts'[q] # book[q].accesses <=> q \in accessed'
    BY <1>2, <2>1, <2>2, <2>3 DEF TellsTruth
  <2> QED BY <1>2, <2>1, <2>3, <2>4 DEF TellsTruth
<1> QED BY <1>1, <1>2, <1>3 DEF LastingInv, TruthfulBook

LEMMA OutsideLasting ==
  ASSUME LastingInv
  PROVE  /\ \A p \in Pids : Exit(p) \/ RemovePid(p) => LastingInv'
         /\ \A pg \in Pages : SwapIn(pg) => LastingInv'
         /\ \A task \in tasks : MoverMoves(task) => LastingInv'
<1>1. ASSUME NEW p \in Pids, Exit(p) PROVE LastingInv'
  <2>1. BookInv'
    BY <1>1, OutsideInv DEF LastingInv
  <2> QED BY <1>1, <2>1, StillTruthful, StillDue DEF LastingInv, Exit, history
<1>2. ASSUME NEW p \in Pids, RemovePid(p) PROVE LastingInv'
  <2>1. BookInv'
    BY <1>2, OutsideInv DEF LastingInv
  <2>2. /\ p \notin alive /\ counts' = Without(counts, {r \in Ranges : r.pid = p})
        /\ UNCHANGED <<policy, alive, accessed, book, quiet, busy, pc, locals>>
    BY <1>2 DEF RemovePid, history
  <2>3. ASSUME NEW q \in DOMAIN book, q.pid \in alive PROVE TellsTruth(q)'
    <3>1. TellsTruth(q)
      BY <2>3 DEF LastingInv, TruthfulBook
    <3>2. q \in DOMAIN counts' /\ counts'[q] = counts[q]
      BY <2>2, <2>3, <3>1 DEF TellsTruth, Without
    <3> QED BY <2>2, <3>1, <3>2 DEF TellsTruth
  <2>4. TruthfulBook'
    BY <2>2, <2>3 DEF TruthfulBook
  <2>5. MovesAreDue'
    BY <2>2, StillDue DEF LastingInv
  <2> QED BY <2>1, <2>2, <2>4, <2>5 DEF LastingInv
<1>3. ASSUME NEW pg \in Pages, SwapIn(pg) PROVE LastingInv'
  <2>1. BookInv'
    BY <1>3, OutsideInv DEF LastingInv
  <2> QED BY <1>3, <2>1, StillTruthful, StillDue DEF LastingInv, SwapIn, tracking, history
<1>4. ASSUME NEW task \in tasks, MoverMoves(task) PROVE LastingInv'
  <2>1. BookInv'
    BY <1>4, OutsideInv DEF LastingInv
  <2> QED BY <1>4, <2>1, StillTruthful, StillDue DEF LastingInv, MoverMoves, tracking, history
<1> QED BY <1>1, <1>2, <1>3, <1>4

LEMMA ClientLasting ==
  ASSUME LastingInv, Start \/ Stop \/ StopSend \/ StopMover
  PROVE  LastingInv'
<1>1. BookInv'
  BY ClientInv DEF LastingInv
<1>2. UNCHANGED <<policy, alive, counts, accessed, book, quiet, busy>>
  BY DEF Start, Stop, StopSend, StopMover, tracking, history
<1>3. TruthfulBook'
  BY <1>2, StillTruthful DEF LastingInv
<1>4. MovesAreDue' /\ (pc' = "ratio" => policy' = "ratio")
  <2>1. CASE Start
    BY <2>1 DEF Start, MovesAreDue
  <2>2. CASE Stop \/ StopSend \/ StopMover
    <3>1. UNCHANGED <<pc, locals>>
      BY <2>2 DEF Stop, StopSend, StopMover
    <3> QED BY <1>2, <3>1, StillDue DEF LastingInv
  <2> QED BY <2>1, <2>2
<1> QED BY <1>1, <1>2, <1>3, <1>4 DEF LastingInv

\* Whatever is chosen by the book is due, so all that is merged from it is.
LEMMA MoveLasting ==
  ASSUME LastingInv, NEW S \in SUBSET DOMAIN book,
         NEW node \in {SwapNode, IdleNode, ActiveNode}, Move(S, node),
         \A r \in S : r.pid \in alive => \A pg \in PagesOf(r) : IsDue(pg, node)
  PROVE  MovesAreDue'
<1>1. /\ pc' = "move" /\ dest' = node /\ UNCHANGED <<policy, alive, quiet, busy, book>>
  BY DEF Move, tracking, history
<1>2. PICK ranges \in SortedByAddr(S) :
        todo' = IF tasks = {} THEN RegionsMerged(Counters(ranges)) ELSE <<>>
  BY DEF Move
<1> DEFINE n == Cardinality(S)
           tcs == Counters(ranges)
<1>3. S \subseteq Ranges /\ n \in Nat
  BY ConstantsAssumption, FS_Subset, FS_CardinalityType
     DEF LastingInv, BookInv, TypeOK, ConstantsAssumption
<1>4. ranges \in [1 .. n -> S]
  BY <1>2 DEF SortedByAddr
<1>5. DOMAIN tcs = 1 .. n
  BY <1>4 DEF Counters
<1>6. ASSUME NEW i \in 1 .. n
      PROVE  /\ ranges[i] \in S /\ tcs[i] \in Counter /\ tcs[i].pid = ranges[i].pid
             /\ PagesOf(tcs[i]) = PagesOf(ranges[i])
  <2> DEFINE r == ranges[i]
  <2>1. r \in S /\ r \in Ranges /\ book[r].accesses \in Nat
    BY <1>3, <1>4 DEF LastingInv, BookInv, TypeOK, Entries
  <2>2. r.pid \in Int /\ r.addr \in Int /\ r.length \in Nat
        /\ r = [pid |-> r.pid, addr |-> r.addr, length |-> r.length, accesses |-> r.accesses]
    BY <2>1, ConstantsAssumption DEF ConstantsAssumption
  <2>3. tcs[i] = [r EXCEPT !.accesses = book[r].accesses]
    BY <1>4 DEF Counters
  <2> HIDE DEF r, tcs
  <2>4. tcs[i] = [pid |-> r.pid, addr |-> r.addr, length |-> r.length, accesses |-> book[r].accesses]
    BY <2>2, <2>3
  <2> QED BY <2>1, <2>2, <2>4 DEF Counter, PagesOf, PagesIn, EndAddr, r
<1>7. tcs \in [1 .. n -> Counter]
  <2>1. tcs = [i \in 1 .. n |-> tcs[i]]
    BY <1>5 DEF Counters
  <2> HIDE DEF tcs
  <2> QED BY <2>1, <1>6
<1> HIDE DEF tcs
<1>8. RegionsMerged(tcs) \in Seq(Counter) /\ CoveredBy(tcs, RegionsMerged(tcs))
  BY <1>3, <1>7, MergedIsCovered
<1>9. /\ todo' \in Seq(Counter)
      /\ \A k \in DOMAIN todo' : \A pg \in PagesOf(todo'[k]) :
           \E j \in DOMAIN tcs : pg \in PagesOf(tcs[j])
  BY <1>2, <1>8 DEF CoveredBy, tcs
<1>10. ASSUME NEW k \in DOMAIN todo', todo'[k].pid \in alive, NEW pg \in PagesOf(todo'[k])
       PROVE  IsDue(pg, node)
  <2>1. PICK j \in 1 .. n : pg \in PagesOf(tcs[j])
    BY <1>5, <1>9
  <2>2. pg[1] = todo'[k].pid /\ pg[1] = tcs[j].pid
    BY <2>1, IsPageOf
  <2> QED BY <1>6, <1>10, <2>1, <2>2
<1>11. \A pg : IsDue(pg, node) => IsDue(pg, dest)'
  BY <1>1 DEF IsDue
<1>12. dest' \in {SwapNode, IdleNode, ActiveNode}
  BY <1>1
<1> QED BY <1>1, <1>9, <1>10, <1>11, <1>12 DEF MovesAreDue

LEMMA ChooseLasting ==
  ASSUME LastingInv, MoveSwapOut \/ MoveIdle \/ MoveActive \/ MoveRatio,
         IdleNode # SwapNode, ActiveNode # SwapNode, ActiveNode # IdleNode
  PROVE  LastingInv'
<1>1. BookInv'
  BY MoveInv DEF LastingInv
<1>2. pc' = "move" /\ UNCHANGED <<policy, alive, counts, accessed, book, quiet, busy, pages>>
  <2>1. \E S, node : Move(S, node)
    BY DEF MoveSwapOut, MoveIdle, MoveActive, MoveRatio
  <2> QED BY <2>1 DEF Move, tracking, history
<1>3. TruthfulBook'
  BY <1>2, StillTruthful DEF LastingInv
<1>4. ASSUME NEW r \in DOMAIN book, r.pid \in alive
      PROVE  /\ r \in Ranges /\ book[r].changed <= quiet[r]
             /\ IsActive(r) => busy[r] >= ActiveRounds
  BY <1>4, ActiveRoundsNat DEF LastingInv, BookInv, TypeOK, TruthfulBook, TellsTruth, IsActive
<1>5. \A r \in DOMAIN book : book[r].changed \in Int /\ quiet[r] \in Int
  BY DEF LastingInv, BookInv, TypeOK, Entries
<1>6. SwapOut \in Int /\ IdleDuration \in Int
  BY ConstantsAssumption DEF ConstantsAssumption
<1>7. MovesAreDue'
  <2>1. CASE MoveSwapOut
    <3>1. \A r \in IdleCounters(SwapOut) :
            r.pid \in alive => \A pg \in PagesOf(r) : IsDue(pg, SwapNode)
      BY <1>4, <1>5, <1>6 DEF IdleCounters, IsIdle, IsDue
    <3> QED BY <2>1, <3>1, MoveLasting DEF MoveSwapOut, IdleCounters
  <2>2. CASE MoveIdle
    <3>1. \A r \in IdleCounters(IdleDuration) :
            r.pid \in alive => \A pg \in PagesOf(r) : IsDue(pg, IdleNode)
      BY <1>4, <1>5, <1>6 DEF IdleCounters, IsIdle, IsDue
    <3> QED BY <2>2, <3>1, MoveLasting DEF MoveIdle, IdleCounters
  <2>3. CASE MoveActive
    <3>1. \A r \in ActiveCounters :
            r.pid \in alive => \A pg \in PagesOf(r) : IsDue(pg, ActiveNode)
      BY <1>4 DEF ActiveCounters, IsDue
    <3> QED BY <2>3, <3>1, MoveLasting DEF MoveActive, ActiveCounters
  <2>4. CASE MoveRatio
    BY <1>2, <2>4 DEF MoveRatio, LastingInv, MovesAreDue
  <2> QED BY <2>1, <2>2, <2>3, <2>4
<1> QED BY <1>1, <1>2, <1>3, <1>7 DEF LastingInv

LEMMA MoverLoopLasting ==
  ASSUME LastingInv, FindPages \/ AddTask
  PROVE  LastingInv'
<1>1. BookInv'
  BY FindPagesInv, AddTaskInv DEF LastingInv
<1>2. UNCHANGED <<policy, alive, counts, accessed, book, quiet, busy, dest>> /\ pc' \in {"move", "nodes"}
  BY DEF FindPages, AddTask, tracking, history
<1>3. TruthfulBook'
  BY <1>2, StillTruthful DEF LastingInv
<1>4. /\ pc \in {"move", "nodes"} /\ todo # <<>> /\ todo' \in {todo, Tail(todo)}
      /\ pc' = "nodes" => todo' = todo /\ pages' \subseteq PagesOf(Head(todo))
  BY DEF FindPages, AddTask, LastingInv, MovesAreDue
<1>5. MovesAreDue'
  <2>1. \A pg : IsDue(pg, dest) => IsDue(pg, dest)'
    BY <1>2 DEF IsDue
  <2>2. ASSUME policy = "age"
        PROVE  /\ todo' \in Seq(Counter) /\ dest \in {SwapNode, IdleNode, ActiveNode}
               /\ \A k \in DOMAIN todo' :
                    todo'[k].pid \in alive => \A pg \in PagesOf(todo'[k]) : IsDue(pg, dest)
    <3>1. /\ todo \in Seq(Counter) /\ dest \in {SwapNode, IdleNode, ActiveNode}
          /\ \A k \in DOMAIN todo :
               todo[k].pid \in alive => \A pg \in PagesOf(todo[k]) : IsDue(pg, dest)
      BY <1>4, <2>2 DEF LastingInv, MovesAreDue
    <3>2. /\ Tail(todo) \in Seq(Counter)
          /\ \A k \in DOMAIN Tail(todo) : k + 1 \in DOMAIN todo /\ Tail(todo)[k] = todo[k + 1]
      BY <1>4, <3>1
    <3>3. CASE todo' = todo
      BY <3>1, <3>3
    <3>4. CASE todo' = Tail(todo)
      BY <3>1, <3>2, <3>4
    <3> QED BY <1>4, <3>1, <3>3, <3>4
  <2>3. ASSUME policy' = "age"
        PROVE  /\ dest' \in {SwapNode, IdleNode, ActiveNode} /\ todo' \in Seq(Counter)
               /\ \A k \in DOMAIN todo' :
                    todo'[k].pid \in alive' => \A pg \in PagesOf(todo'[k]) : IsDue(pg, dest)'
    BY <1>2, <2>1, <2>2, <2>3
  <2> QED BY <1>4, <2>3 DEF MovesAreDue
<1> QED BY <1>1, <1>2, <1>3, <1>5 DEF LastingInv

LEMMA LoopLasting ==
  ASSUME LastingInv, MoveEnds \/ Tick \/ Quit \/ Close \/ Forget
  PROVE  LastingInv'
<1>1. BookInv'
  BY LoopInv DEF LastingInv
<1>2. pc' \notin {"move", "nodes", "ratio"}
  BY DEF MoveEnds, NextPhase, Tick, Quit, Close, Forget
<1>3. TruthfulBook' /\ quiet' \in [Ranges -> Nat]
  <2>1. CASE Forget
    <3>1. DOMAIN book' = {} /\ quiet' \in [Ranges -> Nat]
      BY <2>1 DEF Forget, Zeros
    <3> QED BY <3>1 DEF TruthfulBook
  <2>2. CASE MoveEnds \/ Tick \/ Quit \/ Close
    <3>1. UNCHANGED <<alive, counts, accessed, book, quiet, busy>>
      BY <2>2 DEF MoveEnds, Tick, Quit, Close, tracking, history
    <3> QED BY <3>1, StillTruthful DEF LastingInv
  <2> QED BY <2>1, <2>2
<1> QED BY <1>1, <1>2, <1>3 DEF LastingInv, MovesAreDue

LEMMA StepLastingInv ==
  ASSUME Deltas \subseteq Nat, IdleNode # SwapNode, ActiveNode # SwapNode, ActiveNode # IdleNode
  PROVE  LastingInv /\ [Next]_vars => LastingInv'
<1> SUFFICES ASSUME LastingInv, [Next]_vars PROVE LastingInv'
  OBVIOUS
<1>1. CASE UNCHANGED vars
  <2>1. BookInv'
    BY <1>1, StepBookInv DEF LastingInv
  <2> QED BY <1>1, <2>1, StillTruthful, StillDue DEF LastingInv, vars, tracking, history
<1>2. CASE Environment
  BY <1>2, ScanLasting, OutsideLasting DEF Environment
<1>3. CASE MoverStep
  BY <1>3, OutsideLasting DEF MoverStep
<1>4. CASE Start \/ Stop \/ ClientStep
  BY <1>4, ClientLasting DEF ClientStep
<1>5. CASE LoopStep
  BY <1>5, RoundLasting, ChooseLasting, MoverLoopLasting, LoopLasting DEF LoopStep
<1>6. CASE Tick \/ Quit
  BY <1>6, LoopLasting
<1>7. CASE \E p \in Pids : RemovePid(p)
  BY <1>7, OutsideLasting
<1> QED BY <1>1, <1>2, <1>3, <1>4, <1>5, <1>6, <1>7 DEF Next

\* Only AddTask adds a task, and all its pages are due when it does.
LEMMA AddsOnlyDue ==
  ASSUME LastingInv, [Next]_vars, policy = "age", NEW t \in tasks' \ tasks, NEW pg \in t.pages
  PROVE  IsDue(pg, t.dest)
<1>1. CASE AddTask
  <2>1. /\ Head(todo).pid \in alive /\ pc = "nodes"
        /\ t.dest = dest /\ t.pages \subseteq pages
    BY <1>1 DEF AddTask
  <2>2. /\ pages \subseteq PagesOf(Head(todo)) /\ todo # <<>> /\ todo \in Seq(Counter)
        /\ \A k \in DOMAIN todo :
             todo[k].pid \in alive => \A p \in PagesOf(todo[k]) : IsDue(p, dest)
    BY <2>1 DEF LastingInv, MovesAreDue
  <2>3. 1 \in DOMAIN todo /\ Head(todo) = todo[1]
    BY <2>2
  <2> QED BY <2>1, <2>2, <2>3
<1>2. CASE ~AddTask
  <2>1. tasks' \subseteq tasks
    BY <1>2 DEF Next, Environment, MoverStep, ClientStep, LoopStep, Scan, Exit, RemovePid, SwapIn,
                MoverMoves, Start, Stop, StopSend, StopMover, Round, MoveSwapOut, MoveIdle,
                MoveActive, MoveRatio, Move, FindPages, MoveEnds, Tick, Quit, Close, Forget,
                vars, moving
  <2> QED BY <2>1
<1> QED BY <1>1, <1>2

\* policy_age.go:48, :52 and :58: the age policy swaps out and demotes only what
\* the tracker has not found accessed for the configured time, and promotes only
\* what was accessed in every one of the last rounds of the active duration, or of
\* those that LastRounds has bits for if the duration has more, whatever is
\* merged, and whichever counters and processes come and go.  Time does not go
\* back, and the three nodes differ.
THEOREM OnlyWhatIsDueMoves ==
  ASSUME Deltas \subseteq Nat, IdleNode # SwapNode, ActiveNode # SwapNode, ActiveNode # IdleNode
  PROVE  Spec => OnlyLastingAgeMoves
<1>1. LastingInv /\ [Next]_vars => LastingInv'
  BY StepLastingInv
<1>2. LastingInv /\ [Next]_vars =>
        [policy = "age" =>
           \A t \in tasks' \ tasks : \A pg \in t.pages : \E r \in DOMAIN book :
             /\ pg \in PagesOf(r)
             /\ CASE t.dest = ActiveNode -> busy[r] >= ActiveRounds
                  [] t.dest = IdleNode -> quiet[r] > IdleDuration
                  [] t.dest = SwapNode -> quiet[r] > SwapOut]_vars
  BY AddsOnlyDue DEF IsDue
<1> QED BY <1>1, <1>2, InitLastingInv, PTL DEF Spec, OnlyLastingAgeMoves
=============================================================================
