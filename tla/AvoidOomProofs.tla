--------------------------- MODULE AvoidOomProofs ---------------------------
(***************************************************************************)
(* Proofs about the avoid-oom policy: its type, and that it relieves nodes *)
(* no further than to the watermark to stop at, for any nodes, segments,   *)
(* watermarks and scenarios.                                               *)
(***************************************************************************)
EXTENDS AvoidOom, SequenceTheorems, FiniteSetTheorems, TLAPS

-----------------------------------------------------------------------------
(* Numbers, sets and lists *)

LEMMA LeastNumber ==
  ASSUME NEW T \in SUBSET Nat, T # {}
  PROVE  \E x \in T : \A y \in T : x <= y
<1>1. PICK x \in T : \A y \in T : <<y, x>> \notin OpToRel(<, Nat)
  BY NatLessThanWellFounded, WFMin
<1>2. \A y \in T : ~(y < x)
  BY <1>1 DEF OpToRel
<1> QED BY <1>2

LEMMA MinIsIn == ASSUME NEW T \in SUBSET Nat, T # {} PROVE Min(T) \in T
  BY LeastNumber DEF Min

LEMMA SomePages ==
  ASSUME NEW S, S \subseteq Pages
  PROVE  IsFiniteSet(S) /\ Cardinality(S) \in Nat
<1>1. IsFiniteSet(Pages)
  BY ConstantsAssumption
<1> QED BY <1>1, FS_Subset, FS_CardinalityType

\* If in a set of pages of a segment every page has fewer than k before it, these are
\* no more than k.
LEMMA FewBeforeEach ==
  ASSUME NEW s \in Segments, NEW S, S \subseteq PagesOf(s), NEW k \in Int,
         \A pg \in S : Cardinality({q \in S : q[2] < pg[2]}) < k
  PROVE  S = {} \/ Cardinality(S) <= k
<1> SUFFICES ASSUME S # {} PROVE Cardinality(S) <= k
  OBVIOUS
<1> DEFINE T == {Length[s] - pg[2] : pg \in S}
<1>1. Length[s] \in Nat /\ \A pg \in S : pg = <<s, pg[2]>> /\ pg[2] \in 1 .. Length[s]
  BY ConstantsAssumption DEF PagesOf
<1>2. T \subseteq Nat /\ T # {}
  BY <1>1
<1>3. PICK x \in T : \A y \in T : x <= y
  BY <1>2, LeastNumber
<1>4. PICK last \in S : x = Length[s] - last[2]
  BY <1>3
<1>5. ASSUME NEW pg \in S PROVE pg[2] <= last[2]
  <2>1. Length[s] - pg[2] \in T
    OBVIOUS
  <2>2. Length[s] - last[2] <= Length[s] - pg[2]
    BY <2>1, <1>3, <1>4
  <2> HIDE DEF T
  <2> QED BY <2>2, <1>1
<1> DEFINE before == {q \in S : q[2] < last[2]}
<1>6. S = before \cup {last} /\ last \notin before
  BY <1>1, <1>5
<1>7. S \subseteq Pages /\ before \subseteq Pages
  BY DEF Pages
<1>8. IsFiniteSet(before) /\ Cardinality(before) \in Nat
  BY <1>7, SomePages
<1>9. Cardinality(S) = Cardinality(before) + 1
  BY <1>6, <1>8, FS_AddElement
<1>10. Cardinality(before) < k
  OBVIOUS
<1> HIDE DEF before
<1> QED BY <1>8, <1>9, <1>10

LEMMA AppendedList ==
  ASSUME NEW S, NEW s \in Seq(S), NEW e \in S
  PROVE  /\ Append(s, e) \in Seq(S) /\ Append(s, e) # <<>>
         /\ Len(Append(s, e)) = Len(s) + 1
         /\ DOMAIN Append(s, e) = DOMAIN s \cup {Len(s) + 1}
         /\ \A i \in DOMAIN s : Append(s, e)[i] = s[i]
         /\ Append(s, e)[Len(s) + 1] = e
  OBVIOUS

LEMMA FrontOfList ==
  ASSUME NEW S, NEW s \in Seq(S), s # <<>>
  PROVE  /\ Front(s) \in Seq(S) /\ Last(s) \in S
         /\ DOMAIN s = DOMAIN Front(s) \cup {Len(s)} /\ Len(s) \notin DOMAIN Front(s)
         /\ \A i \in DOMAIN Front(s) : Front(s)[i] = s[i]
         /\ Last(s) = s[Len(s)]
<1>1. Len(s) \in Nat \ {0} /\ DOMAIN s = 1 .. Len(s) /\ \A i \in 1 .. Len(s) : s[i] \in S
  OBVIOUS
<1>2. /\ SubSeq(s, 1, Len(s) - 1) \in Seq(S)
      /\ Len(SubSeq(s, 1, Len(s) - 1)) = Len(s) - 1
      /\ \A i \in 1 .. (Len(s) - 1) : SubSeq(s, 1, Len(s) - 1)[i] = s[i]
  BY <1>1, SubSeqProperties
<1> QED BY <1>1, <1>2 DEF Front, Last

-----------------------------------------------------------------------------
(* Type correctness *)

\* What the mover and the loop have in store; a Stop of the policy that has come to the
\* mover has ended the loop.
Typed ==
  /\ TypeOK
  /\ tasks \in Seq(Tasks) /\ inHand \in [Handlers -> Tasks \cup {NoTask}]
  /\ round \in Rounds \cup {NoRound}
  /\ chan \in Seq({"continue", "quit"})
  /\ cpc = "mover" => ~cmdLoop
  /\ cpc = "send" => cmdLoop

LEMMA TypedInit == Init => Typed
<1> SUFFICES ASSUME Init PROVE Typed
  OBVIOUS
<1>1. /\ at \in [Pages -> Nodes \cup {None}] /\ other \in [Nodes -> 0 .. Total]
  BY ConstantsAssumption DEF Init
<1>2. /\ tasks = <<>> /\ chan = <<>> /\ DOMAIN tasks = {} /\ DOMAIN chan = {}
      /\ Len(chan) = 0 /\ Range(chan) = {}
  BY DEF Init, Range
<1>3. \A pg \in Pages : Owner[pg[1]] \in Pids
  BY ConstantsAssumption DEF Pages, PagesOf
<1>4. Cardinality(Live) = Cardinality(Quits(chan)) + (IF MoverRuns THEN 1 ELSE 0)
  <2>1. Live = {} /\ Quits(chan) = {} /\ ~MoverRuns
    BY <1>2 DEF Init, Live, Quits, MoverRuns
  <2> QED BY <2>1, FS_EmptySet
<1>5. TypeOK
  BY <1>1, <1>2, <1>3, <1>4, ConstantsAssumption DEF Init, TypeOK
<1> QED BY <1>2, <1>5 DEF Init, Typed

\* The handlers and the commands to quit can be counted.
LEMMA FiniteHandlers ==
  ASSUME NEW S \in SUBSET Handlers
  PROVE  IsFiniteSet(S) /\ Cardinality(S) \in Nat
<1>1. IsFiniteSet(Handlers)
  BY ConstantsAssumption, FS_Interval DEF Handlers
<1> QED BY <1>1, FS_Subset, FS_CardinalityType

LEMMA FiniteQuits ==
  ASSUME NEW S, NEW s \in Seq(S)
  PROVE  /\ Quits(s) \subseteq 1 .. Len(s) /\ IsFiniteSet(Quits(s))
         /\ Cardinality(Quits(s)) \in Nat /\ Cardinality(Quits(s)) <= Len(s)
<1>1. Len(s) \in Nat /\ DOMAIN s = 1 .. Len(s)
  OBVIOUS
<1>2. IsFiniteSet(1 .. Len(s)) /\ Cardinality(1 .. Len(s)) = Len(s)
  <2>1. 1 \in Int /\ Len(s) \in Int
    BY <1>1
  <2>2. /\ IsFiniteSet(1 .. Len(s))
        /\ Cardinality(1 .. Len(s)) = IF 1 > Len(s) THEN 0 ELSE Len(s) - 1 + 1
    BY ONLY <2>1, FS_Interval
  <2> QED BY <1>1, <2>2
<1>3. Quits(s) \subseteq 1 .. Len(s)
  BY <1>1 DEF Quits
<1> QED BY <1>2, <1>3, FS_Subset, FS_CardinalityType

\* One more command to quit, or another one, on the channel.
LEMMA QuitsOfAppend ==
  ASSUME NEW S, NEW s \in Seq(S), NEW x \in S
  PROVE  Cardinality(Quits(Append(s, x))) = Cardinality(Quits(s)) + (IF x = "quit" THEN 1 ELSE 0)
<1>1. /\ DOMAIN Append(s, x) = DOMAIN s \cup {Len(s) + 1}
      /\ Append(s, x)[Len(s) + 1] = x /\ \A i \in DOMAIN s : Append(s, x)[i] = s[i]
  BY AppendedList
<1>2. DOMAIN s = 1 .. Len(s) /\ Len(s) \in Nat
  OBVIOUS
<1>3. CASE x = "quit"
  <2>1. Quits(Append(s, x)) = Quits(s) \cup {Len(s) + 1} /\ Len(s) + 1 \notin Quits(s)
    BY <1>1, <1>2, <1>3 DEF Quits
  <2> QED BY <1>3, <2>1, FiniteQuits, FS_AddElement
<1>4. CASE x # "quit"
  <2>1. Quits(Append(s, x)) = Quits(s)
    BY <1>1, <1>2, <1>4 DEF Quits
  <2> QED BY <1>4, <2>1, FiniteQuits
<1> QED BY <1>3, <1>4

\* A command is read.
LEMMA QuitsOfTail ==
  ASSUME NEW S, NEW s \in Seq(S), s # <<>>
  PROVE  Cardinality(Quits(s)) = Cardinality(Quits(Tail(s))) + (IF Head(s) = "quit" THEN 1 ELSE 0)
<1>1. /\ Tail(s) \in Seq(S) /\ Len(Tail(s)) = Len(s) - 1 /\ Head(s) = s[1]
      /\ \A i \in 1 .. (Len(s) - 1) : Tail(s)[i] = s[i + 1]
  BY HeadTailProperties
<1>2. /\ Len(s) \in Nat \ {0} /\ DOMAIN s = 1 .. Len(s) /\ DOMAIN Tail(s) = 1 .. (Len(s) - 1)
  BY <1>1, EmptySeq
<1> DEFINE later == Quits(s) \ {1}
           down == [i \in later |-> i - 1]
<1>3. later = {i \in 2 .. Len(s) : s[i] = "quit"}
  BY <1>2 DEF Quits
<1>4. Quits(Tail(s)) = {i \in 1 .. (Len(s) - 1) : s[i + 1] = "quit"}
  BY <1>1, <1>2 DEF Quits
<1>5. down \in Bijection(later, Quits(Tail(s)))
  <2>1. down \in [later -> Quits(Tail(s))]
    BY <1>2, <1>3, <1>4
  <2>2. \A i, j \in later : down[i] = down[j] => i = j
    BY <1>2, <1>3
  <2>3. \A j \in Quits(Tail(s)) : j + 1 \in later /\ down[j + 1] = j
    BY <1>2, <1>3, <1>4
  <2>4. \A j \in Quits(Tail(s)) : \E i \in later : down[i] = j
    BY <2>3
  <2> QED BY <2>1, <2>2, <2>4 DEF Bijection, Injection, Surjection, IsInjective
<1>6. IsFiniteSet(later) /\ Cardinality(later) = Cardinality(Quits(s)) - (IF 1 \in Quits(s) THEN 1 ELSE 0)
  <2>1. IsFiniteSet(Quits(s)) /\ Cardinality(Quits(s)) \in Nat
    BY FiniteQuits
  <2>2. /\ IsFiniteSet(later)
        /\ Cardinality(later) = IF 1 \in Quits(s) THEN Cardinality(Quits(s)) - 1 ELSE Cardinality(Quits(s))
    BY <2>1, FS_RemoveElement
  <2> HIDE DEF later
  <2> QED BY <2>1, <2>2
<1>7. Cardinality(Quits(Tail(s))) = Cardinality(later)
  BY <1>5, <1>6, FS_Bijection DEF ExistsBijection
<1>8. 1 \in Quits(s) <=> Head(s) = "quit"
  BY <1>1, <1>2 DEF Quits
<1> QED BY <1>6, <1>7, <1>8, FiniteQuits

\* A step that neither starts nor tells anything keeps the balance of the handlers.
LEMMA SameHandlers ==
  ASSUME Typed, UNCHANGED <<handler, chan>>, MoverRuns' = MoverRuns
  PROVE  Cardinality(Live') = Cardinality(Quits(chan')) + (IF MoverRuns' THEN 1 ELSE 0)
<1>1. Live' = Live /\ Quits(chan') = Quits(chan)
  BY DEF Live, Quits
<1>2. Cardinality(Live) = Cardinality(Quits(chan)) + (IF MoverRuns THEN 1 ELSE 0)
  BY DEF Typed, TypeOK
<1> QED BY <1>1, <1>2

LEMMA SameClient == ASSUME UNCHANGED client PROVE MoverRuns' = MoverRuns
  BY DEF client, MoverRuns

LEMMA CardinalityNat ==
  ASSUME Typed, NEW n
  PROVE  /\ PagesOn(n) \subseteq Pages /\ Cardinality(PagesOn(n)) \in Nat
         /\ n \in Nodes => Avail(n) \in Int
<1>1. PagesOn(n) \subseteq Pages
  BY DEF PagesOn
<1>2. Cardinality(PagesOn(n)) \in Nat
  BY <1>1, SomePages
<1>3. ASSUME n \in Nodes PROVE Avail(n) \in Int
  <2>1. other[n] \in Int /\ Total \in Int
    BY <1>3, ConstantsAssumption DEF Typed, TypeOK
  <2> QED BY <2>1, <1>2 DEF Avail
<1> QED BY <1>1, <1>2, <1>3

LEMMA TypedMemory ==
  ASSUME Typed, Environment
  PROVE  Typed'
<1>1. ASSUME NEW n \in Nodes, Allocate(n) PROVE Typed'
  <2>1. other[n] \in 0 .. Total /\ Total \in Nat /\ Cardinality(PagesOn(n)) \in Nat
    BY ConstantsAssumption, CardinalityNat DEF Typed, TypeOK
  <2>2. other[n] + 1 \in 0 .. Total
    BY <2>1, <1>1 DEF Allocate, Avail
  <2>3. other' \in [Nodes -> 0 .. Total]
    BY <2>2, <1>1 DEF Allocate, Typed, TypeOK
  <2> QED BY <1>1, <2>3, SameHandlers, SameClient DEF Allocate, Typed, TypeOK, client, loop, mover
<1>2. ASSUME NEW n \in Nodes, Release(n) PROVE Typed'
  <2>1. other[n] \in 0 .. Total /\ Total \in Nat
    BY ConstantsAssumption DEF Typed, TypeOK
  <2>2. other[n] - 1 \in 0 .. Total
    BY <2>1, <1>2 DEF Release
  <2>3. other' \in [Nodes -> 0 .. Total]
    BY <2>2, <1>2 DEF Release, Typed, TypeOK
  <2>4. stale' \subseteq Nodes
    BY <1>2 DEF Release, Typed, TypeOK
  <2> QED BY <1>2, <2>3, <2>4, SameHandlers, SameClient DEF Release, Typed, TypeOK, client, loop, mover
<1>3. ASSUME NEW pg \in Pages, Unmap(pg) PROVE Typed'
  <2>1. /\ at' \in [Pages -> Nodes \cup {None}] /\ stale' \subseteq Nodes
        /\ \A q \in Pages : at'[q] # None => at[q] # None
    BY <1>3 DEF Unmap, Typed, TypeOK
  <2>2. \A q \in Pages : at'[q] # None => Owner[q[1]] \in alive'
    BY <1>3, <2>1 DEF Unmap, Typed, TypeOK
  <2> QED BY <1>3, <2>1, <2>2, SameHandlers, SameClient DEF Unmap, Typed, TypeOK, client, loop, mover
<1>4. ASSUME NEW p \in Pids, Exit(p) PROVE Typed'
  <2> DEFINE its == {pg \in Pages : Owner[pg[1]] = p}
  <2>1. /\ at' = [pg \in Pages |-> IF pg \in its THEN None ELSE at[pg]]
        /\ stale' = stale \cup ({at[pg] : pg \in its} \ {None})
        /\ alive' = alive \ {p}
    BY <1>4 DEF Exit
  <2>2. at' \in [Pages -> Nodes \cup {None}] /\ stale' \subseteq Nodes
    BY <2>1 DEF Typed, TypeOK
  <2>3. \A q \in Pages : at'[q] # None => Owner[q[1]] \in alive'
    BY <2>1 DEF Typed, TypeOK
  <2> HIDE DEF its
  <2> QED BY <1>4, <2>2, <2>3, SameHandlers, SameClient DEF Exit, Typed, TypeOK, client, loop, mover
<1> QED BY <1>1, <1>2, <1>3, <1>4 DEF Environment

\* One more command on the channel.
LEMMA TypedSend ==
  ASSUME NEW c \in {"continue", "quit"}, Typed, Len(chan) < ChanCap, chan' = Append(chan, c)
  PROVE  /\ chan' \in Seq({"continue", "quit"})
         /\ Len(chan') <= ChanCap /\ Range(chan') \subseteq {"continue", "quit"}
         /\ Cardinality(Quits(chan')) = Cardinality(Quits(chan)) + (IF c = "quit" THEN 1 ELSE 0)
<1>1. chan \in Seq({"continue", "quit"})
  BY DEF Typed
<1>2. Len(chan) \in Nat /\ ChanCap \in Nat
  BY <1>1, ConstantsAssumption
<1>3. chan' \in Seq({"continue", "quit"}) /\ Len(chan') = Len(chan) + 1
  BY <1>1, AppendedList
<1>4. \A i \in DOMAIN chan' : chan'[i] \in {"continue", "quit"}
  BY <1>3
<1> QED BY <1>1, <1>2, <1>3, <1>4, QuitsOfAppend DEF Range

\* There is room for another handler when the policy starts.
LEMMA TypedLaunch ==
  ASSUME Typed, Launch, ~MoverRuns
  PROVE  /\ handler' \in [Handlers -> {"off", "waiting", "busy"}]
         /\ \A h \in Handlers : handler[h] = "busy" => handler'[h] = "busy"
         /\ Cardinality(Live') = Cardinality(Quits(chan)) + 1
<1>1. PICK h \in Handlers \ Live : handler' = [handler EXCEPT ![h] = "waiting"]
  BY DEF Launch
<1>2. handler \in [Handlers -> {"off", "waiting", "busy"}] /\ handler[h] = "off"
  BY <1>1 DEF Typed, TypeOK, Live
<1>3. Live' = Live \cup {h} /\ h \notin Live
  BY <1>1, <1>2 DEF Live
<1>4. Live \subseteq Handlers
  BY DEF Live
<1>5. Cardinality(Live') = Cardinality(Live) + 1
  BY <1>3, <1>4, FiniteHandlers, FS_AddElement
<1>6. Cardinality(Live) = Cardinality(Quits(chan)) + 0
  BY DEF Typed, TypeOK
<1>7. Cardinality(Quits(chan)) \in Nat
  BY FiniteQuits DEF Typed
<1> QED BY <1>1, <1>2, <1>5, <1>6, <1>7

LEMMA TypedClient ==
  ASSUME Typed, Start \/ Stop \/ StopStep
  PROVE  Typed'
<1>1. CASE Start
  <2>1. ~MoverRuns /\ MoverRuns' /\ Quits(chan') = Quits(chan)
    BY <1>1 DEF Start, MoverRuns, Quits
  <2>2. /\ handler' \in [Handlers -> {"off", "waiting", "busy"}]
        /\ \A h \in Handlers : inHand[h] # NoTask => handler'[h] = "busy"
        /\ Cardinality(Live') = Cardinality(Quits(chan')) + (IF MoverRuns' THEN 1 ELSE 0)
    BY <1>1, <2>1, TypedLaunch DEF Start, Typed, TypeOK
  <2> QED BY <1>1, <2>2 DEF Start, Typed, TypeOK, memory
<1>2. CASE Stop
  <2>1. MoverRuns' = MoverRuns
    BY <1>2 DEF Stop, MoverRuns
  <2> QED BY <1>2, <2>1, SameHandlers DEF Stop, Typed, TypeOK, memory, loop, mover
<1>3. CASE LoopQuits
  <2>1. MoverRuns' = MoverRuns
    BY <1>3 DEF LoopQuits, MoverRuns, Typed
  <2> QED BY <1>3, <2>1, SameHandlers DEF LoopQuits, Typed, TypeOK, memory, mover
<1>4. CASE StopMover
  <2>1. Typed /\ Len(chan) < ChanCap /\ chan' = Append(chan, "quit") /\ cpc' = "idle" /\ handler' = handler
    BY <1>4 DEF StopMover
  <2>2. /\ chan' \in Seq({"continue", "quit"})
        /\ Len(chan') <= ChanCap /\ Range(chan') \subseteq {"continue", "quit"}
        /\ Cardinality(Quits(chan')) = Cardinality(Quits(chan)) + 1
    BY <2>1, TypedSend
  <2>3. MoverRuns /\ ~MoverRuns' /\ Live' = Live
    BY <1>4, <2>1 DEF StopMover, MoverRuns, Typed, Live
  <2>4. Cardinality(Live) = Cardinality(Quits(chan)) + (IF MoverRuns THEN 1 ELSE 0)
    BY DEF Typed, TypeOK
  <2>5. Cardinality(Quits(chan)) \in Nat
    BY FiniteQuits DEF Typed
  <2>6. Cardinality(Live') = Cardinality(Quits(chan')) + (IF MoverRuns' THEN 1 ELSE 0)
    BY <2>2, <2>3, <2>4, <2>5
  <2> QED BY <1>4, <2>2, <2>6 DEF StopMover, Typed, TypeOK, memory, loop
<1> QED BY <1>1, <1>2, <1>3, <1>4 DEF StopStep

\* What the loop knows when it goes on.
LEMMA TypedGoOn ==
  ASSUME NEW r \in Rounds, GoOn(r)
  PROVE  /\ round' \in Rounds \cup {NoRound}
         /\ pc' \in {"select", "nodesets", "candidates"}
         /\ round' = NoRound <=> pc' = "select"
         /\ round' # NoRound => round' = r
         /\ pc' = "candidates" => round'.cands # {}
  BY ConstantsAssumption DEF GoOn

\* No round is forgotten in the middle of it.
LEMMA InTheRound ==
  ASSUME Typed, pc \in {"nodesets", "candidates", "wake"}
  PROVE  round \in Rounds /\ cmdLoop
  BY DEF Typed, TypeOK

LEMMA NodeSetsAreNodes ==
  ASSUME scenario \in Scenarios
  PROVE  /\ NodeSets \subseteq SUBSET Nodes
         /\ HighNodes(AvailNow) \subseteq Nodes /\ FreeNodes(AvailNow) \subseteq Nodes
<1>1. scenario.mems \in [Cgroups -> SUBSET Nodes]
  BY ConstantsAssumption
<1>2. NodeSets \subseteq SUBSET Nodes
  BY <1>1 DEF NodeSets
<1> QED BY <1>2 DEF HighNodes, FreeNodes

LEMMA TypedBegin ==
  ASSUME Typed, BeginRound
  PROVE  Typed' /\ round' \in Rounds
<1> DEFINE new == [avail |-> AvailNow, high |-> HighNodes(AvailNow), free |-> FreeNodes(AvailNow),
                   sets |-> NodeSets, cands |-> {},
                   toMove |-> BytesToMove(AvailNow), room |-> BytesAvail(AvailNow)]
<1>1. AvailNow \in [Nodes -> Int]
  BY CardinalityNat DEF AvailNow
<1>2. StopFree \in Int
  BY ConstantsAssumption
<1>3. BytesToMove(AvailNow) \in [Nodes -> Int] /\ BytesAvail(AvailNow) \in [Nodes -> Int]
  BY <1>1, <1>2 DEF BytesToMove, BytesAvail
<1>4. /\ NodeSets \subseteq SUBSET Nodes
      /\ HighNodes(AvailNow) \subseteq Nodes /\ FreeNodes(AvailNow) \subseteq Nodes
  BY NodeSetsAreNodes DEF Typed, TypeOK
<1>5. new \in Rounds
  BY <1>1, <1>3, <1>4 DEF Rounds
<1>6. round' = new /\ pc = "select" /\ pc' = "nodesets" /\ stale' \subseteq Nodes
      /\ UNCHANGED <<memory, client, mover>>
  BY DEF BeginRound
<1> HIDE DEF new
<1>7. round' \in Rounds /\ round' # NoRound
  BY <1>5, <1>6, ConstantsAssumption
<1> QED BY <1>6, <1>7, SameHandlers, SameClient DEF Typed, TypeOK, memory, client, mover

LEMMA TypedCandidates ==
  ASSUME Typed, round \in Rounds, NEW S \in round.sets
  PROVE  Candidates(S) \subseteq Candidate
<1> DEFINE from(s, n) == [segment |-> s, node |-> n, size |-> SizeOn(s, n), resident |-> Resident(s),
                          near |-> NodesOf(Owner[s]) \cap round.free, allowed |-> S \cap round.free]
<1>1. round.high \subseteq Nodes /\ round.free \subseteq Nodes
  BY DEF Rounds
<1>2. ASSUME NEW s \in Segments, NEW n \in round.high PROVE from(s, n) \in Candidate
  <2>1. /\ PagesOf(s) \cap PagesOn(n) \subseteq Pages
        /\ {pg \in PagesOf(s) : at[pg] # None} \subseteq Pages
    BY DEF PagesOn, Pages
  <2>2. SizeOn(s, n) \in Nat /\ Resident(s) \in Nat
    BY <2>1, SomePages DEF SizeOn, Resident
  <2> QED BY <1>1, <2>2 DEF Candidate
<1> HIDE DEF from
<1>3. \A c \in Candidates(S) : \E s \in Segments, n \in round.high : c = from(s, n)
  BY DEF Candidates, from
<1> QED BY <1>2, <1>3

LEMMA TypedNodeset ==
  ASSUME Typed, NEW S, NextNodeset(S)
  PROVE  Typed' /\ (round' # NoRound => round' \in Rounds /\ round'.toMove = round.toMove)
<1> DEFINE cands == IF S \cap round.high = {} \/ S \cap round.free = {} \/ Settled(round)
                    THEN {} ELSE Candidates(S)
           r == [round EXCEPT !.sets = @ \ {S}, !.cands = cands]
<1>1. pc = "nodesets" /\ S \in round.sets /\ GoOn(r) /\ UNCHANGED <<memory, client, mover, stale>>
  BY DEF NextNodeset
<1>2. round \in Rounds /\ cmdLoop
  BY <1>1, InTheRound
<1>3. cands \subseteq Candidate
  BY <1>1, <1>2, TypedCandidates
<1> HIDE DEF cands
<1>4. r \in Rounds /\ r.toMove = round.toMove
  BY <1>2, <1>3 DEF Rounds
<1> HIDE DEF r
<1>5. /\ round' \in Rounds \cup {NoRound}
      /\ pc' \in {"select", "nodesets", "candidates"}
      /\ round' = NoRound <=> pc' = "select"
      /\ round' # NoRound => round' = r
      /\ pc' = "candidates" => round'.cands # {}
  BY <1>1, <1>4, TypedGoOn
<1>6. Typed'
  BY <1>1, <1>2, <1>5, SameHandlers, SameClient DEF Typed, TypeOK, memory, client, mover
<1> QED BY <1>4, <1>5, <1>6

LEMMA TargetsAreNodes ==
  ASSUME NEW c \in Candidate
  PROVE  Targets(c) \subseteq Nodes
<1>1. c.near \subseteq Nodes /\ c.allowed \subseteq Nodes /\ Nodes \subseteq Nat
  BY ConstantsAssumption DEF Candidate
<1>2. \A T \in SUBSET Nodes : T # {} => Min(T) \in Nodes
  BY <1>1, MinIsIn
<1> QED BY <1>1, <1>2 DEF Targets

\* What is left to be done of the round when pages of a candidate are scheduled.
After(c, target) ==
  [round EXCEPT
     !.cands = @ \ {c},
     !.toMove = [n \in Nodes |-> @[n] - Cardinality(ToMove(c) \cap PagesOn(n))],
     !.room[target] = @ - Cardinality(ToMove(c))]

LEMMA TypedAfter ==
  ASSUME Typed, round \in Rounds, NEW c \in round.cands, NEW target \in Nodes
  PROVE  /\ ToMove(c) \subseteq Pages
         /\ After(c, target) \in Rounds
         /\ \A n \in Nodes : After(c, target).toMove[n] =
              round.toMove[n] - Cardinality(ToMove(c) \cap PagesOn(n))
<1>1. c \in Candidate
  BY DEF Rounds
<1>2. ToMove(c) \subseteq Pages
  BY <1>1 DEF ToMove, Pages, Candidate
<1>3. Cardinality(ToMove(c)) \in Nat /\ \A n \in Nodes : Cardinality(ToMove(c) \cap PagesOn(n)) \in Nat
  BY <1>2, SomePages
<1>4. round.toMove \in [Nodes -> Int] /\ round.room \in [Nodes -> Int]
  BY DEF Rounds
<1> DEFINE left == [n \in Nodes |-> round.toMove[n] - Cardinality(ToMove(c) \cap PagesOn(n))]
           room == [round.room EXCEPT ![target] = @ - Cardinality(ToMove(c))]
<1>5. left \in [Nodes -> Int] /\ room \in [Nodes -> Int]
  <2>1. \A n \in Nodes : round.toMove[n] - Cardinality(ToMove(c) \cap PagesOn(n)) \in Int
    BY <1>3, <1>4
  <2>2. round.room[target] - Cardinality(ToMove(c)) \in Int
    BY <1>3, <1>4
  <2> QED BY <1>4, <2>1, <2>2
<1>6. After(c, target) = [round EXCEPT !.cands = @ \ {c}, !.toMove = left, !.room = room]
  BY DEF After, Rounds
<1> HIDE DEF left, room
<1>7. After(c, target) \in Rounds /\ After(c, target).toMove = left
  <2>1. round.cands \ {c} \subseteq Candidate
    BY DEF Rounds
  <2> QED BY <1>5, <1>6, <2>1 DEF Rounds
<1> QED BY <1>2, <1>7 DEF left

\* A candidate is passed over, is found to have nothing to move, or is scheduled.
LEMMA CandidateCases ==
  ASSUME Typed, NEW c, NextCandidate(c)
  PROVE  /\ round \in Rounds /\ c \in round.cands /\ cmdLoop
         /\ UNCHANGED <<memory, client, inHand, chan, handler, unfinished>>
         /\ \/ GoOn([round EXCEPT !.cands = @ \ {c}]) /\ UNCHANGED <<tasks, stale>>
            \/ \E target \in Nodes :
                 \/ GoOn(After(c, target)) /\ UNCHANGED <<tasks, stale>> /\ ToMove(c) = {}
                 \/ /\ pc' = "wake" /\ round' = After(c, target)
                    /\ tasks' = Append(tasks, [pages |-> ToMove(c), to |-> target,
                                               long |-> Cardinality(ToMove(c)) > Chunk])
                    /\ stale' = IF \E pg \in ToMove(c) : Scheduled(pg) THEN Nodes ELSE stale
<1>1. pc = "candidates" /\ c \in round.cands
  BY DEF NextCandidate
<1>2. round \in Rounds /\ cmdLoop
  BY <1>1, InTheRound
<1>3. Targets(c) \subseteq Nodes
  BY <1>1, <1>2, TargetsAreNodes DEF Rounds
<1>4. CASE Targets(c) = {}
  BY <1>1, <1>2, <1>4 DEF NextCandidate
<1>5. CASE Targets(c) # {}
  <2>1. PICK target \in Targets(c) : Schedule(c, target)
    BY <1>5 DEF NextCandidate
  <2>2. UNCHANGED <<memory, client, inHand, chan, handler, unfinished>>
    BY DEF NextCandidate
  <2>3. \/ GoOn(After(c, target)) /\ UNCHANGED <<tasks, stale>> /\ ToMove(c) = {}
        \/ /\ pc' = "wake" /\ round' = After(c, target)
           /\ tasks' = Append(tasks, [pages |-> ToMove(c), to |-> target,
                                      long |-> Cardinality(ToMove(c)) > Chunk])
           /\ stale' = IF \E pg \in ToMove(c) : Scheduled(pg) THEN Nodes ELSE stale
    BY <2>1, Zenon DEF Schedule, After
  <2> QED BY <1>1, <1>2, <1>3, <2>1, <2>2, <2>3
<1> QED BY <1>4, <1>5

LEMMA TypedCandidate ==
  ASSUME Typed, NEW c, NextCandidate(c)
  PROVE  Typed'
<1> USE DEF memory, client
<1>1. /\ round \in Rounds /\ c \in round.cands /\ cmdLoop
      /\ UNCHANGED <<memory, client, inHand, chan, handler, unfinished>>
  BY CandidateCases
<1>2. ASSUME NEW r \in Rounds, GoOn(r), UNCHANGED <<tasks, stale>> PROVE Typed'
  <2>1. /\ round' \in Rounds \cup {NoRound}
        /\ pc' \in {"select", "nodesets", "candidates"}
        /\ round' = NoRound <=> pc' = "select"
        /\ pc' = "candidates" => round'.cands # {}
    BY <1>2, TypedGoOn
  <2> QED BY <1>1, <1>2, <2>1, SameHandlers, SameClient DEF Typed, TypeOK
<1>3. [round EXCEPT !.cands = @ \ {c}] \in Rounds
  BY <1>1 DEF Rounds
<1>4. ASSUME NEW target \in Nodes,
             pc' = "wake", round' = After(c, target),
             tasks' = Append(tasks, [pages |-> ToMove(c), to |-> target,
                                     long |-> Cardinality(ToMove(c)) > Chunk]),
             stale' = IF \E pg \in ToMove(c) : Scheduled(pg) THEN Nodes ELSE stale
      PROVE  Typed'
  <2> DEFINE t == [pages |-> ToMove(c), to |-> target, long |-> Cardinality(ToMove(c)) > Chunk]
  <2>1. ToMove(c) \subseteq Pages /\ round' \in Rounds
    BY <1>1, <1>4, TypedAfter
  <2>2. t \in Tasks
    BY <2>1 DEF Tasks
  <2>3. tasks' = Append(tasks, t) /\ tasks \in Seq(Tasks)
    BY <1>4 DEF Typed
  <2> HIDE DEF t
  <2>4. tasks' \in Seq(Tasks)
    BY <2>2, <2>3
  <2>5. \A i \in DOMAIN tasks' : tasks'[i].to \in Nodes /\ tasks'[i].pages \subseteq Pages
    <3> SUFFICES ASSUME NEW i \in DOMAIN tasks'
                 PROVE  tasks'[i].to \in Nodes /\ tasks'[i].pages \subseteq Pages
      OBVIOUS
    <3>1. tasks'[i] \in Tasks
      BY <2>4
    <3> QED BY <3>1 DEF Tasks
  <2>6. stale' \subseteq Nodes /\ round' # NoRound
    BY <1>4, <2>1, ConstantsAssumption DEF Typed, TypeOK
  <2> QED BY <1>1, <1>4, <2>1, <2>4, <2>5, <2>6, SameHandlers, SameClient DEF Typed, TypeOK
<1>5. \A target \in Nodes : After(c, target) \in Rounds
  BY <1>1, TypedAfter
<1> QED BY <1>2, <1>3, <1>4, <1>5, CandidateCases

LEMMA TypedWake ==
  ASSUME Typed, Wake
  PROVE  Typed' /\ (round' # NoRound => round' = round)
<1>1. /\ pc = "wake" /\ Len(chan) < ChanCap /\ chan' = Append(chan, "continue") /\ GoOn(round)
      /\ UNCHANGED <<memory, client, tasks, inHand, handler, unfinished, stale>>
  BY DEF Wake
<1>2. round \in Rounds /\ cmdLoop
  BY <1>1, InTheRound
<1>3. /\ chan' \in Seq({"continue", "quit"})
      /\ Len(chan') <= ChanCap /\ Range(chan') \subseteq {"continue", "quit"}
      /\ Cardinality(Live') = Cardinality(Quits(chan')) + (IF MoverRuns' THEN 1 ELSE 0)
  <2>1. /\ chan' \in Seq({"continue", "quit"})
        /\ Len(chan') <= ChanCap /\ Range(chan') \subseteq {"continue", "quit"}
        /\ Cardinality(Quits(chan')) = Cardinality(Quits(chan)) + 0
    BY <1>1, TypedSend
  <2>2. Live' = Live /\ MoverRuns' = MoverRuns /\ Cardinality(Quits(chan)) \in Nat
    BY <1>1, SameClient, FiniteQuits DEF Live, Typed
  <2>3. Cardinality(Live) = Cardinality(Quits(chan)) + (IF MoverRuns THEN 1 ELSE 0)
    BY DEF Typed, TypeOK
  <2> QED BY <2>1, <2>2, <2>3
<1>4. /\ round' \in Rounds \cup {NoRound}
      /\ pc' \in {"select", "nodesets", "candidates"}
      /\ round' = NoRound <=> pc' = "select"
      /\ round' # NoRound => round' = round
      /\ pc' = "candidates" => round'.cands # {}
  BY <1>1, <1>2, TypedGoOn
<1> QED BY <1>1, <1>2, <1>3, <1>4 DEF Typed, TypeOK, memory, client

\* A handler reads a command: one that quits, and its command, are not there any more.
LEMMA TypedCommand ==
  ASSUME Typed, NEW h \in Handlers, handler[h] # "off", NEW newTasks,
         ReadCommand(h, newTasks), UNCHANGED client
  PROVE  /\ handler' \in [Handlers -> {"off", "waiting", "busy"}]
         /\ \A g \in Handlers : g # h => handler'[g] = handler[g]
         /\ chan' \in Seq({"continue", "quit"})
         /\ Len(chan') <= ChanCap /\ Range(chan') \subseteq {"continue", "quit"}
         /\ Cardinality(Live') = Cardinality(Quits(chan')) + (IF MoverRuns' THEN 1 ELSE 0)
<1>0. MoverRuns' = MoverRuns /\ handler \in [Handlers -> {"off", "waiting", "busy"}]
  BY SameClient DEF Typed, TypeOK
<1>1. CASE chan = <<>>
  BY <1>0, <1>1, SameHandlers DEF ReadCommand, Typed, TypeOK
<1>2. CASE chan # <<>>
  <2>1. /\ chan' = Tail(chan)
        /\ handler' = [handler EXCEPT ![h] = IF Head(chan) = "quit" THEN "off" ELSE "busy"]
    BY <1>2 DEF ReadCommand
  <2>2. chan \in Seq({"continue", "quit"}) /\ Len(chan) \in Nat \ {0}
    BY <1>2 DEF Typed
  <2>3. chan' \in Seq({"continue", "quit"}) /\ Len(chan') = Len(chan) - 1
    BY <1>2, <2>1, <2>2, HeadTailProperties
  <2>4. Len(chan') <= ChanCap /\ Range(chan') \subseteq {"continue", "quit"}
    <3>1. ChanCap \in Nat /\ Len(chan) <= ChanCap
      BY ConstantsAssumption DEF Typed, TypeOK
    <3>2. \A i \in DOMAIN chan' : chan'[i] \in {"continue", "quit"}
      BY <2>3
    <3> QED BY <2>2, <2>3, <3>1, <3>2 DEF Range
  <2>5. Cardinality(Live') = Cardinality(Live) - (IF Head(chan) = "quit" THEN 1 ELSE 0)
    <3>1. Live \subseteq Handlers /\ h \in Live
      BY DEF Live
    <3>2. IsFiniteSet(Live) /\ Cardinality(Live) \in Nat
      BY <3>1, FiniteHandlers
    <3>3. CASE Head(chan) = "quit"
      <4>1. Live' = Live \ {h}
        BY <1>0, <2>1, <3>3 DEF Live
      <4> QED BY <3>1, <3>2, <3>3, <4>1, FS_RemoveElement
    <3>4. CASE Head(chan) # "quit"
      <4>1. Live' = Live
        BY <1>0, <2>1, <3>4 DEF Live
      <4> QED BY <3>2, <3>4, <4>1
    <3> QED BY <3>3, <3>4
  <2>6. Cardinality(Quits(chan)) = Cardinality(Quits(chan')) + (IF Head(chan) = "quit" THEN 1 ELSE 0)
    BY <1>2, <2>1, <2>2, QuitsOfTail
  <2>7. Cardinality(Quits(chan)) \in Nat /\ Cardinality(Quits(chan')) \in Nat
    BY <2>2, <2>3, FiniteQuits
  <2>8. Cardinality(Live) = Cardinality(Quits(chan)) + (IF MoverRuns THEN 1 ELSE 0)
    BY DEF Typed, TypeOK
  <2>9. Cardinality(Live') = Cardinality(Quits(chan')) + (IF MoverRuns' THEN 1 ELSE 0)
    BY <1>0, <2>5, <2>6, <2>7, <2>8
  <2> QED BY <1>0, <2>1, <2>3, <2>4, <2>9
<1> QED BY <1>1, <1>2

\* The task in the hand of a handler, and what is left of it for another time.
Rest(h, S) == [inHand[h] EXCEPT !.pages = @ \ S]

LEMMA HandleCases ==
  ASSUME Typed, NEW h \in Handlers, HandleTask(h)
  PROVE  /\ inHand[h] \in Tasks /\ inHand[h] # NoTask /\ handler[h] = "busy"
         /\ inHand' = [inHand EXCEPT ![h] = NoTask] /\ ReadCommand(h, tasks')
         /\ UNCHANGED <<scenario, alive, other, changes, client, loop, stale>>
         /\ \E moved \in SUBSET inHand[h].pages :
              /\ \A pg \in moved : at[pg] # None
              /\ at' = [pg \in Pages |-> IF pg \in moved THEN inHand[h].to ELSE at[pg]]
         /\ tasks' = tasks \/ \E S : tasks' = Append(tasks, Rest(h, S)) /\ Rest(h, S) \in Tasks
<1> DEFINE task == inHand[h]
           now == {pg \in task.pages : Cardinality({q \in task.pages : q[2] < pg[2]}) < Chunk}
           movable == {pg \in now : at[pg] # None}
<1>1. task \in Tasks /\ task # NoTask /\ inHand' = [inHand EXCEPT ![h] = NoTask] /\ handler[h] = "busy"
  BY DEF HandleTask, Typed
<1>2. now \subseteq task.pages
  OBVIOUS
<1>3. MoveTo(movable, task.to) /\ (tasks' = tasks \/ tasks' = Append(tasks, Rest(h, now)))
  BY DEF HandleTask, Rest
<1> HIDE DEF now
<1>4. movable \subseteq task.pages /\ \A pg \in movable : at[pg] # None
  BY <1>2
<1> HIDE DEF movable
<1>5. \E moved \in SUBSET movable :
        at' = [pg \in Pages |-> IF pg \in moved THEN task.to ELSE at[pg]]
  BY <1>3 DEF MoveTo
<1>6. Rest(h, now) \in Tasks
  BY <1>1 DEF Rest, Tasks
<1>7. ReadCommand(h, tasks') /\ UNCHANGED <<scenario, alive, other, changes, client, loop, stale>>
  BY DEF HandleTask
<1> QED BY <1>1, <1>3, <1>4, <1>5, <1>6, <1>7

\* The mover's list has tasks, one by one.
LEMMA TaskFields ==
  ASSUME NEW list \in Seq(Tasks)
  PROVE  \A i \in DOMAIN list : list[i].to \in Nodes /\ list[i].pages \subseteq Pages
<1> SUFFICES ASSUME NEW i \in DOMAIN list
             PROVE  list[i].to \in Nodes /\ list[i].pages \subseteq Pages
  OBVIOUS
<1>1. list[i] \in Tasks
  OBVIOUS
<1> QED BY <1>1 DEF Tasks

LEMMA TypedPop ==
  ASSUME Typed, NEW h \in Handlers, PopTask(h)
  PROVE  Typed'
<1>1. handler[h] = "busy" /\ handler \in [Handlers -> {"off", "waiting", "busy"}]
  BY DEF PopTask, Typed, TypeOK
<1>2. CASE tasks = <<>>
  <2>1. /\ handler' = [handler EXCEPT ![h] = "waiting"] /\ inHand[h] = NoTask
        /\ UNCHANGED <<tasks, inHand, memory, client, loop, chan, unfinished, stale>>
    BY <1>2 DEF PopTask
  <2>2. Live' = Live /\ Quits(chan') = Quits(chan) /\ MoverRuns' = MoverRuns
    BY <1>1, <2>1, SameClient DEF Live, Quits
  <2>3. Cardinality(Live') = Cardinality(Quits(chan')) + (IF MoverRuns' THEN 1 ELSE 0)
    BY <2>2 DEF Typed, TypeOK
  <2> QED BY <1>1, <2>1, <2>3 DEF Typed, TypeOK, memory, client, loop
<1>3. CASE tasks # <<>>
  <2>1. /\ inHand' = [inHand EXCEPT ![h] = Last(tasks)] /\ tasks' = Front(tasks)
        /\ UNCHANGED <<handler, memory, client, loop, chan, unfinished, stale>>
    BY <1>3 DEF PopTask
  <2>2. Last(tasks) \in Tasks /\ tasks' \in Seq(Tasks)
    BY <1>3, <2>1, FrontOfList DEF Typed
  <2>3. /\ inHand' \in [Handlers -> Tasks \cup {NoTask}]
        /\ \A g \in Handlers : inHand'[g] # NoTask => handler'[g] = "busy"
    BY <1>1, <2>1, <2>2 DEF Typed, TypeOK
  <2> QED BY <2>1, <2>2, <2>3, TaskFields, SameHandlers, SameClient
      DEF Typed, TypeOK, memory, client, loop
<1> QED BY <1>2, <1>3

LEMMA TypedWakeUp ==
  ASSUME Typed, NEW h \in Handlers, WakeUp(h)
  PROVE  Typed'
<1>1. /\ handler[h] = "waiting" /\ ReadCommand(h, tasks)
      /\ UNCHANGED <<memory, client, loop, tasks, inHand, stale>>
  BY DEF WakeUp
<1>2. /\ handler' \in [Handlers -> {"off", "waiting", "busy"}]
      /\ \A g \in Handlers : g # h => handler'[g] = handler[g]
      /\ chan' \in Seq({"continue", "quit"})
      /\ Len(chan') <= ChanCap /\ Range(chan') \subseteq {"continue", "quit"}
      /\ Cardinality(Live') = Cardinality(Quits(chan')) + (IF MoverRuns' THEN 1 ELSE 0)
  BY <1>1, TypedCommand
<1>3. \A g \in Handlers : inHand'[g] # NoTask => handler'[g] = "busy"
  BY <1>1, <1>2 DEF Typed, TypeOK
<1> QED BY <1>1, <1>2, <1>3 DEF Typed, TypeOK, memory, client, loop

LEMMA TypedHandle ==
  ASSUME Typed, NEW h \in Handlers, HandleTask(h)
  PROVE  Typed'
<1>1. /\ inHand[h] \in Tasks /\ handler[h] = "busy"
      /\ inHand' = [inHand EXCEPT ![h] = NoTask] /\ ReadCommand(h, tasks')
      /\ UNCHANGED <<scenario, alive, other, changes, client, loop, stale>>
      /\ tasks' = tasks \/ \E S : tasks' = Append(tasks, Rest(h, S)) /\ Rest(h, S) \in Tasks
  BY HandleCases
<1>2. PICK moved \in SUBSET inHand[h].pages :
            /\ \A pg \in moved : at[pg] # None
            /\ at' = [pg \in Pages |-> IF pg \in moved THEN inHand[h].to ELSE at[pg]]
  BY HandleCases
<1>3. /\ at' \in [Pages -> Nodes \cup {None}]
      /\ \A pg \in Pages : at'[pg] # None => Owner[pg[1]] \in alive'
  BY <1>1, <1>2 DEF Typed, TypeOK, Tasks
<1>4. tasks' \in Seq(Tasks)
  <2>1. CASE tasks' = tasks
    BY <2>1 DEF Typed
  <2>2. ASSUME NEW S, tasks' = Append(tasks, Rest(h, S)), Rest(h, S) \in Tasks
        PROVE  tasks' \in Seq(Tasks)
    BY <2>2, AppendedList DEF Typed
  <2> QED BY <1>1, <2>1, <2>2
<1>5. /\ handler' \in [Handlers -> {"off", "waiting", "busy"}]
      /\ \A g \in Handlers : g # h => handler'[g] = handler[g]
      /\ chan' \in Seq({"continue", "quit"})
      /\ Len(chan') <= ChanCap /\ Range(chan') \subseteq {"continue", "quit"}
      /\ Cardinality(Live') = Cardinality(Quits(chan')) + (IF MoverRuns' THEN 1 ELSE 0)
  BY <1>1, TypedCommand
<1>6. /\ inHand' \in [Handlers -> Tasks \cup {NoTask}]
      /\ \A g \in Handlers : inHand'[g] # NoTask => handler'[g] = "busy"
  BY <1>1, <1>5 DEF Typed, TypeOK
<1> QED BY <1>1, <1>3, <1>4, <1>5, <1>6, TaskFields DEF Typed, TypeOK, client, loop

LEMMA TypedNext == Typed /\ [Next]_vars => Typed'
<1> SUFFICES ASSUME Typed, [Next]_vars PROVE Typed'
  OBVIOUS
<1>1. CASE Environment
  BY <1>1, TypedMemory
<1>2. CASE Start \/ Stop \/ StopStep
  BY <1>2, TypedClient
<1>3. CASE BeginRound
  BY <1>3, TypedBegin
<1>4. CASE LoopStep
  BY <1>4, TypedNodeset, TypedCandidate, TypedWake DEF LoopStep, InRound
<1>5. CASE MoverStep
  BY <1>5, TypedPop, TypedWakeUp, TypedHandle DEF MoverStep, HandlerStep
<1>6. CASE UNCHANGED vars
  BY <1>6, SameHandlers, SameClient DEF Typed, TypeOK, vars, memory, client, loop, mover
<1> QED BY <1>1, <1>2, <1>3, <1>4, <1>5, <1>6 DEF Next

\* Every reachable state of the avoid-oom policy is well typed: in particular pages are
\* those of processes that run, and a handler of the mover runs while the policy does.
THEOREM TypeCorrect == Spec => []TypeOK
<1>1. Typed => TypeOK
  BY DEF Typed
<1> QED BY <1>1, TypedInit, TypedNext, PTL DEF Spec

-----------------------------------------------------------------------------
(* Nodes are relieved no further *)

AllTasks ==
  {t \in Tasks : (\E h \in Handlers : t = inHand[h]) \/ \E i \in DOMAIN tasks : t = tasks[i]}

\* The pages on a node that are on their way to another, what the round still means to
\* move from it, and both.
Pending(n) == {pg \in PagesOn(n) : \E t \in AllTasks : t.to # n /\ pg \in t.pages}
Left(n) == IF round # NoRound /\ round.toMove[n] > 0 THEN round.toMove[n] ELSE 0
Need(n) == Cardinality(Pending(n)) + Left(n)

\* No page is in two tasks, unless the history says so.
Apart ==
  stale # Nodes =>
    /\ \A i, j \in DOMAIN tasks : i # j => tasks[i].pages \cap tasks[j].pages = {}
    /\ \A h \in Handlers, i \in DOMAIN tasks :
         inHand[h] # NoTask => tasks[i].pages \cap inHand[h].pages = {}
    /\ \A g, h \in Handlers :
         g # h /\ inHand[g] # NoTask /\ inHand[h] # NoTask => inHand[g].pages \cap inHand[h].pages = {}

\* What is to leave a node makes no more available there than the watermark, unless the
\* history says that the round may be wrong about the node.
Enough == \A n \in Nodes \ stale : Need(n) > 0 => Avail(n) + Need(n) <= StopFree

LEMMA NeedNat ==
  Typed => \A n \in Nodes :
             /\ Pending(n) \subseteq PagesOn(n) /\ Pending(n) \subseteq Pages
             /\ Cardinality(Pending(n)) \in Nat /\ Left(n) \in Nat /\ Need(n) \in Nat
             /\ Avail(n) \in Int
<1> SUFFICES ASSUME Typed, NEW n \in Nodes
             PROVE  /\ Pending(n) \subseteq PagesOn(n) /\ Pending(n) \subseteq Pages
                    /\ Cardinality(Pending(n)) \in Nat /\ Left(n) \in Nat /\ Need(n) \in Nat
                    /\ Avail(n) \in Int
  OBVIOUS
<1>1. Pending(n) \subseteq PagesOn(n) /\ PagesOn(n) \subseteq Pages
  BY DEF Pending, PagesOn
<1>2. Cardinality(Pending(n)) \in Nat
  BY <1>1, SomePages
<1>3. Left(n) \in Nat
  BY DEF Left, Typed, Rounds
<1> QED BY <1>1, <1>2, <1>3, CardinalityNat DEF Need

LEMMA NextNeedNat ==
  Typed' => (\A n \in Nodes :
               /\ Pending(n) \subseteq PagesOn(n) /\ Pending(n) \subseteq Pages
               /\ Cardinality(Pending(n)) \in Nat /\ Left(n) \in Nat /\ Need(n) \in Nat
               /\ Avail(n) \in Int)'
  BY NeedNat, PTL

\* Enough is kept if no node that matters comes to need more, or to have more when what
\* it needs has been done.
LEMMA EnoughKept ==
  ASSUME Typed, Typed', Enough, stale \subseteq stale',
         \A n \in Nodes \ stale' : Need(n)' <= Need(n) /\ Avail(n)' + Need(n)' <= Avail(n) + Need(n)
  PROVE  Enough'
<1> SUFFICES ASSUME NEW n \in Nodes \ stale', Need(n)' > 0
             PROVE  Avail(n)' + Need(n)' <= StopFree
  BY DEF Enough
<1>1. Need(n) \in Nat /\ Avail(n) \in Int
  BY NeedNat
<1>2. Need(n)' \in Nat /\ Avail(n)' \in Int
  BY NextNeedNat
<1>3. Need(n)' <= Need(n) /\ Avail(n)' + Need(n)' <= Avail(n) + Need(n)
  OBVIOUS
<1>4. Need(n) > 0
  BY <1>1, <1>2, <1>3
<1>5. Avail(n) + Need(n) <= StopFree
  BY <1>4 DEF Enough
<1> QED BY <1>1, <1>2, <1>3, <1>5, ConstantsAssumption

\* Where no page has come or gone, and the tasks and the round are the same, so is the need.
LEMMA SameNeed ==
  ASSUME NEW n \in Nodes, PagesOn(n)' = PagesOn(n),
         tasks' = tasks, inHand' = inHand, round' = round
  PROVE  Need(n)' = Need(n)
<1>1. AllTasks' = AllTasks
  BY DEF AllTasks
<1>2. Pending(n)' = Pending(n)
  BY <1>1 DEF Pending
<1> QED BY <1>2 DEF Need, Left

LEMMA ApartKept ==
  ASSUME Typed, Typed', Apart, stale \subseteq stale', tasks' = tasks, inHand' = inHand
  PROVE  Apart'
  BY DEF Apart, Typed, TypeOK

LEMMA EnoughInit == Init => Apart /\ Enough
<1> SUFFICES ASSUME Init PROVE Apart /\ Enough
  OBVIOUS
<1>1. Apart
  BY DEF Init, Apart
<1>2. ASSUME NEW n \in Nodes PROVE Need(n) = 0
  <2>1. AllTasks = {}
    BY ConstantsAssumption DEF Init, AllTasks
  <2>2. Pending(n) = {} /\ Left(n) = 0
    BY <2>1 DEF Pending, Left, Init
  <2> QED BY <2>2, FS_EmptySet DEF Need
<1> QED BY <1>1, <1>2 DEF Enough

LEMMA EnoughMemory ==
  ASSUME Typed, Typed', Apart, Enough, Environment
  PROVE  Apart' /\ Enough'
<1>1. ASSUME NEW m \in Nodes, Allocate(m) PROVE Apart' /\ Enough'
  <2>1. UNCHANGED <<at, tasks, inHand, round, stale>> /\ other' = [other EXCEPT ![m] = @ + 1]
    BY <1>1 DEF Allocate, client, loop, mover
  <2>2. ASSUME NEW n \in Nodes
        PROVE  Need(n)' <= Need(n) /\ Avail(n)' + Need(n)' <= Avail(n) + Need(n)
    <3>1. PagesOn(n)' = PagesOn(n)
      BY <2>1 DEF PagesOn
    <3>2. Need(n)' = Need(n) /\ Need(n) \in Nat
      BY <2>1, <3>1, SameNeed, NeedNat
    <3>3. Cardinality(PagesOn(n)) \in Nat /\ other[n] \in Nat /\ Total \in Nat
      <4>1. Total \in Nat
        BY ConstantsAssumption
      <4>2. other[n] \in 0 .. Total
        BY DEF Typed, TypeOK
      <4> QED BY <4>1, <4>2, CardinalityNat
    <3>4. other'[n] \in {other[n], other[n] + 1}
      BY <2>1 DEF Typed, TypeOK
    <3> QED BY <3>1, <3>2, <3>3, <3>4 DEF Avail
  <2> QED BY <2>1, <2>2, EnoughKept, ApartKept
<1>2. ASSUME UNCHANGED <<tasks, inHand, round>>, stale \subseteq stale',
             \A n \in Nodes \ stale' : PagesOn(n)' = PagesOn(n) /\ other'[n] = other[n]
      PROVE  Apart' /\ Enough'
  <2>1. ASSUME NEW n \in Nodes \ stale'
        PROVE  Need(n)' <= Need(n) /\ Avail(n)' + Need(n)' <= Avail(n) + Need(n)
    <3>1. Need(n)' = Need(n) /\ Need(n) \in Nat /\ Avail(n) \in Int
      BY <1>2, SameNeed, NeedNat
    <3>2. Avail(n)' = Avail(n)
      BY <1>2 DEF Avail
    <3> QED BY <3>1, <3>2
  <2> QED BY <1>2, <2>1, EnoughKept, ApartKept
<1>3. ASSUME NEW m \in Nodes, Release(m) PROVE Apart' /\ Enough'
  <2>1. /\ UNCHANGED <<at, tasks, inHand, round>> /\ stale' = stale \cup {m}
        /\ other' = [other EXCEPT ![m] = @ - 1]
    BY <1>3 DEF Release, client, loop, mover
  <2> QED BY <2>1, <1>2 DEF PagesOn, Typed, TypeOK
<1>4. ASSUME NEW pg \in Pages, Unmap(pg) PROVE Apart' /\ Enough'
  <2>1. /\ UNCHANGED <<other, tasks, inHand, round>> /\ stale' = stale \cup {at[pg]}
        /\ at' = [at EXCEPT ![pg] = None]
    BY <1>4 DEF Unmap, client, loop, mover
  <2>2. \A n \in Nodes \ stale' : PagesOn(n)' = PagesOn(n)
    BY <2>1, ConstantsAssumption DEF PagesOn, Typed, TypeOK
  <2> QED BY <2>1, <2>2, <1>2
<1>5. ASSUME NEW p \in Pids, Exit(p) PROVE Apart' /\ Enough'
  <2> DEFINE its == {pg \in Pages : Owner[pg[1]] = p}
  <2>1. /\ UNCHANGED <<other, tasks, inHand, round>>
        /\ at' = [pg \in Pages |-> IF pg \in its THEN None ELSE at[pg]]
        /\ stale' = stale \cup ({at[pg] : pg \in its} \ {None})
    BY <1>5 DEF Exit, client, loop, mover
  <2> HIDE DEF its
  <2>2. \A n \in Nodes \ stale' : PagesOn(n)' = PagesOn(n)
    BY <2>1, ConstantsAssumption DEF PagesOn, Typed, TypeOK
  <2> QED BY <2>1, <2>2, <1>2
<1> QED BY <1>1, <1>3, <1>4, <1>5 DEF Environment

\* What no step of the client, and none of the loop that schedules nothing, changes.
LEMMA EnoughGoesOn ==
  ASSUME Typed, Typed', Apart, Enough, UNCHANGED <<at, other, tasks, inHand, stale>>,
         \/ round' \in {round, NoRound}
         \/ round \in Rounds /\ \A n \in Nodes : round'.toMove[n] = round.toMove[n]
  PROVE  Apart' /\ Enough'
<1>1. ASSUME NEW n \in Nodes
      PROVE  Need(n)' <= Need(n) /\ Avail(n)' + Need(n)' <= Avail(n) + Need(n)
  <2>1. /\ Cardinality(Pending(n)) \in Nat /\ Left(n) \in Nat /\ Left(n)' \in Nat
        /\ Need(n) \in Nat /\ Need(n)' \in Nat /\ Avail(n) \in Int
    BY NeedNat, NextNeedNat
  <2>2. PagesOn(n)' = PagesOn(n) /\ Avail(n)' = Avail(n)
    BY DEF PagesOn, Avail
  <2>3. Pending(n)' = Pending(n)
    BY <2>2 DEF Pending, AllTasks
  <2>4. Left(n)' <= Left(n)
    <3>1. CASE round' = NoRound
      BY <2>1, <3>1 DEF Left
    <3>2. CASE round' = round
      BY <2>1, <3>2 DEF Left
    <3>3. CASE round \in Rounds /\ \A m \in Nodes : round'.toMove[m] = round.toMove[m]
      <4>1. round # NoRound /\ round'.toMove[n] = round.toMove[n]
        BY <3>3, ConstantsAssumption
      <4> QED BY <2>1, <4>1 DEF Left
    <3> QED BY <3>1, <3>2, <3>3
  <2> QED BY <2>1, <2>2, <2>3, <2>4 DEF Need
<1> QED BY <1>1, EnoughKept, ApartKept

LEMMA EnoughBegin ==
  ASSUME Typed, Typed', BeginRound
  PROVE  Apart' /\ Enough'
<1>1. CASE \E h \in Handlers : inHand[h] # NoTask
  BY <1>1 DEF BeginRound, Apart, Enough
<1>2. CASE \A h \in Handlers : inHand[h] = NoTask
  <2>1. /\ tasks' = <<>> /\ UNCHANGED <<at, other>> /\ \A h \in Handlers : inHand'[h] = NoTask
        /\ round'.toMove = BytesToMove(AvailNow)
    BY <1>2 DEF BeginRound, memory, mover
  <2>2. Apart'
    BY <2>1 DEF Apart
  <2>3. ASSUME NEW n \in Nodes, Need(n)' > 0 PROVE Avail(n)' + Need(n)' <= StopFree
    <3>1. AllTasks' = {}
      BY <2>1, ConstantsAssumption DEF AllTasks
    <3>2. Pending(n)' = {}
      BY <3>1 DEF Pending
    <3>3. Need(n)' = Left(n)' /\ Left(n)' \in Nat /\ Avail(n) \in Int
      BY <3>2, FS_EmptySet, NeedNat, NextNeedNat DEF Need
    <3>4. Avail(n)' = Avail(n)
      BY <2>1 DEF Avail, PagesOn
    <3>5. round'.toMove[n] \in {StopFree - Avail(n), 0}
      BY <2>1 DEF BytesToMove, AvailNow
    <3>6. Left(n)' = StopFree - Avail(n)
      BY <2>3, <3>3, <3>5 DEF Left
    <3> QED BY <3>3, <3>4, <3>6, ConstantsAssumption
  <2> QED BY <2>2, <2>3 DEF Enough
<1> QED BY <1>1, <1>2

\* Of every node no more pages are taken than are still to be moved from it.
LEMMA NoMoreThanLeft ==
  ASSUME Typed, round \in Rounds, NEW c \in round.cands, NEW n \in Nodes
  PROVE  \/ ToMove(c) \cap PagesOn(n) = {}
         \/ Cardinality(ToMove(c) \cap PagesOn(n)) <= round.toMove[n]
<1> DEFINE S == ToMove(c) \cap PagesOn(n)
           s == c.segment
<1>1. s \in Segments /\ round.toMove[n] \in Int
  BY DEF Rounds, Candidate
<1>2. S \subseteq PagesOf(s)
  BY DEF ToMove
<1>3. ASSUME NEW pg \in S PROVE Cardinality({q \in S : q[2] < pg[2]}) < round.toMove[n]
  <2> DEFINE few == {q \in S : q[2] < pg[2]}
             all == {q \in PagesOf(s) : q[2] < pg[2] /\ at[q] = at[pg]}
  <2>1. at[pg] = n /\ \A q \in S : at[q] = n
    BY DEF PagesOn
  <2>2. Cardinality(all) < round.toMove[n]
    BY <2>1 DEF ToMove
  <2>3. few \subseteq all
    BY <1>2, <2>1
  <2>4. all \subseteq Pages
    BY <1>1 DEF Pages
  <2> HIDE DEF few, all
  <2>5. IsFiniteSet(all) /\ Cardinality(all) \in Nat
    BY <2>4, SomePages
  <2>6. Cardinality(few) \in Nat /\ Cardinality(few) <= Cardinality(all)
    BY <2>3, <2>5, FS_Subset, FS_CardinalityType
  <2>7. Cardinality(few) < round.toMove[n]
    BY <1>1, <2>2, <2>5, <2>6
  <2> QED BY <2>7 DEF few
<1> HIDE DEF S
<1>4. S = {} \/ Cardinality(S) <= round.toMove[n]
  BY <1>1, <1>2, <1>3, FewBeforeEach
<1> QED BY <1>4 DEF S

\* A task of pages none of which is scheduled: what the round still means to move from a
\* node gets less by the pages of it that are now on their way.
LEMMA EnoughSchedule ==
  ASSUME Typed, Typed', Apart, Enough, round \in Rounds, NEW c \in round.cands, NEW target \in Nodes,
         UNCHANGED <<memory, inHand>>, round' = After(c, target), stale' \in {stale, Nodes},
         tasks' = Append(tasks, [pages |-> ToMove(c), to |-> target,
                                 long |-> Cardinality(ToMove(c)) > Chunk]),
         stale' # Nodes => \A pg \in ToMove(c) : ~Scheduled(pg)
  PROVE  Apart' /\ Enough'
<1> DEFINE task == [pages |-> ToMove(c), to |-> target, long |-> Cardinality(ToMove(c)) > Chunk]
<1>1. CASE stale' = Nodes
  BY <1>1 DEF Apart, Enough
<1>2. CASE stale' # Nodes
  <2>1. stale' = stale /\ stale # Nodes /\ \A pg \in ToMove(c) : ~Scheduled(pg)
    BY <1>2
  <2>2. task \in Tasks /\ task.pages = ToMove(c) /\ tasks \in Seq(Tasks) /\ tasks' = Append(tasks, task)
    <3>1. ToMove(c) \subseteq Pages
      BY TypedAfter
    <3> QED BY <3>1 DEF Typed, Tasks
  <2> HIDE DEF task
  <2>3. /\ DOMAIN tasks' = DOMAIN tasks \cup {Len(tasks) + 1}
        /\ \A i \in DOMAIN tasks : tasks'[i] = tasks[i]
        /\ tasks'[Len(tasks) + 1] = task
    BY <2>2, AppendedList
  <2>4. /\ \A i \in DOMAIN tasks : tasks[i].pages \cap task.pages = {}
        /\ \A h \in Handlers : inHand[h] # NoTask => task.pages \cap inHand[h].pages = {}
    BY <2>1, <2>2 DEF Scheduled
  <2>5. Apart'
    BY <2>1, <2>3, <2>4 DEF Apart
  <2>6. AllTasks' \subseteq AllTasks \cup {task}
    BY <2>3 DEF AllTasks
  <2>7. ASSUME NEW n \in Nodes
        PROVE  Need(n)' <= Need(n) /\ Avail(n)' + Need(n)' <= Avail(n) + Need(n)
    <3> DEFINE M == ToMove(c) \cap PagesOn(n)
    <3>1. /\ Cardinality(Pending(n)) \in Nat /\ Left(n) \in Nat /\ Left(n)' \in Nat
          /\ Need(n) \in Nat /\ Need(n)' \in Nat /\ Avail(n) \in Int
          /\ Pending(n) \subseteq Pages /\ Cardinality(Pending(n)') \in Nat
      BY NeedNat, NextNeedNat
    <3>2. PagesOn(n)' = PagesOn(n) /\ Avail(n)' = Avail(n)
      BY DEF PagesOn, Avail, memory
    <3>3. Pending(n)' \subseteq Pending(n) \cup M
      BY <2>2, <2>6, <3>2 DEF Pending
    <3>4. M \subseteq Pages
      BY DEF PagesOn
    <3>5. round # NoRound /\ round' # NoRound /\ round.toMove[n] \in Int
      <4>1. round' \in Rounds
        BY TypedAfter
      <4>2. round.toMove[n] \in Int
        BY DEF Rounds
      <4> QED BY <4>1, <4>2, ConstantsAssumption
    <3>6. round'.toMove[n] = round.toMove[n] - Cardinality(M)
      BY TypedAfter
    <3>7. M = {} \/ Cardinality(M) <= round.toMove[n]
      BY NoMoreThanLeft
    <3> HIDE DEF M
    <3>8. /\ IsFiniteSet(M) /\ Cardinality(M) \in Nat /\ (M = {} <=> Cardinality(M) = 0)
          /\ IsFiniteSet(Pending(n))
      BY <3>1, <3>4, SomePages, FS_EmptySet
    <3>9. Cardinality(Pending(n)') <= Cardinality(Pending(n)) + Cardinality(M)
      <4>1. /\ IsFiniteSet(Pending(n) \cup M)
            /\ Cardinality(Pending(n) \cup M) <= Cardinality(Pending(n)) + Cardinality(M)
        <5>1. /\ IsFiniteSet(Pending(n) \cup M) /\ Cardinality(Pending(n) \cap M) \in Nat
              /\ Cardinality(Pending(n) \cup M) =
                   Cardinality(Pending(n)) + Cardinality(M) - Cardinality(Pending(n) \cap M)
          <6>1. Pending(n) \cap M \subseteq Pages
            BY <3>4
          <6> QED BY <6>1, <3>8, SomePages, FS_Union
        <5> QED BY <5>1, <3>1, <3>8
      <4>2. Cardinality(Pending(n)') <= Cardinality(Pending(n) \cup M)
        BY <3>3, <4>1, FS_Subset
      <4>3. Cardinality(Pending(n) \cup M) \in Nat
        BY <4>1, FS_CardinalityType
      <4> QED BY <3>1, <3>8, <4>1, <4>2, <4>3
    <3>10. Left(n)' + Cardinality(M) = Left(n)
      <4>1. CASE M = {}
        BY <3>5, <3>6, <3>8, <4>1 DEF Left
      <4>2. CASE M # {}
        BY <3>5, <3>6, <3>7, <3>8, <4>2 DEF Left
      <4> QED BY <4>1, <4>2
    <3>11. Need(n) = Cardinality(Pending(n)) + Left(n)
      BY DEF Need
    <3>12. Need(n)' = Cardinality(Pending(n)') + Left(n)'
      BY DEF Need
    <3> QED BY <3>1, <3>2, <3>8, <3>9, <3>10, <3>11, <3>12
  <2> QED BY <2>1, <2>5, <2>7, EnoughKept
<1> QED BY <1>1, <1>2

LEMMA EnoughCandidate ==
  ASSUME Typed, Typed', Apart, Enough, NEW c, NextCandidate(c)
  PROVE  Apart' /\ Enough'
<1>1. /\ round \in Rounds /\ c \in round.cands
      /\ UNCHANGED <<memory, client, inHand, chan, handler, unfinished>>
  BY CandidateCases
<1>2. ASSUME NEW r \in Rounds, GoOn(r), UNCHANGED <<tasks, stale>>,
             \A n \in Nodes : r.toMove[n] = round.toMove[n]
      PROVE  Apart' /\ Enough'
  <2>1. round' \in {r, NoRound}
    BY <1>2, TypedGoOn
  <2> QED BY <1>1, <1>2, <2>1, EnoughGoesOn DEF memory
<1>3. [round EXCEPT !.cands = @ \ {c}] \in Rounds
  BY <1>1 DEF Rounds
<1>4. \A n \in Nodes : [round EXCEPT !.cands = @ \ {c}].toMove[n] = round.toMove[n]
  BY <1>1 DEF Rounds
<1>5. ASSUME NEW target \in Nodes, ToMove(c) = {}
      PROVE  \A n \in Nodes : After(c, target).toMove[n] = round.toMove[n]
  <2> SUFFICES ASSUME NEW n \in Nodes PROVE After(c, target).toMove[n] = round.toMove[n]
    OBVIOUS
  <2>1. After(c, target).toMove[n] = round.toMove[n] - Cardinality(ToMove(c) \cap PagesOn(n))
    BY <1>1, TypedAfter
  <2>2. ToMove(c) \cap PagesOn(n) = {} /\ Cardinality({}) = 0 /\ round.toMove[n] \in Int
    BY <1>1, <1>5, FS_EmptySet DEF Rounds
  <2> QED BY <2>1, <2>2
<1>6. \A target \in Nodes : After(c, target) \in Rounds
  BY <1>1, TypedAfter
<1>7. ASSUME NEW target \in Nodes,
             round' = After(c, target),
             tasks' = Append(tasks, [pages |-> ToMove(c), to |-> target,
                                     long |-> Cardinality(ToMove(c)) > Chunk]),
             stale' = IF \E pg \in ToMove(c) : Scheduled(pg) THEN Nodes ELSE stale
      PROVE  Apart' /\ Enough'
  <2>1. stale' \in {stale, Nodes} /\ (stale' # Nodes => \A pg \in ToMove(c) : ~Scheduled(pg))
    BY <1>7
  <2> QED BY <1>1, <1>7, <2>1, EnoughSchedule
<1> QED BY <1>2, <1>3, <1>4, <1>5, <1>6, <1>7, CandidateCases

\* The task that a handler takes is one of the list.
LEMMA EnoughPop ==
  ASSUME Typed, Typed', Apart, Enough, NEW h \in Handlers, PopTask(h)
  PROVE  Apart' /\ Enough'
<1>1. CASE tasks = <<>>
  BY <1>1, EnoughGoesOn DEF PopTask, memory, loop
<1>2. CASE tasks # <<>>
  <2>1. /\ inHand[h] = NoTask /\ inHand' = [inHand EXCEPT ![h] = Last(tasks)] /\ tasks' = Front(tasks)
        /\ inHand \in [Handlers -> Tasks \cup {NoTask}]
        /\ UNCHANGED <<at, other, round, stale>>
    BY <1>2 DEF PopTask, memory, loop, Typed
  <2>2. /\ Last(tasks) \in Tasks /\ Last(tasks) = tasks[Len(tasks)]
        /\ DOMAIN tasks = DOMAIN tasks' \cup {Len(tasks)} /\ Len(tasks) \notin DOMAIN tasks'
        /\ \A i \in DOMAIN tasks' : tasks'[i] = tasks[i]
    <3>1. tasks \in Seq(Tasks) /\ tasks' = Front(tasks)
      BY <2>1 DEF Typed
    <3>2. /\ Last(tasks) \in Tasks /\ Last(tasks) = tasks[Len(tasks)]
          /\ DOMAIN tasks = DOMAIN Front(tasks) \cup {Len(tasks)} /\ Len(tasks) \notin DOMAIN Front(tasks)
          /\ \A i \in DOMAIN Front(tasks) : Front(tasks)[i] = tasks[i]
      BY <1>2, <3>1, FrontOfList
    <3> QED BY <3>1, <3>2, Zenon
  <2>3. inHand'[h] = tasks[Len(tasks)] /\ \A g \in Handlers : g # h => inHand'[g] = inHand[g]
    BY <2>1, <2>2
  <2>4. AllTasks' = AllTasks
    <3>1. ASSUME NEW t \in Tasks
          PROVE  ((\E g \in Handlers : t = inHand'[g]) \/ \E i \in DOMAIN tasks' : t = tasks'[i])
                   <=> ((\E g \in Handlers : t = inHand[g]) \/ \E i \in DOMAIN tasks : t = tasks[i])
      <4>1. t # inHand[h]
        BY <2>1, ConstantsAssumption
      <4>2. (\E g \in Handlers : t = inHand'[g]) <=> t = tasks[Len(tasks)] \/ \E g \in Handlers : t = inHand[g]
        BY <2>3, <4>1
      <4>3. (\E i \in DOMAIN tasks : t = tasks[i]) <=> t = tasks[Len(tasks)] \/ \E i \in DOMAIN tasks' : t = tasks'[i]
        BY <2>2, Zenon
      <4> QED BY <4>2, <4>3
    <3> QED BY <3>1 DEF AllTasks
  <2>6. Apart'
    <3> SUFFICES ASSUME stale # Nodes PROVE Apart'
      BY <2>1 DEF Apart
    <3>1. /\ \A i, j \in DOMAIN tasks : i # j => tasks[i].pages \cap tasks[j].pages = {}
          /\ \A g \in Handlers, i \in DOMAIN tasks :
               inHand[g] # NoTask => tasks[i].pages \cap inHand[g].pages = {}
          /\ \A f, g \in Handlers :
               f # g /\ inHand[f] # NoTask /\ inHand[g] # NoTask => inHand[f].pages \cap inHand[g].pages = {}
      BY DEF Apart
    <3>2. DOMAIN tasks' \subseteq DOMAIN tasks /\ Len(tasks) \in DOMAIN tasks
      BY <2>2
    <3>3. \A i \in DOMAIN tasks' : tasks[i].pages \cap tasks[Len(tasks)].pages = {}
      BY <2>2, <3>1, <3>2, Zenon
    <3>4. \A i, j \in DOMAIN tasks' : i # j => tasks'[i].pages \cap tasks'[j].pages = {}
      BY <2>2, <3>1, <3>2, Zenon
    <3>5. ASSUME NEW g \in Handlers, inHand'[g] # NoTask, NEW i \in DOMAIN tasks'
          PROVE  tasks'[i].pages \cap inHand'[g].pages = {}
      <4>1. CASE g = h
        BY <2>2, <2>3, <3>3, <4>1
      <4>2. CASE g # h
        BY <2>2, <2>3, <3>1, <3>2, <3>5, <4>2, Zenon
      <4> QED BY <4>1, <4>2
    <3>6. ASSUME NEW f \in Handlers, NEW g \in Handlers, f # g, inHand'[f] # NoTask, inHand'[g] # NoTask
          PROVE  inHand'[f].pages \cap inHand'[g].pages = {}
      <4>1. CASE f # h /\ g # h
        BY <2>3, <3>1, <3>6, <4>1
      <4>2. CASE f = h
        BY <2>3, <3>1, <3>2, <3>6, <4>2
      <4>3. CASE g = h
        BY <2>3, <3>1, <3>2, <3>6, <4>3
      <4> QED BY <4>1, <4>2, <4>3
    <3> QED BY <3>4, <3>5, <3>6 DEF Apart
  <2>5. ASSUME NEW n \in Nodes
        PROVE  Need(n)' <= Need(n) /\ Avail(n)' + Need(n)' <= Avail(n) + Need(n)
    <3>1. PagesOn(n)' = PagesOn(n) /\ Avail(n)' = Avail(n)
      BY <2>1 DEF PagesOn, Avail
    <3>2. Need(n)' = Need(n)
      BY <2>1, <2>4, <3>1 DEF Need, Left, Pending
    <3> QED BY <3>1, <3>2, NeedNat
  <2> QED BY <2>1, <2>5, <2>6, EnoughKept
<1> QED BY <1>1, <1>2

\* The pages that a handler moves were on their way.
LEMMA EnoughHandle ==
  ASSUME Typed, Typed', Apart, Enough, NEW h \in Handlers, HandleTask(h)
  PROVE  /\ Apart' /\ Enough'
         /\ \A n \in Nodes \ stale :
              /\ Avail(n)' + Need(n)' <= Avail(n) + Need(n)
              /\ \A pg \in Pages : at[pg] = n /\ at'[pg] # n => pg \in Pending(n)
<1>1. /\ inHand[h] \in Tasks /\ inHand' = [inHand EXCEPT ![h] = NoTask]
      /\ UNCHANGED <<other, client, loop, stale>>
      /\ tasks' = tasks \/ \E S : tasks' = Append(tasks, Rest(h, S)) /\ Rest(h, S) \in Tasks
  BY HandleCases
<1>2. PICK moved \in SUBSET inHand[h].pages :
        /\ \A pg \in moved : at[pg] # None
        /\ at' = [pg \in Pages |-> IF pg \in moved THEN inHand[h].to ELSE at[pg]]
  BY HandleCases
<1>3. inHand[h] # NoTask /\ inHand[h] \in AllTasks /\ inHand[h].to \in Nodes /\ moved \subseteq Pages
  BY <1>1, ConstantsAssumption DEF AllTasks, Tasks
\* What is left of the task goes where the task goes.
<1>4. ASSUME NEW S, tasks' = Append(tasks, Rest(h, S)), Rest(h, S) \in Tasks
      PROVE  /\ Rest(h, S).to = inHand[h].to /\ Rest(h, S).pages \subseteq inHand[h].pages
             /\ DOMAIN tasks' = DOMAIN tasks \cup {Len(tasks) + 1}
             /\ \A i \in DOMAIN tasks : tasks'[i] = tasks[i]
             /\ tasks'[Len(tasks) + 1] = Rest(h, S)
  <2>1. tasks \in Seq(Tasks)
    BY DEF Typed
  <2>2. Rest(h, S).to = inHand[h].to /\ Rest(h, S).pages \subseteq inHand[h].pages
    BY <1>1 DEF Rest, Tasks
  <2> QED BY <1>4, <2>1, <2>2, AppendedList
<1>5. \A g \in Handlers : inHand'[g] # NoTask => g # h /\ inHand'[g] = inHand[g]
  BY <1>1 DEF Typed
<1>6. Apart'
  <2> SUFFICES ASSUME stale # Nodes PROVE Apart'
    BY <1>1 DEF Apart
  <2>1. /\ \A i, j \in DOMAIN tasks : i # j => tasks[i].pages \cap tasks[j].pages = {}
        /\ \A g \in Handlers, i \in DOMAIN tasks :
             inHand[g] # NoTask => tasks[i].pages \cap inHand[g].pages = {}
        /\ \A f, g \in Handlers :
             f # g /\ inHand[f] # NoTask /\ inHand[g] # NoTask => inHand[f].pages \cap inHand[g].pages = {}
    BY DEF Apart
  <2>2. \A f, g \in Handlers :
          f # g /\ inHand'[f] # NoTask /\ inHand'[g] # NoTask => inHand'[f].pages \cap inHand'[g].pages = {}
    BY <1>5, <2>1
  <2>3. CASE tasks' = tasks
    BY <1>5, <2>1, <2>2, <2>3 DEF Apart
  <2>4. ASSUME NEW S, tasks' = Append(tasks, Rest(h, S)), Rest(h, S) \in Tasks PROVE Apart'
    <3> DEFINE rest == Rest(h, S)
    <3>1. /\ rest.pages \subseteq inHand[h].pages
          /\ DOMAIN tasks' = DOMAIN tasks \cup {Len(tasks) + 1}
          /\ \A i \in DOMAIN tasks : tasks'[i] = tasks[i]
          /\ tasks'[Len(tasks) + 1] = rest
      BY <1>4, <2>4
    <3> HIDE DEF rest
    <3>2. \A i \in DOMAIN tasks : tasks[i].pages \cap rest.pages = {}
      BY <1>3, <2>1, <3>1
    <3>3. \A g \in Handlers : inHand'[g] # NoTask => rest.pages \cap inHand'[g].pages = {}
      BY <1>3, <1>5, <2>1, <3>1
    <3>4. \A i, j \in DOMAIN tasks' : i # j => tasks'[i].pages \cap tasks'[j].pages = {}
      BY <2>1, <3>1, <3>2
    <3>5. \A g \in Handlers, i \in DOMAIN tasks' :
            inHand'[g] # NoTask => tasks'[i].pages \cap inHand'[g].pages = {}
      BY <1>5, <2>1, <3>1, <3>3
    <3> QED BY <2>2, <3>4, <3>5 DEF Apart
  <2> QED BY <1>1, <2>3, <2>4
\* The tasks that are left are those of the list, those in other hands, and the rest.
<1>7. \A t \in AllTasks' : \/ \E i \in DOMAIN tasks : t = tasks[i] /\ t \in AllTasks
                           \/ \E g \in Handlers \ {h} : t = inHand[g] /\ t \in AllTasks
                           \/ t.to = inHand[h].to /\ t.pages \subseteq inHand[h].pages
  <2> SUFFICES ASSUME NEW t \in AllTasks'
               PROVE  \/ \E i \in DOMAIN tasks : t = tasks[i] /\ t \in AllTasks
                      \/ \E g \in Handlers \ {h} : t = inHand[g] /\ t \in AllTasks
                      \/ t.to = inHand[h].to /\ t.pages \subseteq inHand[h].pages
    OBVIOUS
  <2>1. /\ t \in Tasks /\ t # NoTask
        /\ (\E g \in Handlers : t = inHand'[g]) \/ \E i \in DOMAIN tasks' : t = tasks'[i]
    BY ConstantsAssumption DEF AllTasks
  <2>2. CASE \E g \in Handlers : t = inHand'[g]
    BY <1>5, <2>1, <2>2 DEF AllTasks
  <2>3. CASE \E i \in DOMAIN tasks' : t = tasks'[i]
    <3>1. CASE tasks' = tasks
      BY <2>1, <2>3, <3>1 DEF AllTasks
    <3>2. ASSUME NEW S, tasks' = Append(tasks, Rest(h, S)), Rest(h, S) \in Tasks
          PROVE  \/ \E i \in DOMAIN tasks : t = tasks[i] /\ t \in AllTasks
                 \/ t.to = inHand[h].to /\ t.pages \subseteq inHand[h].pages
      BY <1>4, <2>1, <2>3, <3>2 DEF AllTasks
    <3> QED BY <1>1, <3>1, <3>2
  <2> QED BY <2>1, <2>2, <2>3
<1>8. ASSUME NEW n \in Nodes \ stale
      PROVE  Need(n)' <= Need(n) /\ Avail(n)' + Need(n)' <= Avail(n) + Need(n)
  <2>1. /\ Cardinality(Pending(n)) \in Nat /\ Left(n) \in Nat /\ Need(n) \in Nat
        /\ Cardinality(Pending(n)') \in Nat /\ Need(n)' \in Nat
        /\ Pending(n) \subseteq PagesOn(n)
    BY NeedNat, NextNeedNat
  <2>2. /\ IsFiniteSet(Pending(n)) /\ IsFiniteSet(PagesOn(n)) /\ Cardinality(PagesOn(n)) \in Nat
        /\ IsFiniteSet(PagesOn(n)') /\ Cardinality(PagesOn(n)') \in Nat
    <3>1. PagesOn(n) \subseteq Pages /\ PagesOn(n)' \subseteq Pages /\ Pending(n) \subseteq Pages
      BY DEF PagesOn, Pending
    <3> QED BY <3>1, SomePages
  <2>3. Left(n)' = Left(n)
    BY <1>1 DEF Left, loop
  <2>4. other[n] \in Int /\ Total \in Int /\ other'[n] = other[n]
    <3>1. Total \in Nat /\ other[n] \in 0 .. Total
      BY ConstantsAssumption DEF Typed, TypeOK
    <3> QED BY <1>1, <3>1
  <2>5. CASE n # inHand[h].to
    <3> DEFINE gone == moved \cap PagesOn(n)
    <3>1. gone \subseteq Pending(n)
      BY <1>3, <2>5 DEF Pending
    <3>2. PagesOn(n)' = PagesOn(n) \ gone
      BY <1>2, <2>5 DEF PagesOn
    <3>3. Pending(n)' \subseteq Pending(n) \ gone
      <4> SUFFICES ASSUME NEW pg \in Pending(n)' PROVE pg \in Pending(n) \ gone
        OBVIOUS
      <4>1. pg \in PagesOn(n)' /\ \E t \in AllTasks' : t.to # n /\ pg \in t.pages
        BY DEF Pending
      <4>2. pg \in PagesOn(n) \ gone
        BY <3>2, <4>1
      <4>3. \E t \in AllTasks : t.to # n /\ pg \in t.pages
        BY <1>3, <1>7, <2>5, <4>1
      <4> QED BY <4>2, <4>3 DEF Pending
    <3> HIDE DEF gone
    <3>4. /\ IsFiniteSet(gone) /\ Cardinality(gone) \in Nat
          /\ Cardinality(Pending(n) \ gone) = Cardinality(Pending(n)) - Cardinality(gone)
          /\ Cardinality(PagesOn(n) \ gone) = Cardinality(PagesOn(n)) - Cardinality(gone)
      <4>1. IsFiniteSet(gone) /\ Cardinality(gone) \in Nat
        BY <2>2, <3>1, FS_Subset, FS_CardinalityType
      <4>2. gone = Pending(n) \cap gone /\ gone = PagesOn(n) \cap gone
        BY <2>1, <3>1
      <4>3. Cardinality(Pending(n) \ gone) = Cardinality(Pending(n)) - Cardinality(Pending(n) \cap gone)
        BY <2>2, FS_Difference
      <4>4. Cardinality(PagesOn(n) \ gone) = Cardinality(PagesOn(n)) - Cardinality(PagesOn(n) \cap gone)
        BY <2>2, FS_Difference
      <4> QED BY <4>1, <4>2, <4>3, <4>4
    <3>5. Cardinality(Pending(n)') <= Cardinality(Pending(n)) - Cardinality(gone)
      BY <2>2, <3>3, <3>4, FS_Difference, FS_Subset
    <3>6. Avail(n) = Total - other[n] - Cardinality(PagesOn(n))
      BY DEF Avail
    <3>7. Avail(n)' = Total - other[n] - (Cardinality(PagesOn(n)) - Cardinality(gone))
      BY <2>4, <3>2, <3>4 DEF Avail
    <3>8. Need(n) = Cardinality(Pending(n)) + Left(n)
      BY DEF Need
    <3>9. Need(n)' = Cardinality(Pending(n)') + Left(n)
      BY <2>3 DEF Need
    <3> QED BY <2>1, <2>2, <2>4, <3>4, <3>5, <3>6, <3>7, <3>8, <3>9
  <2>6. CASE n = inHand[h].to
    <3>1. PagesOn(n) \subseteq PagesOn(n)'
      BY <1>2, <2>6 DEF PagesOn
    <3>2. /\ \A i \in DOMAIN tasks : tasks[i].pages \cap inHand[h].pages = {}
          /\ \A g \in Handlers \ {h} : inHand[g] # NoTask => inHand[g].pages \cap inHand[h].pages = {}
      BY <1>3 DEF Apart, Typed, TypeOK
    <3>3. Pending(n)' \subseteq Pending(n)
      <4> SUFFICES ASSUME NEW pg \in Pending(n)' PROVE pg \in Pending(n)
        OBVIOUS
      <4>1. pg \in Pages /\ at'[pg] = n
        BY DEF Pending, PagesOn
      <4>2. PICK t \in AllTasks' : t.to # n /\ pg \in t.pages
        BY DEF Pending
      <4>3. /\ t \in AllTasks /\ t # NoTask
            /\ (\E i \in DOMAIN tasks : t = tasks[i]) \/ \E g \in Handlers \ {h} : t = inHand[g]
        BY <1>7, <2>6, <4>2, ConstantsAssumption DEF AllTasks
      <4>4. pg \notin moved
        BY <3>2, <4>2, <4>3
      <4>5. pg \in PagesOn(n)
        BY <1>2, <4>1, <4>4 DEF PagesOn
      <4> QED BY <4>2, <4>3, <4>5 DEF Pending
    <3>4. Cardinality(PagesOn(n)) <= Cardinality(PagesOn(n)')
      BY <2>2, <3>1, FS_Subset
    <3>5. Cardinality(Pending(n)') <= Cardinality(Pending(n))
      BY <2>2, <3>3, FS_Subset
    <3>6. Avail(n) = Total - other[n] - Cardinality(PagesOn(n))
      BY DEF Avail
    <3>7. Avail(n)' = Total - other[n] - Cardinality(PagesOn(n)')
      BY <2>4 DEF Avail
    <3>8. Need(n) = Cardinality(Pending(n)) + Left(n)
      BY DEF Need
    <3>9. Need(n)' = Cardinality(Pending(n)') + Left(n)
      BY <2>3 DEF Need
    <3> QED BY <2>1, <2>2, <2>4, <3>4, <3>5, <3>6, <3>7, <3>8, <3>9
  <2> QED BY <2>5, <2>6
<1>9. ASSUME NEW n \in Nodes, NEW pg \in Pages, at[pg] = n, at'[pg] # n PROVE pg \in Pending(n)
  <2>1. pg \in moved /\ n # inHand[h].to /\ pg \in PagesOn(n)
    BY <1>2, <1>9 DEF PagesOn
  <2> QED BY <1>3, <2>1 DEF Pending
<1>10. Enough'
  BY <1>1, <1>8, EnoughKept
<1> QED BY <1>6, <1>8, <1>9, <1>10

LEMMA EnoughNext == Typed /\ Apart /\ Enough /\ [Next]_vars => Apart' /\ Enough'
<1> SUFFICES ASSUME Typed, Apart, Enough, [Next]_vars PROVE Apart' /\ Enough'
  OBVIOUS
<1>0. Typed'
  BY TypedNext
<1>1. CASE Environment
  BY <1>0, <1>1, EnoughMemory
<1>2. CASE Start \/ Stop \/ StopStep \/ UNCHANGED vars
  <2>1. UNCHANGED <<at, other, tasks, inHand, stale, round>>
    BY <1>2 DEF Start, Stop, StopStep, LoopQuits, StopMover, vars, memory, loop, mover
  <2> QED BY <1>0, <2>1, EnoughGoesOn
<1>3. CASE BeginRound
  BY <1>0, <1>3, EnoughBegin
<1>4. CASE LoopStep
  <2>1. ASSUME NEW S, NextNodeset(S) PROVE Apart' /\ Enough'
    <3>1. UNCHANGED <<at, other, tasks, inHand, stale>> /\ round \in Rounds
      BY <2>1, InTheRound DEF NextNodeset, memory, mover
    <3>2. round' = NoRound \/ \A n \in Nodes : round'.toMove[n] = round.toMove[n]
      BY <2>1, TypedNodeset
    <3> QED BY <1>0, <3>1, <3>2, EnoughGoesOn
  <2>2. ASSUME NEW c, NextCandidate(c) PROVE Apart' /\ Enough'
    BY <1>0, <2>2, EnoughCandidate
  <2>3. CASE Wake
    <3>1. UNCHANGED <<at, other, tasks, inHand, stale>> /\ round' \in {round, NoRound}
      BY <2>3, TypedWake DEF Wake, memory
    <3> QED BY <1>0, <3>1, EnoughGoesOn
  <2> QED BY <1>4, <2>1, <2>2, <2>3 DEF LoopStep, InRound
<1>5. CASE MoverStep
  <2>1. ASSUME NEW h \in Handlers, WakeUp(h) PROVE Apart' /\ Enough'
    <3>1. UNCHANGED <<at, other, tasks, inHand, stale, round>>
      BY <2>1 DEF WakeUp, memory, loop
    <3> QED BY <1>0, <3>1, EnoughGoesOn
  <2> QED BY <1>0, <1>5, <2>1, EnoughPop, EnoughHandle DEF MoverStep, HandlerStep
<1> QED BY <1>1, <1>2, <1>3, <1>4, <1>5 DEF Next

\* Only a handler takes a page to another node.
LEMMA OnlyHandlersMove ==
  ASSUME Typed, [Next]_vars, NEW pg \in Pages, at'[pg] # at[pg], at'[pg] # None
  PROVE  \E h \in Handlers : HandleTask(h)
<1>1. at' # at
  OBVIOUS
<1>2. CASE Environment
  <2>1. \A n \in Nodes : Allocate(n) \/ Release(n) => at' = at
    BY DEF Allocate, Release
  <2>2. \A q \in Pages : ~Unmap(q)
    BY DEF Unmap, Typed, TypeOK
  <2>3. \A p \in Pids : ~Exit(p)
    BY DEF Exit
  <2> QED BY <1>1, <1>2, <2>1, <2>2, <2>3 DEF Environment
<1>3. CASE Start \/ Stop \/ StopStep \/ BeginRound \/ UNCHANGED vars
  BY <1>1, <1>3 DEF Start, Stop, StopStep, LoopQuits, StopMover, BeginRound, vars, memory
<1>4. CASE LoopStep
  <2>1. \A S : ~NextNodeset(S)
    BY <1>1 DEF NextNodeset, memory
  <2>2. \A c : ~NextCandidate(c)
    BY <1>1, CandidateCases DEF memory
  <2>3. ~Wake
    BY <1>1 DEF Wake, memory
  <2> QED BY <1>4, <2>1, <2>2, <2>3 DEF LoopStep, InRound
<1>5. CASE MoverStep
  BY <1>1, <1>5 DEF MoverStep, HandlerStep, PopTask, WakeUp, memory
<1> QED BY <1>2, <1>3, <1>4, <1>5 DEF Next

\* Moving pages away from a node makes no more memory available there than up to
\* stopFreeingMemory, however many nodes, segments and tasks there are, unless the history
\* says that the round could not know better.
THEOREM NoNodeIsRelievedFurther == Spec => RelievesNoFurther
<1> DEFINE Further ==
      \A n \in Nodes : (\E pg \in Pages : at[pg] = n /\ at'[pg] \in Nodes \ {n}) =>
                         Avail(n)' <= StopFree \/ n \in stale
<1>1. Typed /\ Apart /\ Enough /\ [Next]_vars => [Further]_vars
  <2> SUFFICES ASSUME Typed, Apart, Enough, [Next]_vars, NEW n \in Nodes \ stale, NEW pg \in Pages,
                      at[pg] = n, at'[pg] \in Nodes \ {n}
               PROVE  Avail(n)' <= StopFree
    OBVIOUS
  <2>1. PICK h \in Handlers : HandleTask(h)
    BY ConstantsAssumption, OnlyHandlersMove
  <2>2. Typed'
    BY TypedNext
  <2>3. Avail(n)' + Need(n)' <= Avail(n) + Need(n) /\ pg \in Pending(n)
    BY <2>1, <2>2, EnoughHandle
  <2>4. /\ Pending(n) \subseteq Pages /\ Cardinality(Pending(n)) \in Nat /\ Left(n) \in Nat
        /\ Need(n) \in Nat /\ Need(n)' \in Nat /\ Avail(n) \in Int /\ Avail(n)' \in Int
    BY <2>2, NeedNat, NextNeedNat
  <2>5. Need(n) > 0
    <3>1. Cardinality(Pending(n)) # 0
      BY <2>3, <2>4, SomePages, FS_EmptySet
    <3> QED BY <2>4, <3>1 DEF Need
  <2>6. Avail(n) + Need(n) <= StopFree
    BY <2>5 DEF Enough
  <2> QED BY <2>3, <2>4, <2>6, ConstantsAssumption
<1>2. Spec => [](Typed /\ Apart /\ Enough)
  BY TypedInit, TypedNext, EnoughInit, EnoughNext, PTL DEF Spec
<1> QED BY <1>1, <1>2, PTL DEF Spec, RelievesNoFurther
=============================================================================
