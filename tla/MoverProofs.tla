---------------------------- MODULE MoverProofs ----------------------------
(***************************************************************************)
(* Proofs about the mover, for any number of clients, handlers, tasks and  *)
(* pages, any channel capacity and any configured rates.                   *)
(***************************************************************************)
EXTENDS Mover, SequenceTheorems, FiniteSetTheorems, TLAPS

-----------------------------------------------------------------------------
(* What the operations on sequences do to the elements of a sequence *)

\* Append adds one element, and keeps the elements distinct if it is a new one.
LEMMA AppendElements ==
  ASSUME NEW S, NEW s \in Seq(S), NEW e \in S
  PROVE  /\ Append(s, e) \in Seq(S)
         /\ Len(Append(s, e)) = Len(s) + 1
         /\ Range(Append(s, e)) = Range(s) \cup {e}
         /\ IsInjective(s) /\ e \notin Range(s) => IsInjective(Append(s, e))
<1> DEFINE a == Append(s, e)
<1>1. /\ a \in Seq(S)
      /\ Len(a) = Len(s) + 1
      /\ \A i \in 1..Len(s) : a[i] = s[i]
      /\ a[Len(s) + 1] = e
  BY AppendProperties
<1>2. /\ DOMAIN s = 1..Len(s) /\ Len(s) \in Nat
      /\ DOMAIN a = 1..(Len(s) + 1)
  BY <1>1, LenProperties
<1> HIDE DEF a
<1>3. Range(a) = Range(s) \cup {e}
  <2>1. ASSUME NEW x \in Range(a) PROVE x \in Range(s) \cup {e}
    <3>1. PICK i \in DOMAIN a : x = a[i]
      BY DEF Range
    <3>2. CASE i = Len(s) + 1
      BY <1>1, <3>1, <3>2
    <3>3. CASE i \in 1..Len(s)
      BY <1>1, <1>2, <3>1, <3>3 DEF Range
    <3> QED
      BY <1>2, <3>2, <3>3
  <2>2. ASSUME NEW x \in Range(s) PROVE x \in Range(a)
    <3>1. PICK i \in DOMAIN s : x = s[i]
      BY DEF Range
    <3>2. i \in DOMAIN a /\ a[i] = x
      BY <1>1, <1>2, <3>1
    <3> QED
      BY <3>2 DEF Range
  <2>3. e \in Range(a)
    <3>1. Len(s) + 1 \in DOMAIN a
      BY <1>2
    <3> QED
      BY <1>1, <3>1 DEF Range
  <2> QED
    BY <2>1, <2>2, <2>3
<1>4. ASSUME IsInjective(s), e \notin Range(s) PROVE IsInjective(a)
  <2> SUFFICES ASSUME NEW i \in DOMAIN a, NEW j \in DOMAIN a, a[i] = a[j], i # j
               PROVE  FALSE
    BY DEF IsInjective
  <2>1. \A k \in DOMAIN s : s[k] # e
    BY <1>4 DEF Range
  <2>2. CASE i \in DOMAIN s /\ j \in DOMAIN s
    BY <1>1, <1>2, <1>4, <2>2 DEF IsInjective
  <2>3. CASE i = Len(s) + 1 \/ j = Len(s) + 1
    BY <1>1, <1>2, <2>1, <2>3
  <2> QED
    BY <1>2, <2>2, <2>3
<1> QED
  BY <1>1, <1>3, <1>4 DEF a

\* Front takes away the last element, and with distinct elements no other place has it.
LEMMA FrontLastElements ==
  ASSUME NEW S, NEW s \in Seq(S), s # <<>>
  PROVE  /\ Front(s) \in Seq(S)
         /\ Last(s) \in S
         /\ Range(s) = Range(Front(s)) \cup {Last(s)}
         /\ IsInjective(s) => IsInjective(Front(s)) /\ Last(s) \notin Range(Front(s))
<1> DEFINE n == Len(s)
           f == Front(s)
<1>1. /\ n \in Nat \ {0} /\ s \in [1..n -> S] /\ DOMAIN s = 1..n
  BY LenProperties, EmptySeq
<1>2. /\ f \in Seq(S) /\ Len(f) = n - 1
      /\ \A i \in 1..(n - 1) : f[i] = s[i]
  <2>1. \A i \in 1..(n - 1) : s[i] \in S
    BY <1>1
  <2>2. /\ SubSeq(s, 1, n - 1) \in Seq(S)
        /\ Len(SubSeq(s, 1, n - 1)) = IF 1 <= n - 1 THEN n - 1 ELSE 0
        /\ \A i \in 1..(n - 1) : SubSeq(s, 1, n - 1)[i] = s[1 + i - 1]
    BY <1>1, <2>1, SubSeqProperties
  <2> QED
    BY <1>1, <2>2 DEF Front
<1>3. DOMAIN f = 1..(n - 1)
  BY <1>2, LenProperties
<1>4. Last(s) = s[n] /\ n \in DOMAIN s
  BY <1>1 DEF Last
<1> HIDE DEF n, f
<1>5. Range(s) = Range(f) \cup {Last(s)}
  <2>1. ASSUME NEW x \in Range(s) PROVE x \in Range(f) \cup {Last(s)}
    <3>1. PICK i \in DOMAIN s : x = s[i]
      BY DEF Range
    <3>2. CASE i = n
      BY <1>4, <3>1, <3>2
    <3>3. CASE i \in 1..(n - 1)
      BY <1>2, <1>3, <3>1, <3>3 DEF Range
    <3> QED
      BY <1>1, <3>2, <3>3
  <2>2. ASSUME NEW x \in Range(f) PROVE x \in Range(s)
    <3>1. PICK i \in DOMAIN f : x = f[i]
      BY DEF Range
    <3>2. i \in DOMAIN s /\ s[i] = x
      BY <1>1, <1>2, <1>3, <3>1
    <3> QED
      BY <3>2 DEF Range
  <2> QED
    BY <1>4, <2>1, <2>2 DEF Range
<1>6. ASSUME IsInjective(s) PROVE IsInjective(f) /\ Last(s) \notin Range(f)
  <2>1. \A i \in DOMAIN f : i \in DOMAIN s /\ i # n /\ f[i] = s[i]
    BY <1>1, <1>2, <1>3
  <2> QED
    BY <1>4, <1>6, <2>1 DEF IsInjective, Range
<1> QED
  BY <1>1, <1>2, <1>4, <1>5, <1>6 DEF f

\* RemoveAt takes away one element of a sequence of distinct elements.
LEMMA RemoveAtElements ==
  ASSUME NEW S, NEW s \in Seq(S), NEW k \in DOMAIN s
  PROVE  /\ RemoveAt(s, k) \in Seq(S)
         /\ s[k] \in S /\ s[k] \in Range(s)
         /\ IsInjective(s) => /\ IsInjective(RemoveAt(s, k))
                              /\ Range(RemoveAt(s, k)) = Range(s) \ {s[k]}
<1> DEFINE n == Len(s)
           a == SubSeq(s, 1, k - 1)
           b == SubSeq(s, k + 1, n)
           r == RemoveAt(s, k)
<1>1. /\ n \in Nat /\ s \in [1..n -> S] /\ DOMAIN s = 1..n /\ k \in 1..n
  BY LenProperties
<1>2. /\ a \in Seq(S) /\ Len(a) = k - 1
      /\ \A i \in 1..(k - 1) : a[i] = s[i]
  <2>1. \A i \in 1..(k - 1) : s[i] \in S
    BY <1>1
  <2>2. 1 \in Int /\ k - 1 \in Int
    BY <1>1
  <2>3. /\ SubSeq(s, 1, k - 1) \in Seq(S)
        /\ Len(SubSeq(s, 1, k - 1)) = IF 1 <= k - 1 THEN k - 1 - 1 + 1 ELSE 0
        /\ \A i \in 1..(k - 1 - 1 + 1) : SubSeq(s, 1, k - 1)[i] = s[1 + i - 1]
    BY <2>1, <2>2, SubSeqProperties
  <2> QED
    BY <1>1, <2>3
<1>3. /\ b \in Seq(S) /\ Len(b) = n - k
      /\ \A i \in 1..(n - k) : b[i] = s[k + i]
  <2>1. \A i \in (k + 1)..n : s[i] \in S
    BY <1>1
  <2>2. k + 1 \in Int /\ n \in Int
    BY <1>1
  <2>3. /\ SubSeq(s, k + 1, n) \in Seq(S)
        /\ Len(SubSeq(s, k + 1, n)) = IF k + 1 <= n THEN n - (k + 1) + 1 ELSE 0
        /\ \A i \in 1..(n - (k + 1) + 1) : SubSeq(s, k + 1, n)[i] = s[k + 1 + i - 1]
    BY <2>1, <2>2, SubSeqProperties
  <2> QED
    BY <1>1, <2>3
<1>4. r = a \o b
  BY DEF RemoveAt
<1> HIDE DEF a, b, r, n
<1>5. /\ r \in Seq(S) /\ Len(r) = n - 1
      /\ \A i \in 1..(n - 1) : r[i] = IF i <= k - 1 THEN a[i] ELSE b[i - (k - 1)]
  <2>1. /\ a \o b \in Seq(S)
        /\ Len(a \o b) = Len(a) + Len(b)
        /\ \A i \in 1..(Len(a) + Len(b)) : (a \o b)[i] = IF i <= Len(a) THEN a[i] ELSE b[i - Len(a)]
    BY <1>2, <1>3, ConcatProperties
  <2>2. Len(a) + Len(b) = n - 1
    BY <1>1, <1>2, <1>3
  <2> QED
    BY <1>2, <1>4, <2>1, <2>2
<1>6. DOMAIN r = 1..(n - 1)
  BY <1>5, LenProperties
<1>7. \A i \in DOMAIN r : r[i] = IF i < k THEN s[i] ELSE s[i + 1]
  <2> SUFFICES ASSUME NEW i \in DOMAIN r
               PROVE  r[i] = IF i < k THEN s[i] ELSE s[i + 1]
    OBVIOUS
  <2>1. CASE i < k
    BY <1>1, <1>2, <1>5, <1>6, <2>1
  <2>2. CASE i >= k
    <3>1. i - (k - 1) \in 1..(n - k) /\ k + (i - (k - 1)) = i + 1
      BY <1>1, <1>6, <2>2
    <3> QED
      BY <1>1, <1>3, <1>5, <1>6, <2>2, <3>1
  <2> QED
    BY <1>1, <1>6, <2>1, <2>2
<1>8. ASSUME IsInjective(s)
      PROVE  IsInjective(r) /\ Range(r) = Range(s) \ {s[k]}
  <2> DEFINE src(i) == IF i < k THEN i ELSE i + 1
  <2>1. \A i \in DOMAIN r : src(i) \in DOMAIN s /\ src(i) # k /\ r[i] = s[src(i)]
    BY <1>1, <1>6, <1>7
  <2>2. \A i, j \in DOMAIN r : src(i) = src(j) => i = j
    BY <1>1, <1>6
  <2>3. \A j \in DOMAIN s : j # k => \E i \in DOMAIN r : src(i) = j
    <3> SUFFICES ASSUME NEW j \in DOMAIN s, j # k
                 PROVE  \E i \in DOMAIN r : src(i) = j
      OBVIOUS
    <3>1. CASE j < k
      <4>1. j \in DOMAIN r /\ src(j) = j
        BY <1>1, <1>6, <3>1
      <4> QED BY <4>1
    <3>2. CASE j > k
      <4>1. j - 1 \in DOMAIN r /\ src(j - 1) = j
        BY <1>1, <1>6, <3>2
      <4> QED BY <4>1
    <3> QED
      BY <1>1, <3>1, <3>2
  <2> HIDE DEF src
  <2>4. IsInjective(r)
    BY <1>8, <2>1, <2>2 DEF IsInjective
  <2>5. Range(r) = Range(s) \ {s[k]}
    <3>1. ASSUME NEW x \in Range(r) PROVE x \in Range(s) \ {s[k]}
      <4>1. PICK i \in DOMAIN r : x = r[i]
        BY DEF Range
      <4>2. src(i) \in DOMAIN s /\ src(i) # k /\ x = s[src(i)]
        BY <2>1, <4>1
      <4> QED
        BY <1>8, <4>2 DEF IsInjective, Range
    <3>2. ASSUME NEW x \in Range(s) \ {s[k]} PROVE x \in Range(r)
      <4>1. PICK j \in DOMAIN s : x = s[j] /\ j # k
        BY <3>2 DEF Range
      <4>2. PICK i \in DOMAIN r : src(i) = j
        BY <2>3, <4>1
      <4> QED
        BY <2>1, <4>1, <4>2 DEF Range
    <3> QED
      BY <3>1, <3>2
  <2> QED
    BY <2>4, <2>5
<1>9. s[k] \in S /\ s[k] \in Range(s)
  BY <1>1 DEF Range
<1> QED
  BY <1>5, <1>8, <1>9 DEF r

-----------------------------------------------------------------------------
(* Type correctness *)

\* A handler has a popped task exactly while it handles one.
HandlersHoldTasks ==
  \A h \in Handlers : cur[h] # None <=> hpc[h] \in {"move", "offset", "append"}

TypeInv == TypeOK /\ HandlersHoldTasks

LEMMA TypeInit == Init => TypeInv
<1> SUFFICES ASSUME Init PROVE TypeInv
  OBVIOUS
<1>1. /\ mutex = None /\ running = FALSE /\ tasks = <<>> /\ config = None
      /\ ths \in Statuses /\ chan = <<>>
      /\ thsWaits \in [Statuses -> SUBSET WaitIds]
  BY DEF Init, Statuses
<1>2. /\ cpc \in [Clients -> ClientPCs]
      /\ hpc \in [Handlers -> HandlerPCs]
      /\ cur \in [Handlers -> Tasks \cup {None}]
      /\ rate \in [Handlers -> Nat]
      /\ offset \in [Tasks -> Nat]
      /\ outcome \in [Tasks -> Outcomes]
  BY DEF Init, ClientPCs, HandlerPCs, Outcomes
<1>3. /\ tries = [t \in Tasks |-> tries[t]]
      /\ \A t \in Tasks : tries[t] \in [Pages(t) -> Nat]
  BY DEF Init
<1>4. DOMAIN waitChan = {}
  BY DEF Init
<1>5. Len(chan) <= ChanCap
  BY <1>1, EmptySeq, ConstantsAssumption
<1>6. HandlersHoldTasks
  BY DEF Init, HandlersHoldTasks
<1>7. /\ tasks \in Seq(Tasks) /\ chan \in Seq({"quit", "pause", "continue"})
      /\ running \in BOOLEAN
      /\ mutex \in Clients \cup {None} /\ config \in Nat \cup {None}
      /\ DOMAIN waitChan \subseteq WaitIds
      /\ \A w \in DOMAIN waitChan : waitChan[w] \in Clients
  BY <1>1, <1>4, EmptySeq
<1> QED
  BY <1>1, <1>2, <1>3, <1>5, <1>6, <1>7, Zenon DEF TypeInv, TypeOK

\* The steps of Next one by one, for the proofs that follow.
LEMMA NextSteps ==
  ASSUME [Next]_vars
  PROVE  \/ \E c \in Clients :
              \/ \E r \in Rates : SetConfig(c, r)
              \/ Start(c) \/ StartUnconfigured(c) \/ StartDefault(c) \/ StartRun(c)
              \/ Stop(c) \/ StopSend(c) \/ Pause(c) \/ Continue(c) \/ Send(c)
              \/ \E t \in Tasks : AddTask(c, t)
              \/ \E i \in DOMAIN tasks : RemoveTask(c, i)
              \/ \E thss \in WaitSets : Wait(c, thss)
         \/ \E h \in Handlers :
              \/ \E from, to \in HandlerPCs, s \in Statuses :
                    /\ {from, to} \cap {"move", "offset", "append"} = {}
                    /\ HandlerSets(h, from, s, to)
              \/ HandlerReceive(h) \/ HandlerPop(h)
              \/ HandleTaskEmpty(h) \/ HandleTaskBlocked(h) \/ HandleTaskError(h)
              \/ HandleTaskMove(h) \/ HandleTaskOffset(h) \/ HandlerAppend(h)
              \/ HandlerSelect(h)
         \/ UNCHANGED vars
<1> DEFINE sets(h) == \E from, to \in HandlerPCs, s \in Statuses :
                        /\ {from, to} \cap {"move", "offset", "append"} = {}
                        /\ HandlerSets(h, from, s, to)
<1>1. ASSUME NEW h, \/ HandlerStart(h) \/ HandlerBusy(h) \/ HandlerAllDone(h)
                    \/ HandlerPause(h) \/ HandlerExit(h)
      PROVE  sets(h)
  <2> USE DEF HandlerPCs, Statuses
  <2>1. CASE HandlerStart(h)   BY <2>1 DEF HandlerStart
  <2>2. CASE HandlerBusy(h)    BY <2>2 DEF HandlerBusy
  <2>3. CASE HandlerAllDone(h) BY <2>3 DEF HandlerAllDone
  <2>4. CASE HandlerPause(h)   BY <2>4 DEF HandlerPause
  <2>5. CASE HandlerExit(h)    BY <2>5 DEF HandlerExit
  <2> QED
    BY <1>1, <2>1, <2>2, <2>3, <2>4, <2>5
<1> HIDE DEF sets
<1>2. \A h \in Handlers : HandlerStep(h) =>
         \/ sets(h)
         \/ HandlerReceive(h) \/ HandlerPop(h)
         \/ HandleTaskEmpty(h) \/ HandleTaskBlocked(h) \/ HandleTaskError(h)
         \/ HandleTaskMove(h) \/ HandleTaskOffset(h) \/ HandlerAppend(h)
         \/ HandlerSelect(h)
  BY <1>1, Zenon DEF HandlerStep
<1>3. CASE Next
  <2>1. CASE \E c \in Clients : ClientCall(c) \/ ClientStep(c)
    BY <2>1, Zenon DEF ClientCall, ClientStep
  <2>2. CASE \E h \in Handlers : HandlerStep(h)
    BY <1>2, <2>2, Zenon DEF sets
  <2> QED
    BY <1>3, <2>1, <2>2 DEF Next
<1> QED
  BY <1>3
LeaveType(h) ==
  /\ hpc' \in [Handlers -> HandlerPCs]
  /\ cur' \in [Handlers -> Tasks \cup {None}]
  /\ rate' \in [Handlers -> Nat]
  /\ outcome' \in [Tasks -> Outcomes]
  /\ HandlersHoldTasks'

\* A handler that lets a task go keeps the types and holds no task.
LEMMA LeavesWell ==
  ASSUME TypeInv, NEW h \in Handlers, NEW from \in {"move", "offset"},
         NEW how \in {"done", "dropped"}, Leave(h, from, how)
  PROVE  LeaveType(h)
BY DEF TypeInv, TypeOK, HandlersHoldTasks, Leave, Release, HandlerGoes, HandlerPCs, Outcomes, LeaveType

LEMMA TypeStep == TypeInv /\ [Next]_vars => TypeInv'
<1> SUFFICES ASSUME TypeInv, [Next]_vars
             PROVE  TypeInv'
  OBVIOUS
<1> USE DEF TypeInv, TypeOK, HandlersHoldTasks, waitVars, taskVars, workVars
<1>1. ASSUME NEW c \in Clients, NEW r \in Rates, SetConfig(c, r)
      PROVE  TypeInv'
  BY <1>1, ConstantsAssumption DEF SetConfig
<1>2. ASSUME NEW c \in Clients, Start(c) \/ StartRun(c)
      PROVE  TypeInv'
  BY <1>2 DEF Start, StartRun, LaunchHandler, ClientGoes, HandlerGoes, ClientPCs, HandlerPCs
<1>3. ASSUME NEW c \in Clients, StartUnconfigured(c) \/ StartDefault(c)
      PROVE  TypeInv'
  BY <1>3, ConstantsAssumption DEF StartUnconfigured, StartDefault, ClientGoes, ClientPCs
<1>4. ASSUME NEW c \in Clients, Stop(c) \/ Pause(c) \/ Continue(c)
      PROVE  TypeInv'
  BY <1>4 DEF Stop, Pause, Continue, ClientGoes, ClientPCs
<1>5. ASSUME NEW c \in Clients, StopSend(c) \/ Send(c)
      PROVE  TypeInv'
  <2>1. PICK cmd \in {"quit", "pause", "continue"} : chan' = Append(chan, cmd)
    BY <1>5 DEF StopSend, Send
  <2>2. chan' \in Seq({"quit", "pause", "continue"}) /\ Len(chan') <= ChanCap
    <3>1. Len(chan) < ChanCap
      BY <1>5 DEF StopSend, Send
    <3>2. Append(chan, cmd) \in Seq({"quit", "pause", "continue"})
          /\ Len(Append(chan, cmd)) = Len(chan) + 1
      BY AppendElements
    <3> QED
      BY <2>1, <3>1, <3>2, ConstantsAssumption, LenProperties
  <2>3. cpc' \in [Clients -> ClientPCs] /\ mutex' \in Clients \cup {None}
    BY <1>5 DEF StopSend, Send, ClientGoes, ClientPCs
  <2>4. UNCHANGED <<running, config, ths, waitVars, hpc, workVars, taskVars>>
    BY <1>5 DEF StopSend, Send
  <2> QED
    BY <2>2, <2>3, <2>4
<1>6. ASSUME NEW c \in Clients, NEW t \in Tasks, AddTask(c, t)
      PROVE  TypeInv'
  BY <1>6, AppendElements DEF AddTask, ClientGoes, ClientPCs, Outcomes
<1>7. ASSUME NEW c \in Clients, NEW i \in DOMAIN tasks, RemoveTask(c, i)
      PROVE  TypeInv'
  BY <1>7, RemoveAtElements DEF RemoveTask, Outcomes
<1>8. ASSUME NEW c \in Clients, NEW thss \in WaitSets, Wait(c, thss)
      PROVE  TypeInv'
  <2>1. PICK w \in WaitIds :
          /\ waitChan' = [v \in DOMAIN waitChan \cup {w} |-> IF v = w THEN c ELSE waitChan[v]]
          /\ thsWaits' = [s \in Statuses |-> thsWaits[s] \cup {x \in {w} : s \in thss}]
    BY <1>8 DEF Wait, RegisterWait, FreshWaitIds
  <2>2. /\ DOMAIN waitChan' \subseteq WaitIds
        /\ \A v \in DOMAIN waitChan' : waitChan'[v] \in Clients
        /\ thsWaits' \in [Statuses -> SUBSET WaitIds]
    BY <2>1
  <2>3. cpc' \in [Clients -> ClientPCs]
    BY <1>8 DEF Wait, ClientGoes, ClientPCs
  <2>4. UNCHANGED <<mutex, running, config, ths, chan, hpc, workVars, taskVars>>
    BY <1>8 DEF Wait
  <2> QED
    BY <2>2, <2>3, <2>4
<1>9. ASSUME NEW h \in Handlers, NEW from \in HandlerPCs, NEW to \in HandlerPCs,
             NEW s \in Statuses, {from, to} \cap {"move", "offset", "append"} = {},
             HandlerSets(h, from, s, to)
      PROVE  TypeInv'
  <2>1. /\ DOMAIN waitChan' \subseteq WaitIds
        /\ \A v \in DOMAIN waitChan' : waitChan'[v] \in Clients
        /\ thsWaits' \in [Statuses -> SUBSET WaitIds]
        /\ ths' \in Statuses
    BY <1>9 DEF HandlerSets, SetTaskHandlerStatus
  <2>2. cpc' \in [Clients -> ClientPCs]
    BY <1>9 DEF HandlerSets, SetTaskHandlerStatus, ClientPCs
  <2>3. hpc' \in [Handlers -> HandlerPCs] /\ HandlersHoldTasks'
    BY <1>9 DEF HandlerSets, HandlerGoes
  <2>4. UNCHANGED <<mutex, running, config, chan, workVars, taskVars>>
    BY <1>9 DEF HandlerSets
  <2> QED
    BY <2>1, <2>2, <2>3, <2>4
<1>10. ASSUME NEW h \in Handlers, HandlerReceive(h) \/ HandlerSelect(h)
       PROVE  TypeInv'
  <2>1. CASE chan # <<>> /\ chan' = Tail(chan)
    <3>1. /\ Head(chan) \in {"quit", "pause", "continue"}
          /\ chan' \in Seq({"quit", "pause", "continue"})
          /\ Len(chan') <= ChanCap
      BY <2>1, HeadTailProperties, LenProperties, ConstantsAssumption
    <3>2. AfterReceive[Head(chan)] \in HandlerPCs \ {"move", "offset", "append"}
      BY <3>1 DEF AfterReceive, HandlerPCs
    <3>3. AfterSelect[Head(chan)] \in HandlerPCs \ {"move", "offset", "append"}
      BY <3>1 DEF AfterSelect, HandlerPCs
    <3>4. hpc' \in [Handlers -> HandlerPCs] /\ HandlersHoldTasks'
      BY <1>10, <3>2, <3>3 DEF HandlerReceive, HandlerSelect, HandlerGoes, HandlerPCs
    <3>5. UNCHANGED <<mutex, running, config, ths, waitVars, cpc, workVars, taskVars>>
      BY <1>10 DEF HandlerReceive, HandlerSelect
    <3> QED
      BY <3>1, <3>4, <3>5
  <2>2. CASE chan' = chan /\ HandlerGoes(h, "select", "pop")
    <3>1. hpc' \in [Handlers -> HandlerPCs] /\ HandlersHoldTasks'
      BY <1>10, <2>2 DEF HandlerReceive, HandlerSelect, HandlerGoes, HandlerPCs
    <3>2. UNCHANGED <<mutex, running, config, ths, waitVars, cpc, workVars, taskVars>>
      BY <1>10 DEF HandlerReceive, HandlerSelect
    <3> QED
      BY <2>2, <3>1, <3>2
  <2> QED
    BY <1>10, <2>1, <2>2 DEF HandlerReceive, HandlerSelect
<1>11. ASSUME NEW h \in Handlers, HandlerPop(h)
       PROVE  TypeInv'
  <2>1. CASE HandlerGoes(h, "pop", "alldone") /\ UNCHANGED <<tasks, workVars>>
    BY <1>11, <2>1 DEF HandlerPop, HandlerGoes, HandlerPCs
  <2>2. CASE ~(config = None \/ tasks = <<>>)
    <3>1. Front(tasks) \in Seq(Tasks) /\ Last(tasks) \in Tasks
      BY <2>2, FrontLastElements
    <3>2. Last(tasks) # None
      BY <3>1, ConstantsAssumption
    <3> QED
      BY <1>11, <2>2, <3>1, <3>2 DEF HandlerPop, HandlerGoes, HandlerPCs
  <2> QED
    BY <1>11, <2>1, <2>2 DEF HandlerPop
<1>12. ASSUME NEW h \in Handlers, HandleTaskEmpty(h) \/ HandleTaskBlocked(h)
       PROVE  TypeInv'
  <2>1. PICK how \in {"done", "dropped"} : Leave(h, "move", how)
    BY <1>12 DEF HandleTaskEmpty, HandleTaskBlocked
  <2>2. LeaveType(h)
    BY <2>1, LeavesWell
  <2>3. UNCHANGED <<mutex, running, config, ths, waitVars, chan, cpc, tasks, offset, tries>>
    BY <1>12 DEF HandleTaskEmpty, HandleTaskBlocked
  <2> QED
    BY <2>2, <2>3 DEF LeaveType
<1>13. ASSUME NEW h \in Handlers, HandleTaskError(h) \/ HandleTaskMove(h)
       PROVE  TypeInv'
  <2>1. /\ tries' = [t \in Tasks |-> tries'[t]]
        /\ \A t \in Tasks : tries'[t] \in [Pages(t) -> Nat]
    <3>1. tries' = [tries EXCEPT ![cur[h]] =
              [i \in Pages(cur[h]) |-> IF i \in Chunk(h) THEN @[i] + 1 ELSE @[i]]]
      BY <1>13 DEF HandleTaskError, HandleTaskMove, GiveToKernel
    <3>2. cur[h] \in Tasks
      BY <1>13 DEF HandleTaskError, HandleTaskMove
    <3>3. DOMAIN tries = Tasks
      OBVIOUS
    <3>4. \A i \in Pages(cur[h]) : tries[cur[h]][i] \in Nat
      BY <3>2
    <3> HIDE DEF TypeInv, TypeOK
    <3>5. tries' = [t \in Tasks |-> IF t = cur[h]
                      THEN [i \in Pages(cur[h]) |-> IF i \in Chunk(h) THEN tries[cur[h]][i] + 1
                                                                      ELSE tries[cur[h]][i]]
                      ELSE tries[t]]
      BY <3>1, <3>2, <3>3
    <3>6. \A t \in Tasks : tries[t] \in [Pages(t) -> Nat]
      BY DEF TypeInv, TypeOK
    <3> QED
      BY <3>2, <3>4, <3>5, <3>6
  <2>2. CASE HandleTaskError(h)
    <3>1. LeaveType(h)
      BY <2>2, LeavesWell DEF HandleTaskError
    <3> QED
      BY <2>1, <2>2, <3>1 DEF HandleTaskError, LeaveType
  <2>3. CASE HandleTaskMove(h)
    BY <2>1, <2>3 DEF HandleTaskMove, HandlerGoes, HandlerPCs
  <2> QED
    BY <1>13, <2>2, <2>3
<1>14. ASSUME NEW h \in Handlers, HandleTaskOffset(h)
       PROVE  TypeInv'
  <2>1. /\ offset' \in [Tasks -> Nat]
        /\ UNCHANGED <<mutex, running, config, ths, waitVars, chan, cpc, tasks, tries>>
    BY <1>14 DEF HandleTaskOffset
  <2>2. CASE Leave(h, "offset", "done")
    BY <2>1, <2>2, LeavesWell DEF LeaveType
  <2>3. CASE HandlerGoes(h, "offset", "append") /\ UNCHANGED <<workVars, outcome>>
    BY <2>1, <2>3 DEF HandlerGoes, HandlerPCs
  <2> QED
    BY <1>14, <2>2, <2>3 DEF HandleTaskOffset
<1>15. ASSUME NEW h \in Handlers, HandlerAppend(h)
       PROVE  TypeInv'
  <2>1. cur[h] \in Tasks
    BY <1>15 DEF HandlerAppend, HandlerGoes
  <2> QED
    BY <1>15, <2>1, AppendElements DEF HandlerAppend, Release, HandlerGoes, HandlerPCs
<1>16. CASE UNCHANGED vars
  BY <1>16 DEF vars
<1> QED
  BY <1>1, <1>2, <1>3, <1>4, <1>5, <1>6, <1>7, <1>8, <1>9, <1>10, <1>11, <1>12, <1>13,
     <1>14, <1>15, <1>16, NextSteps

\* Every variable of the mover keeps its type, and the command channel its
\* capacity, for every number of clients, handlers, tasks and pages.
THEOREM TypeCorrect == Spec => []TypeOK
<1>1. Spec => []TypeInv
  BY TypeInit, TypeStep, PTL DEF Spec
<1>2. TypeInv => TypeOK
  BY DEF TypeInv
<1> QED
  BY <1>1, <1>2, PTL
-----------------------------------------------------------------------------
(* Where the tasks are, and which of their pages were given to the kernel *)

\* TaskAccounting, task by task.
Accounts ==
  /\ IsInjective(tasks)
  /\ \A g, h \in Handlers : cur[g] = cur[h] /\ cur[g] # None => g = h
  /\ \A h \in Handlers : cur[h] \notin Range(tasks)
  /\ \A t \in Tasks : outcome[t] = "open" <=> t \in Range(tasks) \/ \E h \in Handlers : cur[h] = t

\* The first n pages of t, and no others, were given to the kernel once.
Tried(t, n) == \A i \in Pages(t) : tries[t][i] = IF i <= n THEN 1 ELSE 0

\* A handler has not yet added the pages of its round to the offset of t.
OffsetLags(t) == \E h \in Handlers : hpc[h] = "offset" /\ cur[h] = t

\* The pages before the offset of a task were tried; between the system call
\* and the update of the offset, the pages of the round were tried as well.
TriesMatchOffset ==
  /\ \A t \in Tasks : outcome[t] = "new" => offset[t] = 0
  /\ \A t \in Tasks : outcome[t] \in {"new", "open"} /\ ~OffsetLags(t) => Tried(t, offset[t])
  /\ \A h \in Handlers : hpc[h] = "offset" => Tried(cur[h], offset[cur[h]] + rate[h])

WorkInv == TypeInv /\ Accounts /\ TriesMatchOffset

\* The tasks in the list are tasks.
LEMMA ListedTasks == ASSUME TypeInv PROVE Range(tasks) \subseteq Tasks /\ None \notin Range(tasks)
BY RangeOfSeq, ConstantsAssumption DEF TypeInv, TypeOK

LEMMA AccountsImplyAccounting == ASSUME TypeInv, Accounts PROVE TaskAccounting
<1>1. InFlight = {t \in Tasks : \E h \in Handlers : cur[h] = t}
  BY ConstantsAssumption DEF InFlight, TypeInv, TypeOK
<1>2. Range(tasks) \cap InFlight = {}
  BY <1>1 DEF Accounts
<1>3. {t \in Tasks : outcome[t] = "open"} = Range(tasks) \cup InFlight
  BY <1>1, ListedTasks DEF Accounts
<1> QED
  BY <1>2, <1>3 DEF Accounts, TaskAccounting

LEMMA WorkInit == Init => WorkInv
<1> SUFFICES ASSUME Init PROVE WorkInv
  OBVIOUS
<1>1. IsInjective(tasks) /\ Range(tasks) = {}
  BY EmptySeq DEF Init, IsInjective, Range
<1>2. Accounts
  BY <1>1, ConstantsAssumption DEF Init, Accounts
<1>3. TriesMatchOffset
  BY DEF Init, TriesMatchOffset, Tried, Pages, OffsetLags
<1> QED
  BY <1>2, <1>3, TypeInit DEF WorkInv

\* Steps that leave the tasks and the handlers that move pages alone.
LEMMA OtherSteps ==
  ASSUME WorkInv, TypeInv', UNCHANGED <<taskVars, workVars>>,
         \A h \in Handlers : hpc[h] = "offset" <=> hpc'[h] = "offset"
  PROVE  WorkInv'
<1>1. UNCHANGED <<tasks, offset, outcome, tries, cur, rate>>
  BY DEF taskVars, workVars
<1>2. Accounts'
  BY <1>1 DEF WorkInv, Accounts
<1>3. TriesMatchOffset'
  BY <1>1 DEF WorkInv, TriesMatchOffset, Tried, OffsetLags
<1> QED
  BY <1>2, <1>3 DEF WorkInv

\* A handler lets its task go: it has ended.
LEMMA LeaveStep ==
  ASSUME WorkInv, TypeInv', NEW h \in Handlers, NEW from \in {"move", "offset"},
         NEW how \in {"done", "dropped"}, Leave(h, from, how), UNCHANGED tasks,
         \A t \in Tasks : t # cur[h] => offset'[t] = offset[t] /\ tries'[t] = tries[t]
  PROVE  WorkInv'
<1> USE DEF WorkInv, TypeInv, TypeOK
<1>1. /\ cur[h] \in Tasks /\ cur[h] # None
      /\ outcome' = [outcome EXCEPT ![cur[h]] = how]
      /\ cur' = [cur EXCEPT ![h] = None]
      /\ rate' = [rate EXCEPT ![h] = 0]
      /\ hpc' = [hpc EXCEPT ![h] = "select"]
      /\ hpc[h] = from
  BY DEF Leave, Release, HandlerGoes, HandlersHoldTasks
<1>2. \A g \in Handlers : g # h => cur[g] # cur[h]
  BY <1>1 DEF Accounts
<1>3. Accounts'
  BY <1>1, <1>2, ListedTasks, ConstantsAssumption DEF Accounts
<1>4. \A t \in Tasks : t # cur[h] => Tried(t, offset[t])' = Tried(t, offset[t])
  BY DEF Tried
<1>5. \A g \in Handlers : hpc'[g] = "offset" =>
        /\ g # h /\ hpc[g] = "offset" /\ cur'[g] = cur[g] /\ rate'[g] = rate[g]
        /\ cur[g] \in Tasks /\ cur[g] # cur[h]
  BY <1>1, <1>2 DEF HandlersHoldTasks
<1> HIDE DEF WorkInv, TypeInv, TypeOK
<1>6. TriesMatchOffset /\ outcome \in [Tasks -> Outcomes]
  BY DEF WorkInv, TypeInv, TypeOK
<1>7. TriesMatchOffset'
  <2>1. ASSUME NEW t \in Tasks, outcome'[t] = "new" PROVE offset'[t] = 0
    BY <1>1, <1>6, <2>1 DEF TriesMatchOffset
  <2>2. ASSUME NEW t \in Tasks, outcome'[t] \in {"new", "open"}, ~OffsetLags(t)'
        PROVE  Tried(t, offset[t])'
    <3>1. t # cur[h] /\ outcome[t] = outcome'[t]
      BY <1>1, <1>6, <2>2
    <3>2. ASSUME NEW g \in Handlers, hpc[g] = "offset", cur[g] = t PROVE FALSE
      <4>1. g # h
        BY <3>1, <3>2
      <4>2. hpc'[g] = "offset" /\ cur'[g] = t
        BY <1>1, <3>2, <4>1 DEF WorkInv, TypeInv, TypeOK
      <4> QED
        BY <2>2, <4>2 DEF OffsetLags
    <3>3. Tried(t, offset[t])
      BY <1>6, <2>2, <3>1, <3>2 DEF TriesMatchOffset, OffsetLags
    <3> QED
      BY <3>1, <3>3 DEF Tried
  <2>3. ASSUME NEW g \in Handlers, hpc'[g] = "offset"
        PROVE  Tried(cur[g], offset[cur[g]] + rate[g])'
    <3>1. Tried(cur[g], offset[cur[g]] + rate[g])
      BY <1>5, <1>6, <2>3 DEF TriesMatchOffset
    <3> QED
      BY <1>5, <2>3, <3>1 DEF Tried
  <2> QED
    BY <2>1, <2>2, <2>3 DEF TriesMatchOffset
<1> QED
  BY <1>3, <1>7 DEF WorkInv
\* The task of a handler that is about to move pages.
LEMMA MovingTask ==
  ASSUME WorkInv, NEW h \in Handlers, hpc[h] \in {"move", "offset", "append"}
  PROVE  /\ cur[h] \in Tasks
         /\ outcome[cur[h]] = "open"
         /\ cur[h] \notin Range(tasks)
         /\ \A g \in Handlers : g # h => cur[g] # cur[h]
         /\ hpc[h] # "offset" => Tried(cur[h], offset[cur[h]])
         /\ hpc[h] = "offset" => Tried(cur[h], offset[cur[h]] + rate[h])
<1>1. cur[h] \in Tasks /\ cur[h] # None
  BY ConstantsAssumption DEF WorkInv, TypeInv, TypeOK, HandlersHoldTasks
<1>2. /\ outcome[cur[h]] = "open"
      /\ cur[h] \notin Range(tasks)
      /\ \A g \in Handlers : g # h => cur[g] # cur[h]
  BY <1>1 DEF WorkInv, Accounts
<1>3. hpc[h] # "offset" => ~OffsetLags(cur[h])
  BY <1>2 DEF OffsetLags
<1> QED
  BY <1>1, <1>2, <1>3 DEF WorkInv, TriesMatchOffset

\* Giving a chunk to the kernel raises the tried prefix of the task by a round.
LEMMA ChunkIsTried ==
  ASSUME WorkInv, NEW h \in Handlers, hpc[h] = "move", GiveToKernel(h)
  PROVE  LET t == cur[h]
             n == offset[t] + rate[h]
         IN  /\ \A i \in Pages(t) : tries'[t][i] = IF i <= n THEN 1 ELSE 0
             /\ \A u \in Tasks : u # t => tries'[u] = tries[u]
<1> DEFINE t == cur[h]
           n == offset[t] + rate[h]
<1>1. t \in Tasks /\ Tried(t, offset[t])
  BY MovingTask
<1>2. /\ tries = [u \in Tasks |-> tries[u]]
      /\ offset[t] \in Nat /\ rate[h] \in Nat /\ PageCount[t] \in Nat
  BY <1>1, ConstantsAssumption DEF WorkInv, TypeInv, TypeOK
<1>3. tries' = [tries EXCEPT ![t] = [i \in Pages(t) |-> IF i \in Chunk(h) THEN @[i] + 1 ELSE @[i]]]
  BY DEF GiveToKernel
<1>4. \A i \in Pages(t) : i \in Nat /\ (i \in Chunk(h) <=> offset[t] < i /\ i <= n)
  BY <1>1, <1>2 DEF Chunk, Pages
<1> HIDE DEF t, n
<1>5. /\ \A u \in Tasks : u # t => tries'[u] = tries[u]
      /\ tries'[t] = [i \in Pages(t) |-> IF i \in Chunk(h) THEN tries[t][i] + 1 ELSE tries[t][i]]
  BY <1>1, <1>2, <1>3
<1>6. ASSUME NEW i \in Pages(t) PROVE tries'[t][i] = IF i <= n THEN 1 ELSE 0
  <2>1. tries[t][i] = IF i <= offset[t] THEN 1 ELSE 0
    BY <1>1 DEF Tried
  <2>2. i \in Nat /\ (i \in Chunk(h) <=> offset[t] < i /\ i <= n)
    BY <1>4
  <2>3. offset[t] <= n /\ n \in Nat
    BY <1>2 DEF n, t
  <2> QED
    BY <1>2, <1>5, <2>1, <2>2, <2>3
<1> QED
  BY <1>5, <1>6 DEF t, n

LEMMA WorkStep == WorkInv /\ TypeInv' /\ [Next]_vars => WorkInv'
<1> SUFFICES ASSUME WorkInv, TypeInv', [Next]_vars
             PROVE  WorkInv'
  OBVIOUS
<1>0. /\ Accounts /\ TriesMatchOffset /\ TypeInv
      /\ outcome \in [Tasks -> Outcomes] /\ tasks \in Seq(Tasks)
      /\ cur \in [Handlers -> Tasks \cup {None}] /\ hpc \in [Handlers -> HandlerPCs]
      /\ rate \in [Handlers -> Nat] /\ offset \in [Tasks -> Nat]
  BY DEF WorkInv, TypeInv, TypeOK
<1>1. ASSUME NEW c \in Clients,
             \/ \E r \in Rates : SetConfig(c, r)
             \/ StartUnconfigured(c) \/ StartDefault(c)
             \/ Stop(c) \/ StopSend(c) \/ Pause(c) \/ Continue(c) \/ Send(c)
             \/ \E thss \in WaitSets : Wait(c, thss)
      PROVE  WorkInv'
  <2>1. UNCHANGED <<taskVars, workVars>> /\ hpc' = hpc
    BY <1>1 DEF SetConfig, StartUnconfigured, StartDefault, Stop, StopSend, Pause, Continue, Send, Wait
  <2> QED
    BY <2>1, OtherSteps
<1>2. ASSUME NEW c \in Clients, Start(c) \/ StartRun(c)
      PROVE  WorkInv'
  <2>1. UNCHANGED <<taskVars, workVars>> /\ LaunchHandler
    BY <1>2 DEF Start, StartRun
  <2>2. \A h \in Handlers : hpc[h] = "offset" <=> hpc'[h] = "offset"
    BY <1>0, <2>1 DEF LaunchHandler, HandlerGoes
  <2> QED
    BY <2>1, <2>2, OtherSteps
<1>3. ASSUME NEW c \in Clients, NEW t \in Tasks, AddTask(c, t)
      PROVE  WorkInv'
  <2>1. /\ outcome[t] = "new" /\ outcome' = [outcome EXCEPT ![t] = "open"]
        /\ tasks' = Append(tasks, t)
        /\ UNCHANGED <<cur, rate, offset, tries, hpc>>
    BY <1>3 DEF AddTask, workVars
  <2>2. t \notin Range(tasks) /\ \A h \in Handlers : cur[h] # t
    BY <1>0, <2>1 DEF Accounts
  <2>3. Range(tasks') = Range(tasks) \cup {t} /\ IsInjective(tasks')
    BY <1>0, <2>1, <2>2, AppendElements DEF Accounts
  <2>4. Accounts'
    BY <1>0, <2>1, <2>2, <2>3 DEF Accounts
  <2>5. TriesMatchOffset'
    BY <1>0, <2>1 DEF TriesMatchOffset, Tried, OffsetLags
  <2> QED
    BY <2>4, <2>5 DEF WorkInv
<1>4. ASSUME NEW c \in Clients, NEW i \in DOMAIN tasks, RemoveTask(c, i)
      PROVE  WorkInv'
  <2>1. /\ outcome' = [outcome EXCEPT ![tasks[i]] = "removed"]
        /\ tasks' = RemoveAt(tasks, i)
        /\ UNCHANGED <<cur, rate, offset, tries, hpc>>
    BY <1>4 DEF RemoveTask, workVars
  <2>2. /\ tasks[i] \in Tasks /\ tasks[i] \in Range(tasks)
        /\ IsInjective(tasks') /\ Range(tasks') = Range(tasks) \ {tasks[i]}
    BY <1>0, <2>1, RemoveAtElements DEF Accounts
  <2>3. Accounts'
    BY <1>0, <2>1, <2>2 DEF Accounts
  <2>4. TriesMatchOffset'
    BY <1>0, <2>1, <2>2 DEF TriesMatchOffset, Tried, OffsetLags
  <2> QED
    BY <2>3, <2>4 DEF WorkInv
<1>5. ASSUME NEW h \in Handlers, NEW from \in HandlerPCs, NEW to \in HandlerPCs,
             NEW s \in Statuses, {from, to} \cap {"move", "offset", "append"} = {},
             HandlerSets(h, from, s, to)
      PROVE  WorkInv'
  <2>1. UNCHANGED <<taskVars, workVars>>
    BY <1>5 DEF HandlerSets
  <2>2. \A g \in Handlers : hpc[g] = "offset" <=> hpc'[g] = "offset"
    BY <1>0, <1>5 DEF HandlerSets, HandlerGoes
  <2> QED
    BY <2>1, <2>2, OtherSteps
<1>6. ASSUME NEW h \in Handlers, HandlerReceive(h) \/ HandlerSelect(h)
      PROVE  WorkInv'
  <2>1. UNCHANGED <<taskVars, workVars>>
    BY <1>6 DEF HandlerReceive, HandlerSelect
  <2>2. \A g \in Handlers : g # h => hpc'[g] = hpc[g]
    BY <1>0, <1>6 DEF HandlerReceive, HandlerSelect, HandlerGoes
  <2>3. cur[h] = None /\ cur'[h] = None
    BY <1>0, <1>6, <2>1 DEF HandlerReceive, HandlerSelect, HandlerGoes, TypeInv, HandlersHoldTasks, workVars
  <2>4. hpc[h] # "offset" /\ hpc'[h] # "offset"
    BY <2>3 DEF WorkInv, TypeInv, HandlersHoldTasks
  <2> QED
    BY <2>1, <2>2, <2>4, OtherSteps
<1>7. ASSUME NEW h \in Handlers, HandlerPop(h)
      PROVE  WorkInv'
  <2>1. CASE config = None \/ tasks = <<>>
    <3>1. UNCHANGED <<taskVars, workVars>>
      BY <1>7, <2>1 DEF HandlerPop, taskVars
    <3>2. \A g \in Handlers : hpc[g] = "offset" <=> hpc'[g] = "offset"
      BY <1>0, <1>7, <2>1 DEF HandlerPop, HandlerGoes
    <3> QED
      BY <3>1, <3>2, OtherSteps
  <2>2. CASE ~(config = None \/ tasks = <<>>)
    <3> DEFINE t == Last(tasks)
    <3>1. /\ hpc[h] = "pop" /\ hpc' = [hpc EXCEPT ![h] = "move"]
          /\ cur' = [cur EXCEPT ![h] = t]
          /\ rate' = [rate EXCEPT ![h] = config]
          /\ tasks' = Front(tasks)
          /\ UNCHANGED <<offset, outcome, tries>>
      BY <1>7, <2>2 DEF HandlerPop, HandlerGoes
    <3>2. /\ t \in Tasks /\ Range(tasks) = Range(tasks') \cup {t}
          /\ IsInjective(tasks') /\ t \notin Range(tasks')
      BY <1>0, <2>2, <3>1, FrontLastElements DEF Accounts
    <3> HIDE DEF t
    <3>3. cur[h] = None
      BY <1>0, <3>1 DEF TypeInv, HandlersHoldTasks
    <3>4. Accounts'
      <4>1. t \in Range(tasks) /\ None \notin Range(tasks) /\ t # None
        BY <1>0, <3>2, ListedTasks
      <4>2. \A g \in Handlers : cur[g] # t /\ cur[g] \notin Range(tasks')
        BY <1>0, <3>2, <4>1 DEF Accounts
      <4>3. \A g \in Handlers : cur'[g] = IF g = h THEN t ELSE cur[g]
        BY <1>0, <3>1
      <4>4. \A g, k \in Handlers : cur'[g] = cur'[k] /\ cur'[g] # None => g = k
        BY <1>0, <4>2, <4>3 DEF Accounts
      <4>5. \A g \in Handlers : cur'[g] \notin Range(tasks')
        BY <3>2, <4>2, <4>3
      <4>6. \A u \in Tasks : (\E g \in Handlers : cur'[g] = u)
                                <=> u = t \/ \E g \in Handlers : cur[g] = u
        BY <3>3, <4>3, ConstantsAssumption
      <4>7. \A u \in Tasks : outcome'[u] = "open"
                        <=> u \in Range(tasks') \/ \E g \in Handlers : cur'[g] = u
        <5>1. \A u \in Tasks : outcome[u] = "open"
                        <=> u \in Range(tasks) \/ \E g \in Handlers : cur[g] = u
          BY <1>0 DEF Accounts
        <5> QED
          BY <3>1, <3>2, <4>6, <5>1
      <4> QED
        BY <3>2, <4>4, <4>5, <4>7 DEF Accounts
    <3>5. \A g \in Handlers : hpc'[g] = "offset" <=> hpc[g] = "offset"
      BY <1>0, <3>1
    <3>6. \A g \in Handlers : hpc[g] = "offset" => cur'[g] = cur[g] /\ rate'[g] = rate[g]
      BY <1>0, <3>1
    <3>7. TriesMatchOffset'
      BY <1>0, <3>1, <3>5, <3>6 DEF TriesMatchOffset, Tried, OffsetLags
    <3> QED
      BY <3>4, <3>7 DEF WorkInv
  <2> QED
    BY <2>1, <2>2
<1>8. ASSUME NEW h \in Handlers, HandleTaskEmpty(h) \/ HandleTaskBlocked(h)
      PROVE  WorkInv'
  <2>1. PICK how \in {"done", "dropped"} : Leave(h, "move", how)
    BY <1>8 DEF HandleTaskEmpty, HandleTaskBlocked
  <2>2. UNCHANGED <<tasks, offset, tries>>
    BY <1>8 DEF HandleTaskEmpty, HandleTaskBlocked
  <2> QED
    BY <2>1, <2>2, LeaveStep
<1>9. ASSUME NEW h \in Handlers, HandleTaskError(h)
      PROVE  WorkInv'
  <2>1. /\ hpc[h] = "move" /\ GiveToKernel(h) /\ Leave(h, "move", "dropped")
        /\ UNCHANGED <<tasks, offset>>
    BY <1>9 DEF HandleTaskError
  <2>2. \A t \in Tasks : t # cur[h] => tries'[t] = tries[t]
    BY <2>1, ChunkIsTried
  <2> QED
    BY <2>1, <2>2, LeaveStep
<1>10. ASSUME NEW h \in Handlers, HandleTaskMove(h)
       PROVE  WorkInv'
  <2>1. /\ hpc[h] = "move" /\ hpc' = [hpc EXCEPT ![h] = "offset"]
        /\ GiveToKernel(h)
        /\ UNCHANGED <<tasks, offset, outcome, cur, rate>>
    BY <1>10 DEF HandleTaskMove, HandlerGoes, workVars
  <2>2. /\ cur[h] \in Tasks
        /\ \A g \in Handlers : g # h => cur[g] # cur[h]
    BY <2>1, MovingTask
  <2>3. /\ \A t \in Tasks : t # cur[h] => tries'[t] = tries[t]
        /\ \A i \in Pages(cur[h]) :
              tries'[cur[h]][i] = IF i <= offset[cur[h]] + rate[h] THEN 1 ELSE 0
    BY <2>1, ChunkIsTried
  <2>4. Accounts'
    BY <1>0, <2>1 DEF Accounts
  <2>5. ASSUME NEW t \in Tasks, outcome'[t] = "new" PROVE offset'[t] = 0
    BY <1>0, <2>1, <2>5 DEF TriesMatchOffset
  <2>6. ASSUME NEW t \in Tasks, outcome'[t] \in {"new", "open"}, ~OffsetLags(t)'
        PROVE  Tried(t, offset[t])'
    <3>1. hpc'[h] = "offset" /\ cur'[h] = cur[h]
      BY <1>0, <2>1
    <3>2. t # cur[h]
      BY <2>6, <3>1 DEF OffsetLags
    <3>3. ~OffsetLags(t)
      BY <1>0, <2>1, <2>6 DEF OffsetLags
    <3>4. Tried(t, offset[t])
      BY <1>0, <2>1, <2>6, <3>3 DEF TriesMatchOffset
    <3> QED
      BY <2>1, <2>3, <3>2, <3>4 DEF Tried
  <2>7. ASSUME NEW g \in Handlers, hpc'[g] = "offset"
        PROVE  Tried(cur[g], offset[cur[g]] + rate[g])'
    <3>1. CASE g = h
      BY <2>1, <2>3, <3>1 DEF Tried
    <3>2. CASE g # h
      <4>1. hpc[g] = "offset"
        BY <1>0, <2>1, <2>7, <3>2
      <4>2. Tried(cur[g], offset[cur[g]] + rate[g]) /\ cur[g] \in Tasks /\ cur[g] # cur[h]
        BY <2>2, <3>2, <4>1, MovingTask
      <4> QED
        BY <2>1, <2>3, <4>2 DEF Tried
    <3> QED
      BY <3>1, <3>2
  <2>8. TriesMatchOffset'
    BY <2>5, <2>6, <2>7 DEF TriesMatchOffset
  <2> QED
    BY <2>4, <2>8 DEF WorkInv
<1>11. ASSUME NEW h \in Handlers, HandleTaskOffset(h)
       PROVE  WorkInv'
  <2>1. /\ hpc[h] = "offset"
        /\ offset' = [offset EXCEPT ![cur[h]] = @ + rate[h]]
        /\ UNCHANGED <<tasks, tries>>
    BY <1>11 DEF HandleTaskOffset
  <2>2. /\ cur[h] \in Tasks
        /\ \A g \in Handlers : g # h => cur[g] # cur[h]
        /\ Tried(cur[h], offset[cur[h]] + rate[h])
        /\ outcome[cur[h]] = "open"
    BY <2>1, MovingTask
  <2>3. /\ offset'[cur[h]] = offset[cur[h]] + rate[h]
        /\ \A t \in Tasks : t # cur[h] => offset'[t] = offset[t]
    BY <1>0, <2>1, <2>2
  <2>4. CASE Leave(h, "offset", "done")
    BY <2>1, <2>3, <2>4, LeaveStep
  <2>5. CASE HandlerGoes(h, "offset", "append") /\ UNCHANGED <<workVars, outcome>>
    <3>1. hpc' = [hpc EXCEPT ![h] = "append"] /\ UNCHANGED <<cur, rate, outcome, tasks, tries>>
      BY <2>1, <2>5 DEF HandlerGoes, workVars
    <3>2. Accounts'
      BY <1>0, <3>1 DEF Accounts
    <3>3. ASSUME NEW t \in Tasks, outcome'[t] = "new" PROVE offset'[t] = 0
      BY <1>0, <2>2, <2>3, <3>1, <3>3 DEF TriesMatchOffset
    <3>4. ASSUME NEW t \in Tasks, outcome'[t] \in {"new", "open"}, ~OffsetLags(t)'
          PROVE  Tried(t, offset[t])'
      <4>1. CASE t = cur[h]
        BY <2>1, <2>2, <2>3, <4>1 DEF Tried
      <4>2. CASE t # cur[h]
        <5>1. ~OffsetLags(t)
          BY <1>0, <3>1, <3>4, <4>2 DEF OffsetLags
        <5>2. Tried(t, offset[t])
          BY <1>0, <3>1, <3>4, <5>1 DEF TriesMatchOffset
        <5> QED
          BY <2>1, <2>3, <4>2, <5>2 DEF Tried
      <4> QED
        BY <4>1, <4>2
    <3>5. ASSUME NEW g \in Handlers, hpc'[g] = "offset"
          PROVE  Tried(cur[g], offset[cur[g]] + rate[g])'
      <4>1. g # h /\ hpc[g] = "offset"
        BY <1>0, <3>1, <3>5
      <4>2. Tried(cur[g], offset[cur[g]] + rate[g]) /\ cur[g] \in Tasks /\ cur[g] # cur[h]
        BY <2>2, <4>1, MovingTask
      <4> QED
        BY <2>3, <3>1, <4>2 DEF Tried
    <3>6. TriesMatchOffset'
      BY <3>3, <3>4, <3>5 DEF TriesMatchOffset
    <3> QED
      BY <3>2, <3>6 DEF WorkInv
  <2> QED
    BY <1>11, <2>4, <2>5 DEF HandleTaskOffset
<1>12. ASSUME NEW h \in Handlers, HandlerAppend(h)
       PROVE  WorkInv'
  <2>1. /\ hpc[h] = "append" /\ hpc' = [hpc EXCEPT ![h] = "select"]
        /\ tasks' = Append(tasks, cur[h])
        /\ cur' = [cur EXCEPT ![h] = None]
        /\ rate' = [rate EXCEPT ![h] = 0]
        /\ UNCHANGED <<offset, outcome, tries>>
    BY <1>12 DEF HandlerAppend, HandlerGoes, Release
  <2>2. /\ cur[h] \in Tasks /\ outcome[cur[h]] = "open"
        /\ cur[h] \notin Range(tasks)
        /\ \A g \in Handlers : g # h => cur[g] # cur[h]
    BY <2>1, MovingTask
  <2>3. Range(tasks') = Range(tasks) \cup {cur[h]} /\ IsInjective(tasks')
    BY <1>0, <2>1, <2>2, AppendElements DEF Accounts
  <2>4. Accounts'
    BY <1>0, <2>1, <2>2, <2>3, ListedTasks, ConstantsAssumption DEF Accounts
  <2>5. \A g \in Handlers : hpc'[g] = "offset" <=> hpc[g] = "offset"
    BY <1>0, <2>1
  <2>6. \A g \in Handlers : hpc[g] = "offset" => cur'[g] = cur[g] /\ rate'[g] = rate[g]
    BY <1>0, <2>1
  <2>7. TriesMatchOffset'
    BY <1>0, <2>1, <2>5, <2>6 DEF TriesMatchOffset, Tried, OffsetLags
  <2> QED
    BY <2>4, <2>7 DEF WorkInv
<1>13. CASE UNCHANGED vars
  <2>1. UNCHANGED <<taskVars, workVars>> /\ hpc' = hpc
    BY <1>13 DEF vars, taskVars, workVars
  <2> QED
    BY <2>1, OtherSteps
<1> QED
  BY <1>1, <1>2, <1>3, <1>4, <1>5, <1>6, <1>7, <1>8, <1>9, <1>10, <1>11, <1>12, <1>13, NextSteps

LEMMA WorkInvariant == Spec => []WorkInv
<1>1. WorkInv /\ [Next]_vars => WorkInv'
  BY TypeStep, WorkStep DEF WorkInv
<1> QED
  BY <1>1, WorkInit, PTL DEF Spec

\* Every task that was added and has not ended is in exactly one place.
THEOREM TasksAccounted == Spec => []TaskAccounting
<1>1. WorkInv => TaskAccounting
  BY AccountsImplyAccounting DEF WorkInv
<1> QED
  BY <1>1, WorkInvariant, PTL

-----------------------------------------------------------------------------
(* The mover implements TaskPool *)

LEMMA Held == ASSUME TypeInv, NEW t \in Tasks
              PROVE  t \in InFlight <=> \E h \in Handlers : cur[h] = t
BY ConstantsAssumption DEF InFlight

\* A step that changes one task changes the phase of that task only.
LEMMA PhaseGoes ==
  ASSUME TypeInv, TypeInv', NEW t \in Tasks, NEW from, NEW to,
         phase[t] = from, phase'[t] = to,
         \A u \in Tasks : u # t => /\ outcome'[u] = outcome[u]
                                   /\ u \in InFlight' <=> u \in InFlight
  PROVE  Pool!Goes(t, from, to)
<1>1. \A u \in Tasks : phase'[u] = IF u = t THEN to ELSE phase[u]
  BY DEF phase
<1>2. phase' = [u \in Tasks |-> phase'[u]] /\ phase = [u \in Tasks |-> phase[u]]
  BY DEF phase
<1> HIDE DEF phase
<1>3. phase' = [phase EXCEPT ![t] = to]
  BY <1>1, <1>2
<1> QED
  BY <1>3 DEF Pool!Goes

\* A handler that takes or lets go a task changes the phase of that task only.
LEMMA HandlerGoesOn ==
  ASSUME WorkInv, TypeInv', NEW h \in Handlers, NEW t \in Tasks, NEW to,
         cur[h] = t, phase'[t] = to, cur' = [cur EXCEPT ![h] = None],
         \A u \in Tasks : u # t => outcome'[u] = outcome[u]
  PROVE  Pool!Goes(t, "moving", to)
<1>1. cur \in [Handlers -> Tasks \cup {None}] /\ t # None /\ Accounts
  BY ConstantsAssumption DEF WorkInv, TypeInv, TypeOK
<1>2. ASSUME NEW u \in Tasks, u # t
      PROVE  u \in InFlight' <=> u \in InFlight
  <2>1. u # None
    BY ConstantsAssumption
  <2>2. (\E g \in Handlers : cur'[g] = u) <=> \E g \in Handlers : cur[g] = u
    BY <1>1, <1>2, <2>1
  <2> QED
    BY <2>2, Held DEF WorkInv, InFlight
<1>3. phase[t] = "moving"
  <2>1. t \in InFlight /\ outcome[t] = "open"
    BY <1>1 DEF Accounts, InFlight
  <2> QED
    BY <2>1 DEF phase
<1> QED
  BY <1>2, <1>3, PhaseGoes DEF WorkInv

LEMMA SamePhase ==
  ASSUME outcome' = outcome, cur' = cur
  PROVE  phase' = phase
BY DEF phase, InFlight

PoolStep == Pool!Next \/ UNCHANGED <<phase, tries>>

\* The step that gives pages to the kernel is a Move, or a Drop that fails.
LEMMA MovesChunk ==
  ASSUME WorkInv, WorkInv', NEW h \in Handlers, hpc[h] = "move", GiveToKernel(h),
         PagesLeft(h), rate[h] > 0
  PROVE  LET t == cur[h] IN
         \E lo, hi \in Pages(t) :
            /\ \A i \in Pages(t) : tries[t][i] = 0 <=> i >= lo
            /\ Pool!HandOver(t, lo..hi)
<1> DEFINE t == cur[h]
           o == offset[t]
           n == o + rate[h]
           p == PageCount[t]
           hi == IF n <= p THEN n ELSE p
<1>1. t \in Tasks /\ Tried(t, o)
  BY MovingTask
<1>2. /\ o \in Nat /\ rate[h] \in Nat /\ p \in Nat /\ Pages(t) = 1..p
      /\ o < p /\ rate[h] > 0
  BY <1>1, ConstantsAssumption DEF WorkInv, TypeInv, TypeOK, Pages, PagesLeft
<1>3. Chunk(h) = {i \in Pages(t) : o < i /\ i <= n}
  BY DEF Chunk
<1>4. tries' = [tries EXCEPT ![t] = [i \in Pages(t) |-> IF i \in Chunk(h) THEN @[i] + 1 ELSE @[i]]]
  BY DEF GiveToKernel
<1>5. DOMAIN tries = Tasks
  BY DEF WorkInv, TypeInv, TypeOK
<1> HIDE DEF t, o, p
<1>6. o + 1 \in Pages(t) /\ hi \in Pages(t)
  BY <1>2
<1>7. \A i \in Pages(t) : i \in Chunk(h) <=> i \in (o + 1)..hi
  BY <1>2, <1>3
<1>8. \A i \in Pages(t) : tries[t][i] = IF i <= o THEN 1 ELSE 0
  BY <1>1 DEF Tried
<1>9. \A i \in Pages(t) : tries[t][i] = 0 <=> i >= o + 1
  BY <1>2, <1>8
<1>10. \A i \in (o + 1)..hi : i \in Pages(t) /\ tries[t][i] = 0
  BY <1>2, <1>8
<1> HIDE DEF hi
<1>11. tries' = [tries EXCEPT ![t] = [i \in Pages(t) |-> IF i \in (o + 1)..hi THEN 1 ELSE @[i]]]
  <2>1. [i \in Pages(t) |-> IF i \in Chunk(h) THEN tries[t][i] + 1 ELSE tries[t][i]]
         = [i \in Pages(t) |-> IF i \in (o + 1)..hi THEN 1 ELSE tries[t][i]]
    BY <1>7, <1>10
  <2> QED
    BY <1>4, <1>5, <2>1
<1>12. Pool!HandOver(t, (o + 1)..hi)
  BY <1>10, <1>11 DEF Pool!HandOver, Pool!Pages, Pages
<1> QED
  BY <1>6, <1>9, <1>12 DEF t

\* Every step of the mover is a step of TaskPool, or changes nothing it sees.
LEMMA PoolSimulation == WorkInv /\ WorkInv' /\ [Next]_vars => PoolStep
<1> SUFFICES ASSUME WorkInv, WorkInv', [Next]_vars
             PROVE  PoolStep
  OBVIOUS
<1>0. /\ TypeInv /\ TypeInv' /\ Accounts /\ Accounts'
      /\ outcome \in [Tasks -> Outcomes] /\ tasks \in Seq(Tasks)
      /\ cur \in [Handlers -> Tasks \cup {None}]
  BY DEF WorkInv, TypeInv, TypeOK
<1> HIDE DEF phase
<1>1. ASSUME UNCHANGED <<outcome, cur, tries>> PROVE PoolStep
  BY <1>1, SamePhase DEF PoolStep
<1>2. ASSUME NEW c \in Clients, NEW t \in Tasks, AddTask(c, t)
      PROVE  PoolStep
  <2>1. /\ outcome[t] = "new" /\ outcome' = [outcome EXCEPT ![t] = "open"]
        /\ tasks' = Append(tasks, t)
        /\ cur' = cur /\ tries' = tries
    BY <1>2 DEF AddTask, workVars
  <2>2. \A h \in Handlers : cur[h] # t
    BY <1>0, <2>1 DEF Accounts
  <2>3. t \notin InFlight' /\ \A u \in Tasks : u \in InFlight' <=> u \in InFlight
    BY <1>0, <2>1, <2>2, Held DEF InFlight
  <2>4. phase[t] = "new" /\ phase'[t] = "queued"
    BY <1>0, <2>1, <2>3 DEF phase
  <2>5. Pool!Submit(t)
    BY <1>0, <2>1, <2>3, <2>4, PhaseGoes DEF Pool!Submit
  <2> QED
    BY <2>5 DEF PoolStep, Pool!Next
<1>3. ASSUME NEW c \in Clients, NEW i \in DOMAIN tasks, RemoveTask(c, i)
      PROVE  PoolStep
  <2> DEFINE t == tasks[i]
  <2>1. /\ outcome' = [outcome EXCEPT ![t] = "removed"]
        /\ cur' = cur /\ tries' = tries
    BY <1>3 DEF RemoveTask, workVars
  <2>2. t \in Tasks /\ t \in Range(tasks)
    BY <1>0, RemoveAtElements
  <2> HIDE DEF t
  <2>3. t \notin InFlight /\ outcome[t] = "open"
    BY <1>0, <2>2, Held DEF Accounts
  <2>4. phase[t] = "queued" /\ phase'[t] = "removed"
    BY <1>0, <2>1, <2>2, <2>3 DEF phase
  <2>5. \A u \in Tasks : u \in InFlight' <=> u \in InFlight
    BY <2>1 DEF InFlight
  <2>6. Pool!Remove(t)
    BY <1>0, <2>1, <2>2, <2>4, <2>5, PhaseGoes DEF Pool!Remove
  <2> QED
    BY <2>2, <2>6 DEF PoolStep, Pool!Next
<1>4. ASSUME NEW h \in Handlers, HandlerPop(h)
      PROVE  PoolStep
  <2>1. CASE config = None \/ tasks = <<>>
    BY <1>1, <1>4, <2>1 DEF HandlerPop, workVars
  <2>2. CASE ~(config = None \/ tasks = <<>>)
    <3> DEFINE t == Last(tasks)
    <3>1. /\ hpc[h] = "pop" /\ cur' = [cur EXCEPT ![h] = t]
          /\ outcome' = outcome /\ tries' = tries
      BY <1>4, <2>2 DEF HandlerPop, HandlerGoes
    <3>2. t \in Tasks /\ t \in Range(tasks)
      <4>1. tasks \in Seq(Tasks) /\ tasks # <<>>
        BY <1>0, <2>2
      <4>2. t \in Tasks /\ Range(tasks) = Range(Front(tasks)) \cup {t}
        BY <4>1, FrontLastElements
      <4> QED
        BY <4>2
    <3> HIDE DEF t
    <3>3. t \notin InFlight /\ outcome[t] = "open" /\ cur[h] = None
      BY <1>0, <3>1, <3>2, Held DEF Accounts, TypeInv, HandlersHoldTasks
    <3>4. \A u \in Tasks : u \in InFlight' <=> (u = t \/ u \in InFlight)
      <4>1. \A g \in Handlers : cur'[g] = IF g = h THEN t ELSE cur[g]
        BY <1>0, <3>1
      <4>2. \A u \in Tasks : (\E g \in Handlers : cur'[g] = u)
                                <=> u = t \/ \E g \in Handlers : cur[g] = u
        BY <3>3, <4>1, ConstantsAssumption
      <4>3. \A u \in Tasks : u \in InFlight' <=> \E g \in Handlers : cur'[g] = u
        BY <4>1, ConstantsAssumption DEF InFlight
      <4> QED
        BY <1>0, <4>2, <4>3, Held
    <3>5. phase[t] = "queued" /\ phase'[t] = "moving"
      BY <3>1, <3>2, <3>3, <3>4 DEF phase
    <3>6. Pool!Take(t)
      BY <1>0, <3>1, <3>2, <3>4, <3>5, PhaseGoes DEF Pool!Take
    <3> QED
      BY <3>2, <3>6 DEF PoolStep, Pool!Next
  <2> QED
    BY <2>1, <2>2
\* A handler lets its task go, as done or as dropped.
<1>5. ASSUME NEW h \in Handlers, NEW from \in {"move", "offset"},
             NEW how \in {"done", "dropped"}, Leave(h, from, how)
      PROVE  cur[h] \in Tasks /\ Pool!Goes(cur[h], "moving", how)
  <2>1. /\ hpc[h] = from /\ cur' = [cur EXCEPT ![h] = None]
        /\ outcome' = [outcome EXCEPT ![cur[h]] = how]
    BY <1>5 DEF Leave, HandlerGoes, Release
  <2>2. cur[h] \in Tasks
    BY <2>1, MovingTask
  <2>3. phase'[cur[h]] = how
    BY <1>0, <2>1, <2>2 DEF phase
  <2>4. \A u \in Tasks : u # cur[h] => outcome'[u] = outcome[u]
    BY <1>0, <2>1
  <2> QED
    BY <1>0, <2>1, <2>2, <2>3, <2>4, HandlerGoesOn
<1>6. ASSUME NEW h \in Handlers, HandleTaskEmpty(h)
      PROVE  PoolStep
  <2>1. cur[h] \in Tasks /\ Pool!Goes(cur[h], "moving", "done") /\ tries' = tries
    BY <1>5, <1>6 DEF HandleTaskEmpty
  <2>2. Tried(cur[h], offset[cur[h]]) /\ ~(offset[cur[h]] < PageCount[cur[h]])
    BY <1>6, MovingTask DEF HandleTaskEmpty, PagesLeft
  <2>3. offset[cur[h]] \in Nat /\ PageCount[cur[h]] \in Nat
    BY <2>1, ConstantsAssumption DEF WorkInv, TypeInv, TypeOK
  <2>4. \A i \in Pool!Pages(cur[h]) : tries[cur[h]][i] = 1
    BY <2>2, <2>3 DEF Tried, Pages, Pool!Pages
  <2> QED
    BY <2>1, <2>4 DEF PoolStep, Pool!Next, Pool!Finish
<1>7. ASSUME NEW h \in Handlers, HandleTaskBlocked(h)
      PROVE  PoolStep
  <2>1. cur[h] \in Tasks /\ Pool!Goes(cur[h], "moving", "dropped") /\ tries' = tries
    BY <1>5, <1>7 DEF HandleTaskBlocked
  <2> QED
    BY <2>1 DEF PoolStep, Pool!Next, Pool!Drop
<1>8. ASSUME NEW h \in Handlers, HandleTaskError(h)
      PROVE  PoolStep
  <2>1. cur[h] \in Tasks /\ Pool!Goes(cur[h], "moving", "dropped")
    BY <1>5, <1>8 DEF HandleTaskError
  <2>2. PICK lo, hi \in Pages(cur[h]) : Pool!HandOver(cur[h], lo..hi)
    BY <1>8, MovesChunk DEF HandleTaskError
  <2>3. lo..hi \in SUBSET Pool!Pages(cur[h])
    <3>1. PageCount[cur[h]] \in Nat
      BY <2>1, ConstantsAssumption
    <3> QED
      BY <2>2, <3>1 DEF Pages, Pool!Pages
  <2>4. Pool!Drop(cur[h])
    BY <2>1, <2>2, <2>3 DEF Pool!Drop
  <2> QED
    BY <2>1, <2>4 DEF PoolStep, Pool!Next
<1>9. ASSUME NEW h \in Handlers, HandleTaskMove(h)
      PROVE  PoolStep
  <2>1. /\ hpc[h] = "move" /\ GiveToKernel(h) /\ PagesLeft(h) /\ rate[h] > 0
        /\ outcome' = outcome /\ cur' = cur
    BY <1>9 DEF HandleTaskMove, workVars
  <2>2. cur[h] \in Tasks /\ outcome[cur[h]] = "open"
    BY <2>1, MovingTask
  <2>3. phase[cur[h]] = "moving"
    BY <1>0, <2>2, Held DEF phase
  <2>4. PICK lo, hi \in Pages(cur[h]) :
            /\ \A i \in Pages(cur[h]) : tries[cur[h]][i] = 0 <=> i >= lo
            /\ Pool!HandOver(cur[h], lo..hi)
    BY <2>1, MovesChunk
  <2>5. phase' = phase
    BY <2>1, SamePhase
  <2>6. Pages(cur[h]) = Pool!Pages(cur[h])
    BY DEF Pages, Pool!Pages
  <2>7. Pool!Move(cur[h], lo, hi)
    BY <2>3, <2>4, <2>5, <2>6 DEF Pool!Move
  <2> QED
    BY <2>2, <2>4, <2>6, <2>7 DEF PoolStep, Pool!Next
<1>10. ASSUME NEW h \in Handlers, HandleTaskOffset(h)
       PROVE  PoolStep
  <2>1. CASE UNCHANGED <<workVars, outcome>>
    BY <1>1, <1>10, <2>1 DEF HandleTaskOffset, workVars
  <2>2. CASE PageCount[cur[h]] <= rate[h] /\ Leave(h, "offset", "done")
    <3>1. cur[h] \in Tasks /\ Pool!Goes(cur[h], "moving", "done") /\ tries' = tries
      BY <1>5, <1>10, <2>2 DEF HandleTaskOffset
    <3>2. Tried(cur[h], offset[cur[h]] + rate[h])
      BY <1>10, MovingTask DEF HandleTaskOffset
    <3>3. offset[cur[h]] \in Nat /\ PageCount[cur[h]] \in Nat /\ rate[h] \in Nat
      BY <3>1, ConstantsAssumption DEF WorkInv, TypeInv, TypeOK
    <3>4. \A i \in Pool!Pages(cur[h]) : tries[cur[h]][i] = 1
      BY <2>2, <3>2, <3>3 DEF Tried, Pages, Pool!Pages
    <3> QED
      BY <3>1, <3>4 DEF PoolStep, Pool!Next, Pool!Finish
  <2> QED
    BY <1>10, <2>1, <2>2 DEF HandleTaskOffset
<1>11. ASSUME NEW h \in Handlers, HandlerAppend(h)
       PROVE  PoolStep
  <2>1. /\ hpc[h] = "append" /\ cur' = [cur EXCEPT ![h] = None]
        /\ outcome' = outcome /\ tries' = tries
    BY <1>11 DEF HandlerAppend, HandlerGoes, Release
  <2>2. /\ cur[h] \in Tasks /\ outcome[cur[h]] = "open"
        /\ \A g \in Handlers : g # h => cur[g] # cur[h]
    BY <2>1, MovingTask
  <2>3. cur[h] \notin InFlight'
    BY <1>0, <2>1, <2>2 DEF InFlight
  <2>4. phase'[cur[h]] = "queued"
    BY <2>1, <2>2, <2>3 DEF phase
  <2>5. Pool!Requeue(cur[h])
    BY <1>0, <2>1, <2>2, <2>4, HandlerGoesOn DEF Pool!Requeue
  <2> QED
    BY <2>2, <2>5 DEF PoolStep, Pool!Next
<1>12. ASSUME NEW c \in Clients,
             \/ \E r \in Rates : SetConfig(c, r)
             \/ Start(c) \/ StartUnconfigured(c) \/ StartDefault(c) \/ StartRun(c)
             \/ Stop(c) \/ StopSend(c) \/ Pause(c) \/ Continue(c) \/ Send(c)
             \/ \E thss \in WaitSets : Wait(c, thss)
       PROVE  PoolStep
  <2>1. UNCHANGED <<taskVars, workVars>>
    BY <1>12 DEF SetConfig, Start, StartUnconfigured, StartDefault, StartRun, Stop, StopSend,
                 Pause, Continue, Send, Wait
  <2> QED
    BY <1>1, <2>1 DEF taskVars, workVars
<1>13. ASSUME NEW h \in Handlers,
             \/ \E from, to \in HandlerPCs, s \in Statuses : HandlerSets(h, from, s, to)
             \/ HandlerReceive(h) \/ HandlerSelect(h)
       PROVE  PoolStep
  <2>1. UNCHANGED <<taskVars, workVars>>
    BY <1>13 DEF HandlerSets, HandlerReceive, HandlerSelect
  <2> QED
    BY <1>1, <2>1 DEF taskVars, workVars
<1>14. CASE UNCHANGED vars
  BY <1>1, <1>14 DEF vars
<1> QED
  BY <1>2, <1>3, <1>4, <1>6, <1>7, <1>8, <1>9, <1>10, <1>11, <1>12, <1>13, <1>14, NextSteps

\* The mover implements TaskPool: whatever the clients and the handlers do, no
\* page of a task is given to the kernel twice nor skipped, and a task that
\* ends as done had all its pages given.
THEOREM ImplementsTaskPool == Spec => KeepsTaskPromise
<1>1. Init => Pool!Init
  <2> SUFFICES ASSUME Init PROVE Pool!Init
    OBVIOUS
  <2>1. phase = [t \in Tasks |-> "new"]
    BY DEF Init, phase
  <2>2. tries = [t \in Tasks |-> [i \in Pages(t) |-> 0]]
    BY DEF Init
  <2> QED
    BY <2>1, <2>2 DEF Pool!Init, Pool!Pages, Pages
<1>2. WorkInv /\ WorkInv' /\ [Next]_vars => [Pool!Next]_<<phase, tries>>
  BY PoolSimulation DEF PoolStep
<1> QED
  BY <1>1, <1>2, WorkInvariant, PTL DEF Spec, KeepsTaskPromise, Pool!Spec

-----------------------------------------------------------------------------
(* Handlers and the commands to quit *)

Live == {h \in Handlers : hpc[h] \notin {"off", "exit"}}
Quits(s) == {i \in DOMAIN s : s[i] = "quit"}
Stopping == {c \in Clients : cpc[c] = "stopping"}

\* A client that is registered for a status waits, and is registered once: being told
\* of a status never takes a client out of a Stop.
WaitersWait ==
  \A v, w \in DOMAIN waitChan :
    /\ cpc[waitChan[w]] = "waiting"
    /\ waitChan[v] = waitChan[w] => v = w

BalanceInv == TypeInv /\ WaitersWait /\ HandlerBalance

LEMMA FiniteParts ==
  ASSUME TypeInv
  PROVE  /\ IsFiniteSet(Live) /\ Cardinality(Live) \in Nat
         /\ IsFiniteSet(Stopping) /\ Cardinality(Stopping) \in Nat
  BY ConstantsAssumption, FS_Subset, FS_CardinalityType DEF Live, Stopping

LEMMA FiniteQuits ==
  ASSUME NEW S, NEW s \in Seq(S)
  PROVE  IsFiniteSet(Quits(s)) /\ Cardinality(Quits(s)) \in Nat
<1>1. Len(s) \in Nat /\ DOMAIN s = 1..Len(s)
  BY LenProperties
<1>2. IsFiniteSet(1..Len(s))
  BY <1>1, FS_Interval
<1>3. Quits(s) \in SUBSET (1..Len(s))
  BY <1>1 DEF Quits
<1> QED BY <1>2, <1>3, FS_Subset, FS_CardinalityType

\* A command is sent.
LEMMA QuitsOfAppend ==
  ASSUME NEW S, NEW s \in Seq(S), NEW x \in S
  PROVE  Cardinality(Quits(Append(s, x))) = Cardinality(Quits(s)) + (IF x = "quit" THEN 1 ELSE 0)
<1>1. /\ Append(s, x) \in Seq(S) /\ Len(Append(s, x)) = Len(s) + 1
      /\ Append(s, x)[Len(s) + 1] = x /\ \A i \in 1..Len(s) : Append(s, x)[i] = s[i]
  BY AppendProperties
<1>2. /\ Len(s) \in Nat /\ DOMAIN s = 1..Len(s)
      /\ DOMAIN Append(s, x) = 1..(Len(s) + 1)
  BY <1>1, LenProperties
<1>3. CASE x = "quit"
  <2>1. Quits(Append(s, x)) = Quits(s) \cup {Len(s) + 1}
    BY <1>1, <1>2, <1>3 DEF Quits
  <2>2. Len(s) + 1 \notin Quits(s)
    BY <1>2 DEF Quits
  <2> QED BY <1>3, <2>1, <2>2, FiniteQuits, FS_AddElement
<1>4. CASE x # "quit"
  <2>1. Quits(Append(s, x)) = Quits(s)
    BY <1>1, <1>2, <1>4 DEF Quits
  <2> QED BY <1>4, <2>1, FiniteQuits
<1> QED BY <1>3, <1>4

\* A command is received.
LEMMA QuitsOfTail ==
  ASSUME NEW S, NEW s \in Seq(S), s # <<>>
  PROVE  Cardinality(Quits(s)) = Cardinality(Quits(Tail(s))) + (IF Head(s) = "quit" THEN 1 ELSE 0)
<1>1. /\ Tail(s) \in Seq(S) /\ Len(Tail(s)) = Len(s) - 1 /\ Head(s) = s[1]
      /\ \A i \in 1..(Len(s) - 1) : Tail(s)[i] = s[i + 1]
  BY HeadTailProperties
<1>2. /\ Len(s) \in Nat \ {0} /\ DOMAIN s = 1..Len(s)
      /\ DOMAIN Tail(s) = 1..(Len(s) - 1)
  BY <1>1, LenProperties, EmptySeq
<1> DEFINE later == Quits(s) \ {1}
           down == [i \in later |-> i - 1]
<1>3. later = {i \in 2..Len(s) : s[i] = "quit"}
  BY <1>2 DEF Quits
<1>4. Quits(Tail(s)) = {i \in 1..(Len(s) - 1) : s[i + 1] = "quit"}
  BY <1>1, <1>2 DEF Quits
<1>5. down \in Bijection(later, Quits(Tail(s)))
  <2>1. down \in [later -> Quits(Tail(s))]
    BY <1>2, <1>3, <1>4
  <2>2. \A i, j \in later : down[i] = down[j] => i = j
    BY <1>2, <1>3
  <2>3. \A j \in Quits(Tail(s)) : \E i \in later : down[i] = j
    <3>1. ASSUME NEW j \in Quits(Tail(s))
          PROVE  j + 1 \in later /\ down[j + 1] = j
      BY <1>2, <1>3, <1>4
    <3> QED BY <3>1
  <2> QED BY <2>1, <2>2, <2>3 DEF Bijection, Injection, Surjection, IsInjective
<1>6. IsFiniteSet(later) /\ Cardinality(later) = Cardinality(Quits(s)) - (IF 1 \in Quits(s) THEN 1 ELSE 0)
  BY FiniteQuits, FS_RemoveElement
<1>7. Cardinality(Quits(Tail(s))) = Cardinality(later)
  BY <1>5, <1>6, FS_Bijection DEF ExistsBijection
<1>8. 1 \in Quits(s) <=> Head(s) = "quit"
  BY <1>1, <1>2 DEF Quits
<1> QED BY <1>6, <1>7, <1>8, FiniteQuits

LEMMA BalanceInit == Init => WaitersWait /\ HandlerBalance
<1> SUFFICES ASSUME Init PROVE WaitersWait /\ HandlerBalance
  OBVIOUS
<1>1. Live = {} /\ Stopping = {} /\ running = FALSE
  BY DEF Init, Live, Stopping
<1>2. Quits(chan) = {}
  BY DOMAIN <<>> = {} DEF Init, Quits
<1>3. Cardinality({}) = 0
  BY FS_EmptySet
<1>4. HandlerBalance
  BY <1>1, <1>2, <1>3 DEF HandlerBalance, Live, Quits, Stopping
<1>5. WaitersWait
  BY DEF Init, WaitersWait
<1> QED BY <1>4, <1>5

\* A client takes a step of its own: it did not wait, and others stay where they are.
LEMMA ClientsWait ==
  ASSUME WaitersWait, TypeInv, NEW c \in Clients, NEW from, NEW to, from # "waiting",
         ClientGoes(c, from, to), UNCHANGED waitChan
  PROVE  WaitersWait'
  BY DEF WaitersWait, TypeInv, TypeOK, ClientGoes

LEMMA StillWaiting ==
  ASSUME WaitersWait, UNCHANGED <<cpc, waitChan>>
  PROVE  WaitersWait'
  BY DEF WaitersWait

LEMMA WaitersStep ==
  ASSUME TypeInv, WaitersWait, [Next]_vars
  PROVE  WaitersWait'
<1> USE DEF waitVars
<1>1. ASSUME NEW c \in Clients, StartUnconfigured(c) \/ StartDefault(c) \/ StartRun(c) \/ Stop(c)
                 \/ StopSend(c) \/ Pause(c) \/ Continue(c) \/ Send(c) \/ \E t \in Tasks : AddTask(c, t)
      PROVE  WaitersWait'
  <2>1. UNCHANGED waitChan
    BY <1>1 DEF StartUnconfigured, StartDefault, StartRun, Stop, StopSend, Pause, Continue, Send, AddTask
  <2>2. \E from \in ClientPCs \ {"waiting"}, to \in ClientPCs : ClientGoes(c, from, to)
    BY <1>1 DEF StartUnconfigured, StartDefault, StartRun, Stop, StopSend, Pause, Continue, Send, AddTask,
      ClientPCs
  <2> QED BY <2>1, <2>2, ClientsWait
<1>2. ASSUME NEW c \in Clients, \/ \E r \in Rates : SetConfig(c, r)
                                \/ Start(c) \/ \E i \in DOMAIN tasks : RemoveTask(c, i)
      PROVE  WaitersWait'
  BY <1>2, StillWaiting DEF SetConfig, Start, RemoveTask
<1>3. ASSUME NEW c \in Clients, NEW thss \in WaitSets, Wait(c, thss)
      PROVE  WaitersWait'
  <2>1. PICK w : /\ w \in FreshWaitIds
                 /\ waitChan' = [v \in DOMAIN waitChan \cup {w} |-> IF v = w THEN c ELSE waitChan[v]]
    BY <1>3 DEF Wait, RegisterWait
  <2>2. w \notin DOMAIN waitChan /\ cpc[c] = "idle" /\ cpc' = [cpc EXCEPT ![c] = "waiting"]
    BY <1>3, <2>1 DEF Wait, FreshWaitIds, ClientGoes
  <2>3. \A v \in DOMAIN waitChan : waitChan[v] \in Clients /\ waitChan[v] # c
    BY <2>2 DEF WaitersWait, TypeInv, TypeOK
  <2>4. cpc \in [Clients -> ClientPCs]
    BY DEF TypeInv, TypeOK
  <2> QED BY <2>1, <2>2, <2>3, <2>4 DEF WaitersWait
<1>4. ASSUME NEW h \in Handlers, NEW from, NEW to, NEW s, HandlerSets(h, from, s, to)
      PROVE  WaitersWait'
  <2> DEFINE told == thsWaits[s] \cap DOMAIN waitChan
  <2>1. /\ waitChan' = [w \in DOMAIN waitChan \ told |-> waitChan[w]]
        /\ cpc' = [c \in Clients |-> IF \E w \in told : waitChan[w] = c THEN "idle" ELSE cpc[c]]
    BY <1>4 DEF HandlerSets, SetTaskHandlerStatus
  <2>2. \A w \in DOMAIN waitChan : waitChan[w] \in Clients
    BY DEF TypeInv, TypeOK
  <2> QED BY <2>1, <2>2 DEF WaitersWait
<1>5. ASSUME NEW h \in Handlers,
             \/ HandlerReceive(h) \/ HandlerPop(h)
             \/ HandleTaskEmpty(h) \/ HandleTaskBlocked(h) \/ HandleTaskError(h)
             \/ HandleTaskMove(h) \/ HandleTaskOffset(h) \/ HandlerAppend(h) \/ HandlerSelect(h)
      PROVE  WaitersWait'
  <2>1. UNCHANGED <<cpc, waitChan>>
    BY <1>5 DEF HandlerReceive, HandlerPop, HandleTaskEmpty, HandleTaskBlocked, HandleTaskError,
      HandleTaskMove, HandleTaskOffset, HandlerAppend, HandlerSelect
  <2> QED BY <2>1, StillWaiting
<1>6. CASE UNCHANGED vars
  BY <1>6, StillWaiting DEF vars
<1> QED BY <1>1, <1>2, <1>3, <1>4, <1>5, <1>6, NextSteps

\* The balance, of the parts it is made of.
LEMMA Balance ==
  HandlerBalance <=> Cardinality(Live) = Cardinality(Quits(chan)) + Cardinality(Stopping)
                                           + (IF running THEN 1 ELSE 0)
  BY Zenon DEF HandlerBalance, Live, Quits, Stopping

\* Nothing that counts has changed.
LEMMA SameBalance ==
  ASSUME HandlerBalance, Live' = Live, Stopping' = Stopping, running' = running,
         Cardinality(Quits(chan'))  = Cardinality(Quits(chan))
  PROVE  HandlerBalance'
  BY DEF HandlerBalance, Live, Quits, Stopping

\* A client that neither was in a Stop nor gets there.
LEMMA SameStopping ==
  ASSUME NEW c \in Clients, NEW from, NEW to, ClientGoes(c, from, to),
         from # "stopping", to # "stopping", TypeInv
  PROVE  Stopping' = Stopping
  BY DEF ClientGoes, Stopping, TypeInv, TypeOK

\* A handler that goes on reading commands, or has left already.
LEMMA SameLive ==
  ASSUME NEW h \in Handlers, NEW from, NEW to, HandlerGoes(h, from, to),
         from \in {"off", "exit"} <=> to \in {"off", "exit"}, TypeInv
  PROVE  Live' = Live
  BY DEF HandlerGoes, Live, TypeInv, TypeOK

LEMMA LaunchBalances ==
  ASSUME BalanceInv, LaunchHandler, Stopping' = Stopping, chan' = chan
  PROVE  HandlerBalance'
<1>1. CASE running
  <2>1. Live' = Live /\ running' = running
    BY <1>1 DEF LaunchHandler, Live
  <2> QED BY <2>1, SameBalance DEF BalanceInv
<1>2. CASE ~running
  <2>1. PICK h \in Handlers : HandlerGoes(h, "off", "start")
    BY <1>2 DEF LaunchHandler
  <2>2. Live' = Live \cup {h} /\ h \notin Live
    BY <2>1 DEF HandlerGoes, Live, BalanceInv, TypeInv, TypeOK
  <2>3. Cardinality(Live') = Cardinality(Live) + 1
    BY <2>2, FiniteParts, FS_AddElement DEF BalanceInv
  <2>4. running' = TRUE
    BY <1>2 DEF LaunchHandler
  <2>5. Cardinality(Quits(chan)) \in Nat /\ Cardinality(Stopping) \in Nat /\ Cardinality(Live) \in Nat
    BY FiniteParts, FiniteQuits DEF BalanceInv, TypeInv, TypeOK
  <2>6. HandlerBalance
    BY DEF BalanceInv
  <2>7. Quits(chan)' = Quits(chan)
    BY DEF Quits
  <2>8. Cardinality(Live') = Cardinality(Quits(chan)') + Cardinality(Stopping') + 1
    BY <1>2, <2>3, <2>5, <2>6, <2>7, Balance
  <2> QED BY <2>4, <2>8 DEF HandlerBalance, Live, Quits, Stopping
<1> QED BY <1>1, <1>2

LEMMA StopBalances ==
  ASSUME BalanceInv, NEW c \in Clients, Stop(c)
  PROVE  HandlerBalance'
<1>1. ClientGoes(c, "idle", "stopping") /\ running /\ running' = FALSE /\ UNCHANGED <<chan, hpc>>
  BY DEF Stop
<1>2. Stopping' = Stopping \cup {c} /\ c \notin Stopping
  BY <1>1 DEF ClientGoes, Stopping, BalanceInv, TypeInv, TypeOK
<1>3. Cardinality(Stopping') = Cardinality(Stopping) + 1
  BY <1>2, FiniteParts, FS_AddElement DEF BalanceInv
<1>4. Live' = Live /\ Quits(chan)' = Quits(chan)
  BY <1>1 DEF Live, Quits
<1>5. Cardinality(Quits(chan)) \in Nat /\ Cardinality(Stopping) \in Nat /\ Cardinality(Live) \in Nat
  BY FiniteParts, FiniteQuits DEF BalanceInv, TypeInv, TypeOK
<1>6. HandlerBalance
  BY DEF BalanceInv
<1>7. Cardinality(Live') = Cardinality(Quits(chan)') + Cardinality(Stopping') + 0
  BY <1>1, <1>3, <1>4, <1>5, <1>6, Balance
<1> QED BY <1>1, <1>7 DEF HandlerBalance, Live, Quits, Stopping

LEMMA StopSendBalances ==
  ASSUME BalanceInv, NEW c \in Clients, StopSend(c)
  PROVE  HandlerBalance'
<1>1. ClientGoes(c, "stopping", "idle") /\ chan' = Append(chan, "quit") /\ UNCHANGED <<running, hpc>>
  BY DEF StopSend
<1>2. Stopping' = Stopping \ {c} /\ c \in Stopping
  BY <1>1 DEF ClientGoes, Stopping, BalanceInv, TypeInv, TypeOK
<1>3. Cardinality(Stopping') = Cardinality(Stopping) - 1
  BY <1>2, FiniteParts, FS_RemoveElement DEF BalanceInv
<1>4. Cardinality(Quits(chan')) = Cardinality(Quits(chan)) + 1
  BY <1>1, QuitsOfAppend DEF BalanceInv, TypeInv, TypeOK
<1>5. Cardinality(Quits(chan)) \in Nat /\ Cardinality(Stopping) \in Nat /\ Cardinality(Live) \in Nat
  BY FiniteParts, FiniteQuits DEF BalanceInv, TypeInv, TypeOK
<1>6. HandlerBalance
  BY DEF BalanceInv
<1>7. Live' = Live
  BY <1>1 DEF Live
<1>8. Cardinality(Live') = Cardinality(Quits(chan')) + Cardinality(Stopping')
                             + (IF running' THEN 1 ELSE 0)
  BY <1>1, <1>3, <1>4, <1>5, <1>6, <1>7, Balance
<1> QED BY <1>8 DEF HandlerBalance, Live, Quits, Stopping

\* A handler takes a command from the channel: a quit makes it leave.
LEMMA ReceiveBalances ==
  ASSUME BalanceInv, NEW h \in Handlers, NEW from, NEW to, HandlerGoes(h, from, to),
         from \notin {"off", "exit"}, to # "off", to = "exit" <=> Head(chan) = "quit",
         chan # <<>>, chan' = Tail(chan), UNCHANGED <<cpc, running>>
  PROVE  HandlerBalance'
<1>1. Cardinality(Quits(chan)) = Cardinality(Quits(chan')) + (IF Head(chan) = "quit" THEN 1 ELSE 0)
  BY QuitsOfTail DEF BalanceInv, TypeInv, TypeOK
<1>2. Stopping' = Stopping
  BY DEF Stopping
<1>3. CASE to # "exit"
  <2>1. Live' = Live
    BY <1>3, SameLive DEF BalanceInv
  <2>2. Cardinality(Quits(chan')) = Cardinality(Quits(chan))
    <3>1. Cardinality(Quits(chan')) \in Nat
      <4>1. chan' \in Seq({"quit", "pause", "continue"})
        BY HeadTailProperties DEF BalanceInv, TypeInv, TypeOK
      <4> QED BY <4>1, FiniteQuits
    <3> QED BY <1>1, <1>3, <3>1
  <2> QED BY <1>2, <2>1, <2>2, SameBalance DEF BalanceInv
<1>4. CASE to = "exit"
  <2>1. Live' = Live \ {h} /\ h \in Live
    BY <1>4 DEF HandlerGoes, Live, BalanceInv, TypeInv, TypeOK
  <2>2. Cardinality(Live') = Cardinality(Live) - 1
    BY <2>1, FiniteParts, FS_RemoveElement DEF BalanceInv
  <2>3. Cardinality(Quits(chan)) \in Nat /\ Cardinality(Stopping) \in Nat /\ Cardinality(Live) \in Nat
    BY FiniteParts, FiniteQuits DEF BalanceInv, TypeInv, TypeOK
  <2>4. Cardinality(Quits(chan')) \in Nat
    <3>1. chan' \in Seq({"quit", "pause", "continue"})
      BY HeadTailProperties DEF BalanceInv, TypeInv, TypeOK
    <3> QED BY <3>1, FiniteQuits
  <2>5. HandlerBalance
    BY DEF BalanceInv
  <2>6. Cardinality(Live') = Cardinality(Quits(chan')) + Cardinality(Stopping')
                               + (IF running' THEN 1 ELSE 0)
    BY <1>1, <1>2, <1>4, <2>2, <2>3, <2>4, <2>5, Balance
  <2> QED BY <2>6 DEF HandlerBalance, Live, Quits, Stopping
<1> QED BY <1>3, <1>4

LEMMA BalanceStep ==
  ASSUME BalanceInv, [Next]_vars
  PROVE  HandlerBalance'
<1> USE DEF waitVars, taskVars, workVars
<1>1. ASSUME NEW c \in Clients, Start(c) \/ StartRun(c)
      PROVE  HandlerBalance'
  <2>1. LaunchHandler /\ chan' = chan
    BY <1>1 DEF Start, StartRun
  <2>2. Stopping' = Stopping
    <3>1. CASE Start(c)
      BY <3>1 DEF Start, Stopping
    <3>2. CASE StartRun(c)
      BY <3>2, SameStopping DEF StartRun, BalanceInv
    <3> QED BY <1>1, <3>1, <3>2
  <2> QED BY <2>1, <2>2, LaunchBalances
<1>2. ASSUME NEW c \in Clients, Stop(c) \/ StopSend(c)
      PROVE  HandlerBalance'
  BY <1>2, StopBalances, StopSendBalances
<1>3. ASSUME NEW c \in Clients, \/ StartUnconfigured(c) \/ StartDefault(c) \/ Pause(c) \/ Continue(c)
                                \/ (\E t \in Tasks : AddTask(c, t))
                                \/ \E thss \in WaitSets : Wait(c, thss)
      PROVE  HandlerBalance'
  <2>1. UNCHANGED <<chan, hpc, running>>
    BY <1>3 DEF StartUnconfigured, StartDefault, Pause, Continue, AddTask, Wait
  <2>2. \E from, to \in ClientPCs \ {"stopping"} : ClientGoes(c, from, to)
    BY <1>3 DEF StartUnconfigured, StartDefault, Pause, Continue, AddTask, Wait, ClientPCs
  <2>3. Stopping' = Stopping
    BY <2>2, SameStopping DEF BalanceInv
  <2> QED BY <2>1, <2>3, SameBalance DEF Live, BalanceInv
<1>4. ASSUME NEW c \in Clients, Send(c)
      PROVE  HandlerBalance'
  <2>1. PICK cmd \in {"pause", "continue"} : chan' = Append(chan, cmd)
    BY <1>4 DEF Send
  <2>2. UNCHANGED <<hpc, running>> /\ \E from \in {"send continue", "send pause"} : ClientGoes(c, from, "idle")
    BY <1>4 DEF Send
  <2>3. Stopping' = Stopping /\ Live' = Live
    BY <2>2, SameStopping DEF Live, BalanceInv
  <2>4. Cardinality(Quits(chan')) = Cardinality(Quits(chan))
    <3>1. Cardinality(Quits(chan)) \in Nat
      BY FiniteQuits DEF BalanceInv, TypeInv, TypeOK
    <3>2. chan \in Seq({"quit", "pause", "continue"})
      BY DEF BalanceInv, TypeInv, TypeOK
    <3> QED BY <2>1, <3>1, <3>2, QuitsOfAppend
  <2> QED BY <2>2, <2>3, <2>4, SameBalance DEF BalanceInv
<1>5. ASSUME NEW c \in Clients, (\E r \in Rates : SetConfig(c, r)) \/ \E i \in DOMAIN tasks : RemoveTask(c, i)
      PROVE  HandlerBalance'
  <2>1. UNCHANGED <<chan, hpc, running, cpc>>
    BY <1>5 DEF SetConfig, RemoveTask
  <2> QED BY <2>1, SameBalance DEF Live, Stopping, BalanceInv
<1>6. ASSUME NEW h \in Handlers, NEW from, NEW to, NEW s, HandlerSets(h, from, s, to),
             from \in {"off", "exit"} <=> to \in {"off", "exit"}
      PROVE  HandlerBalance'
  <2>1. UNCHANGED <<chan, running>> /\ Live' = Live
    BY <1>6, SameLive DEF HandlerSets, BalanceInv
  <2>2. cpc' = [c \in Clients |-> IF \E w \in thsWaits[s] \cap DOMAIN waitChan : waitChan[w] = c
                                  THEN "idle" ELSE cpc[c]]
    BY <1>6 DEF HandlerSets, SetTaskHandlerStatus
  <2>3. \A w \in DOMAIN waitChan : cpc[waitChan[w]] = "waiting"
    BY DEF BalanceInv, WaitersWait
  <2>4. Stopping' = Stopping
    BY <2>2, <2>3 DEF Stopping
  <2> QED BY <2>1, <2>4, SameBalance DEF BalanceInv
<1>7. ASSUME NEW h \in Handlers, HandlerReceive(h) \/ (HandlerSelect(h) /\ chan # <<>>)
      PROVE  HandlerBalance'
  <2>1. Head(chan) \in {"quit", "pause", "continue"} /\ chan # <<>>
    <3>1. chan # <<>>
      BY <1>7 DEF HandlerReceive
    <3> QED BY <3>1, HeadTailProperties DEF BalanceInv, TypeInv, TypeOK
  <2>2. chan' = Tail(chan) /\ UNCHANGED <<cpc, running>>
    BY <1>7 DEF HandlerReceive, HandlerSelect
  <2>3. CASE HandlerReceive(h)
    <3>1. HandlerGoes(h, "receive", AfterReceive[Head(chan)])
      BY <2>3 DEF HandlerReceive
    <3>2. AfterReceive[Head(chan)] # "off" /\ (AfterReceive[Head(chan)] = "exit" <=> Head(chan) = "quit")
      BY <2>1 DEF AfterReceive
    <3> QED BY <2>1, <2>2, <3>1, <3>2, ReceiveBalances
  <2>4. CASE HandlerSelect(h)
    <3>1. HandlerGoes(h, "select", AfterSelect[Head(chan)])
      BY <2>1, <2>4 DEF HandlerSelect
    <3>2. AfterSelect[Head(chan)] # "off" /\ (AfterSelect[Head(chan)] = "exit" <=> Head(chan) = "quit")
      BY <2>1 DEF AfterSelect
    <3> QED BY <2>1, <2>2, <3>1, <3>2, ReceiveBalances
  <2> QED BY <1>7, <2>3, <2>4
<1>8. ASSUME NEW h \in Handlers,
             \/ HandlerPop(h) \/ HandleTaskEmpty(h) \/ HandleTaskBlocked(h) \/ HandleTaskError(h)
             \/ HandleTaskMove(h) \/ HandleTaskOffset(h) \/ HandlerAppend(h)
             \/ (HandlerSelect(h) /\ chan = <<>>)
      PROVE  HandlerBalance'
  <2>1. UNCHANGED <<chan, running, cpc>>
    BY <1>8 DEF HandlerPop, HandleTaskEmpty, HandleTaskBlocked, HandleTaskError, HandleTaskMove,
      HandleTaskOffset, HandlerAppend, HandlerSelect
  <2>2. \E from, to \in HandlerPCs \ {"off", "exit"} : HandlerGoes(h, from, to)
    BY <1>8 DEF HandlerPop, HandleTaskEmpty, HandleTaskBlocked, HandleTaskError, HandleTaskMove,
      HandleTaskOffset, HandlerAppend, HandlerSelect, Leave, HandlerPCs
  <2>3. Live' = Live
    BY <2>2, SameLive DEF BalanceInv
  <2> QED BY <2>1, <2>3, SameBalance DEF Stopping, BalanceInv
<1>9. CASE UNCHANGED vars
  <2>1. UNCHANGED <<chan, hpc, running, cpc>>
    BY <1>9 DEF vars
  <2> QED BY <2>1, SameBalance DEF Live, Stopping, BalanceInv
<1>10. ASSUME NEW h \in Handlers, \/ HandlerStart(h) \/ HandlerBusy(h) \/ HandlerAllDone(h)
                                  \/ HandlerPause(h) \/ HandlerExit(h)
       PROVE  HandlerBalance'
  BY <1>6, <1>10 DEF HandlerStart, HandlerBusy, HandlerAllDone, HandlerPause, HandlerExit
<1>11. CASE \E c \in Clients : ClientCall(c) \/ ClientStep(c)
  BY <1>1, <1>2, <1>3, <1>4, <1>5, <1>11, Zenon DEF ClientCall, ClientStep
<1>12. CASE \E h \in Handlers : HandlerStep(h)
  BY <1>7, <1>8, <1>10, <1>12, Zenon DEF HandlerStep
<1> QED BY <1>9, <1>11, <1>12 DEF Next

\* For any number of clients and handlers and any capacity of the channel, whatever the
\* order in which clients start and stop the mover and handlers read their commands: the
\* handlers that go on reading outnumber the quits on their way by one while the mover
\* runs and by none while it does not (Start, Stop, taskHandler).
THEOREM HandlersBalance == Spec => []HandlerBalance
<1>1. Init => BalanceInv
  BY TypeInit, BalanceInit DEF BalanceInv
<1>2. BalanceInv /\ [Next]_vars => BalanceInv'
  BY TypeStep, WaitersStep, BalanceStep DEF BalanceInv
<1>3. BalanceInv => HandlerBalance
  BY DEF BalanceInv
<1> QED BY <1>1, <1>2, <1>3, PTL DEF Spec

-----------------------------------------------------------------------------
(* A mover that nobody stops *)

NobodyStops == \A c \in Clients : "stop" \notin Ops[c]

\* Where a handler is that has said it is busy.
Working == {"pop", "move", "offset", "append", "select", "alldone", "pause"}

\* There is at most one handler, it never quits, and its status is busy while it works.
AloneInv ==
  /\ TypeInv
  /\ chan \in Seq({"pause", "continue"})
  /\ \A c \in Clients : cpc[c] # "stopping"
  /\ \A h \in Handlers : hpc[h] # "exit"
  /\ \A h \in Handlers : hpc[h] # "off" => running /\ \A g \in Handlers \ {h} : hpc[g] = "off"
  /\ \A h \in Handlers : hpc[h] \in Working => ths = "busy"

LEMMA AloneInit == Init => AloneInv
<1> SUFFICES ASSUME Init PROVE AloneInv
  OBVIOUS
<1>1. chan \in Seq({"pause", "continue"})
  BY EmptySeq DEF Init
<1> QED BY <1>1, TypeInit DEF Init, AloneInv, Working

\* The one handler goes on.
LEMMA AloneHandler ==
  ASSUME AloneInv, TypeInv', NEW h \in Handlers, NEW from, NEW to, HandlerGoes(h, from, to),
         from # "off", to \notin {"off", "exit"}, running' = running,
         chan' \in Seq({"pause", "continue"}), \A c \in Clients : cpc'[c] # "stopping",
         to \in Working => ths' = "busy"
  PROVE  AloneInv'
  BY DEF AloneInv, HandlerGoes, Working, TypeInv, TypeOK

\* Clients, with no influence on the handler.
LEMMA AloneClient ==
  ASSUME AloneInv, TypeInv', UNCHANGED <<hpc, ths, running>>,
         chan' \in Seq({"pause", "continue"}), \A c \in Clients : cpc'[c] # "stopping"
  PROVE  AloneInv'
  BY DEF AloneInv

LEMMA AloneStep ==
  ASSUME NobodyStops, AloneInv, TypeInv', [Next]_vars
  PROVE  AloneInv'
<1> USE DEF waitVars, taskVars, workVars
<1>1. ASSUME NEW c \in Clients, Start(c) \/ StartRun(c)
      PROVE  AloneInv'
  <2>1. LaunchHandler /\ UNCHANGED <<chan, ths>>
    BY <1>1 DEF Start, StartRun
  <2>2. \A d \in Clients : cpc'[d] # "stopping"
    BY <1>1 DEF Start, StartRun, ClientGoes, AloneInv, TypeInv, TypeOK
  <2>3. CASE running
    <3>1. UNCHANGED <<running, hpc>>
      BY <2>1, <2>3 DEF LaunchHandler
    <3>2. chan' \in Seq({"pause", "continue"})
      BY <2>1 DEF AloneInv
    <3> QED BY <2>1, <2>2, <3>1, <3>2, AloneClient
  <2>4. CASE ~running
    <3>1. PICK h \in Handlers : HandlerGoes(h, "off", "start")
      BY <2>1, <2>4 DEF LaunchHandler
    <3>2. running' = TRUE
      BY <2>1, <2>4 DEF LaunchHandler
    <3>3. \A g \in Handlers : hpc[g] = "off"
      BY <2>4 DEF AloneInv
    <3>4. hpc' = [hpc EXCEPT ![h] = "start"] /\ hpc \in [Handlers -> HandlerPCs]
      BY <3>1 DEF HandlerGoes, AloneInv, TypeInv, TypeOK
    <3>5. chan' \in Seq({"pause", "continue"})
      BY <2>1 DEF AloneInv
    <3> QED BY <2>1, <2>2, <3>2, <3>3, <3>4, <3>5 DEF AloneInv, Working
  <2> QED BY <2>3, <2>4
<1>2. ASSUME NEW c \in Clients, Stop(c) \/ StopSend(c)
      PROVE  FALSE
  BY <1>2 DEF Stop, StopSend, ClientGoes, NobodyStops, AloneInv
<1>3. ASSUME NEW c \in Clients, \/ StartUnconfigured(c) \/ StartDefault(c) \/ Pause(c) \/ Continue(c)
                                \/ (\E t \in Tasks : AddTask(c, t))
                                \/ \E thss \in WaitSets : Wait(c, thss)
      PROVE  AloneInv'
  <2>1. UNCHANGED <<chan, hpc, ths, running>>
    BY <1>3 DEF StartUnconfigured, StartDefault, Pause, Continue, AddTask, Wait
  <2>2. \E from, to \in ClientPCs \ {"stopping"} : ClientGoes(c, from, to)
    BY <1>3 DEF StartUnconfigured, StartDefault, Pause, Continue, AddTask, Wait, ClientPCs
  <2>3. \A d \in Clients : cpc'[d] # "stopping"
    BY <2>2 DEF ClientGoes, AloneInv, TypeInv, TypeOK
  <2>4. chan' \in Seq({"pause", "continue"})
    BY <2>1 DEF AloneInv
  <2> QED BY <2>1, <2>3, <2>4, AloneClient
<1>4. ASSUME NEW c \in Clients, Send(c)
      PROVE  AloneInv'
  <2>1. PICK cmd \in {"pause", "continue"} : chan' = Append(chan, cmd)
    BY <1>4 DEF Send
  <2>2. chan' \in Seq({"pause", "continue"})
    BY <2>1, AppendProperties DEF AloneInv
  <2>3. UNCHANGED <<hpc, ths, running>>
    BY <1>4 DEF Send
  <2>4. \A d \in Clients : cpc'[d] # "stopping"
    BY <1>4 DEF Send, ClientGoes, AloneInv, TypeInv, TypeOK
  <2> QED BY <2>2, <2>3, <2>4, AloneClient
<1>5. ASSUME NEW c \in Clients, (\E r \in Rates : SetConfig(c, r)) \/ \E i \in DOMAIN tasks : RemoveTask(c, i)
      PROVE  AloneInv'
  <2>1. UNCHANGED <<chan, hpc, ths, running, cpc>>
    BY <1>5 DEF SetConfig, RemoveTask
  <2> QED BY <2>1, AloneClient DEF AloneInv
<1>6. ASSUME NEW h \in Handlers, NEW from, NEW to, NEW s, HandlerSets(h, from, s, to),
             from # "off", to \notin {"off", "exit"}, to \in Working => s = "busy"
      PROVE  AloneInv'
  <2>1. UNCHANGED <<chan, running>> /\ ths' = s /\ HandlerGoes(h, from, to)
    BY <1>6 DEF HandlerSets, SetTaskHandlerStatus
  <2>2. \A c \in Clients : cpc'[c] \in {"idle", cpc[c]}
    BY <1>6 DEF HandlerSets, SetTaskHandlerStatus
  <2>3. chan' \in Seq({"pause", "continue"}) /\ \A c \in Clients : cpc'[c] # "stopping"
    BY <2>1, <2>2 DEF AloneInv
  <2> QED BY <1>6, <2>1, <2>3, AloneHandler
<1>7. ASSUME NEW h \in Handlers, HandlerStart(h) \/ HandlerBusy(h) \/ HandlerAllDone(h) \/ HandlerPause(h)
      PROVE  AloneInv'
  BY <1>6, <1>7 DEF HandlerStart, HandlerBusy, HandlerAllDone, HandlerPause, Working
<1>8. ASSUME NEW h \in Handlers, HandlerExit(h)
      PROVE  FALSE
  BY <1>8 DEF HandlerExit, HandlerSets, HandlerGoes, AloneInv
<1>9. ASSUME NEW h \in Handlers, HandlerReceive(h) \/ (HandlerSelect(h) /\ chan # <<>>)
      PROVE  AloneInv'
  <2>1. chan # <<>>
    BY <1>9 DEF HandlerReceive
  <2>2. chan \in Seq({"pause", "continue"})
    BY DEF AloneInv
  <2>3. Head(chan) \in {"pause", "continue"} /\ Tail(chan) \in Seq({"pause", "continue"})
    BY <2>1, <2>2, HeadTailProperties
  <2>4. chan' = Tail(chan) /\ UNCHANGED <<cpc, running, ths>>
    BY <1>9, <2>1 DEF HandlerReceive, HandlerSelect
  <2>5. \/ HandlerReceive(h) /\ \E to \in {"receive", "busy"} : HandlerGoes(h, "receive", to)
        \/ HandlerSelect(h) /\ \E to \in {"pause", "pop"} : HandlerGoes(h, "select", to)
    BY <1>9, <2>1, <2>3 DEF HandlerReceive, HandlerSelect, AfterReceive, AfterSelect
  <2>6. hpc[h] = "select" => ths' = "busy"
    BY <2>4 DEF AloneInv, Working
  <2>7. \A c \in Clients : cpc'[c] # "stopping"
    BY <2>4 DEF AloneInv
  <2>8. \E from, to \in HandlerPCs : /\ HandlerGoes(h, from, to) /\ from # "off"
                                     /\ to \notin {"off", "exit"}
                                     /\ to \in Working => ths' = "busy"
    BY <2>5, <2>6 DEF HandlerGoes, HandlerPCs, Working
  <2> QED BY <2>3, <2>4, <2>7, <2>8, AloneHandler
<1>10. ASSUME NEW h \in Handlers,
             \/ HandlerPop(h) \/ HandleTaskEmpty(h) \/ HandleTaskBlocked(h) \/ HandleTaskError(h)
             \/ HandleTaskMove(h) \/ HandleTaskOffset(h) \/ HandlerAppend(h)
             \/ (HandlerSelect(h) /\ chan = <<>>)
      PROVE  AloneInv'
  <2>1. UNCHANGED <<chan, running, cpc, ths>>
    BY <1>10 DEF HandlerPop, HandleTaskEmpty, HandleTaskBlocked, HandleTaskError, HandleTaskMove,
      HandleTaskOffset, HandlerAppend, HandlerSelect
  <2>2. \E from, to \in Working : HandlerGoes(h, from, to)
    BY <1>10 DEF HandlerPop, HandleTaskEmpty, HandleTaskBlocked, HandleTaskError, HandleTaskMove,
      HandleTaskOffset, HandlerAppend, HandlerSelect, Leave, Working
  <2>3. ths' = "busy"
    BY <2>1, <2>2 DEF HandlerGoes, AloneInv
  <2>4. chan' \in Seq({"pause", "continue"}) /\ \A c \in Clients : cpc'[c] # "stopping"
    BY <2>1 DEF AloneInv
  <2> QED BY <2>1, <2>2, <2>3, <2>4, AloneHandler DEF Working
<1>11. CASE UNCHANGED vars
  <2>1. UNCHANGED <<chan, hpc, running, cpc, ths>>
    BY <1>11 DEF vars
  <2> QED BY <2>1, AloneClient DEF AloneInv
<1>12. CASE \E c \in Clients : ClientCall(c) \/ ClientStep(c)
  BY <1>1, <1>2, <1>3, <1>4, <1>5, <1>12, Zenon DEF ClientCall, ClientStep
<1>13. CASE \E h \in Handlers : HandlerStep(h)
  BY <1>7, <1>8, <1>9, <1>10, <1>13, Zenon DEF HandlerStep
<1> QED BY <1>11, <1>12, <1>13 DEF Next

\* For any clients that start, pause and continue the mover, add and remove tasks and wait,
\* but do not stop it: the status says all done or paused only while no page is being
\* moved (setTaskHandlerStatus before popTask, and after the last task).
THEOREM QuietUnlessStopped == ASSUME NobodyStops PROVE Spec => []QuietStatusIsTrue
<1>1. Init => AloneInv
  BY AloneInit
<1>2. AloneInv /\ [Next]_vars => AloneInv'
  BY TypeStep, AloneStep DEF AloneInv
<1>3. AloneInv => QuietStatusIsTrue
  <2> SUFFICES ASSUME AloneInv, ths \in {"alldone", "paused"}, NEW h \in Handlers, cur[h] # None
               PROVE  FALSE
    BY DEF QuietStatusIsTrue, InFlight
  <2>1. hpc[h] \in {"move", "offset", "append"}
    BY DEF AloneInv, TypeInv, HandlersHoldTasks
  <2> QED BY <2>1 DEF AloneInv, Working
<1> QED BY <1>1, <1>2, <1>3, PTL DEF Spec
=============================================================================
