---------------------------- MODULE TrackerProofs -----------------------------
(* Proofs about the two trackers that scan pages and the pid watchers that *)
(* tell them which processes there are.  The idle-page tracker: types and  *)
(* who owns the mutex, that a process that was removed stays away, and     *)
(* which accesses a round may lose.  The soft-dirty tracker: types, and    *)
(* that there is one sampler exactly while the tracker believes there is   *)
(* one.  The pid watchers: types, that source, filter and listener agree   *)
(* on the books between reports, and that a set listener misses nothing.   *)
EXTENDS IdlePage, TLAPS

CONSTANTS SoftClients, Ops, Samplers, SoftPids, RegionCount, NoOne,
          WatchPids, Staying, WatchClients, Loops, WatchOps, Configs, Nobody
VARIABLES softAlive, softRegions, softAccesses, softToSampler, softMutex, regionsMutex,
          softPc, softTodo, softPid, region, back,
          watchConfig, watchAlive, matching, listening, stop, watchMutex, filterMutex, reported,
          added, watchTracked, watchPc, found, news, olds

\* The soft-dirty tracker, which has nothing in common with the idle-page tracker.
Soft == INSTANCE SoftDirty WITH
  Clients <- SoftClients, Pids <- SoftPids, None <- NoOne, alive <- softAlive,
  regions <- softRegions, accesses <- softAccesses, toSampler <- softToSampler,
  mutex <- softMutex, pc <- softPc, todo <- softTodo, pid <- softPid

\* The pid watchers, which call the trackers.
W == INSTANCE PidWatcher WITH
  Pids <- WatchPids, Clients <- WatchClients, Ops <- WatchOps, None <- Nobody,
  config <- watchConfig, alive <- watchAlive, mutex <- watchMutex, tracked <- watchTracked,
  pc <- watchPc

-----------------------------------------------------------------------------
(* The idle-page tracker *)

Places == ClientPlaces \cup SamplerPlaces
WithMutex == {"scan", "scan regions", "jammed"}

\* TypeOK, with the owner of the mutex known from the places in both directions.  Whoever
\* is about to start a sampler finds none.
Typed ==
  /\ scenario \in Scenarios /\ alive \subseteq Pids /\ idle \subseteq Pages
  /\ empty \subseteq regions /\ regions \subseteq Pids /\ accesses \subseteq Pids
  /\ toSampler \in {"nil", "empty", "full", "closed"}
  /\ pc \in [Actors -> Places] /\ todo \in [Actors -> SUBSET Pids]
  /\ pid \in [Actors -> Pids \cup {None}]
  /\ pc[Sampler] \in SamplerPlaces /\ \A c \in Clients : pc[c] \in ClientPlaces
  /\ \A c \in Clients : pc[c] \in {"mark", "stop send", "jammed"} <=> mutex = c
  /\ pc[Sampler] \in WithMutex <=> mutex = Sampler
  /\ \A c \in Clients : pc[c] \in {"mark", "jammed"} => pc[Sampler] = "off" /\ toSampler # "nil"
  /\ pc[Sampler] # "off" => toSampler # "nil"
  /\ toSampler # "nil" => pc[Sampler] # "off" \/ \E c \in Clients : pc[c] \in {"mark", "jammed"}
  /\ pc[Sampler] = "scan regions" => pid[Sampler] \in Pids
  /\ skipped \subseteq fresh /\ tracked \subseteq Pids

LEMMA TypedInit == Init => Typed
  BY ConstantsAssumption DEF Init, Typed, Actors, Places, ClientPlaces, SamplerPlaces, WithMutex

\* Calls that begin.
LEMMA TypedCall ==
  ASSUME Typed, NEW c \in Clients, Call(c)
  PROVE  Typed'
<1> USE ConstantsAssumption DEF Calls, Goes, Actors, Places, ClientPlaces, SamplerPlaces, WithMutex,
      kernel, tracking, history, scanning
<1>1. CASE \E p \in Pids : AddPids(c, p)
  <2>1. PICK p \in Pids : AddPids(c, p)
    BY <1>1
  <2>2. pid' \in [Actors -> Pids \cup {None}] /\ pid'[Sampler] = pid[Sampler]
    BY <2>1 DEF AddPids, AddRangesBegin, Typed
  <2>3. /\ c # Sampler /\ pc' = [pc EXCEPT ![c] = "add ranges"] /\ pc[c] = "idle"
        /\ UNCHANGED <<kernel, accesses, toSampler, mutex, todo, fresh, skipped>>
    BY <2>1 DEF AddPids, AddRangesBegin
  <2>4. empty' \subseteq regions' /\ regions' \subseteq Pids /\ tracked' \subseteq Pids
    BY <2>1 DEF AddPids, AddRangesBegin, Typed
  <2> HIDE DEF Calls
  <2> QED BY <2>2, <2>3, <2>4 DEF Typed
<1>2. CASE \E p \in Pids : RemovePids(c, p)
  <2>1. PICK p \in Pids : RemovePids(c, p)
    BY <1>2
  <2>2. todo' \in [Actors -> SUBSET Pids]
    BY <2>1 DEF RemovePids, NotInLoops, Typed
  <2> QED BY <2>1, <2>2 DEF RemovePids, RemovePid, Typed
<1>3. CASE RemoveAllPids(c)
  BY <1>3 DEF RemoveAllPids, Typed
<1>4. CASE ResetCounters(c)
  BY <1>4 DEF ResetCounters, Typed
<1>5. CASE Start(c)
  <2>1. todo' \in [Actors -> SUBSET Pids]
    BY <1>5 DEF Start, SetIdleBits, Typed
  <2> QED BY <1>5, <2>1 DEF Start, Typed
<1>6. CASE Stop(c)
  BY <1>6 DEF Stop, Typed
<1> QED BY <1>1, <1>2, <1>3, <1>4, <1>5, <1>6 DEF Call

\* The steps that clients and the sampler share.
LEMMA TypedShared ==
  ASSUME Typed, NEW a \in Actors, NEW from, NEW to,
         \/ a \in Clients /\ <<from, to>> \in {<<"add ranges", "idle">>, <<"add ranges", "add dead">>,
                                               <<"add dead", "idle">>}
         \/ a = Sampler /\ <<from, to>> \in {<<"update ranges", "update">>, <<"update ranges", "update dead">>,
                                             <<"update dead", "update">>},
         AddRangesEnd(a, from, to) \/ AddRangesFails(a, from, to) \/ ForgetDead(a, from, to)
  PROVE  Typed'
<1> USE ConstantsAssumption DEF Goes, Actors, Places, ClientPlaces, SamplerPlaces, WithMutex,
      kernel, tracking, history, scanning
<1>1. CASE AddRangesEnd(a, from, to)
  <2>1. CASE a \in Clients
    <3>1. pc[a] = from /\ pc' = [pc EXCEPT ![a] = to] /\ pc'[Sampler] = pc[Sampler]
          /\ from \in {"add ranges", "add dead"} /\ to \in {"idle", "add dead"}
      BY <1>1, <2>1 DEF AddRangesEnd, Typed
    <3>2. pc' \in [Actors -> Places] /\ \A c \in Clients : pc'[c] = IF c = a THEN to ELSE pc[c]
      BY <2>1, <3>1 DEF Typed
    <3>3. /\ empty' \subseteq regions' /\ regions' \subseteq Pids /\ tracked' \subseteq Pids
          /\ UNCHANGED <<kernel, accesses, toSampler, mutex, pid, todo, fresh, skipped>>
      BY <1>1 DEF AddRangesEnd, Typed
    <3> QED BY <2>1, <3>1, <3>2, <3>3 DEF Typed
  <2>2. CASE a = Sampler
    BY <1>1, <2>2 DEF AddRangesEnd, Typed
  <2> QED BY <2>1, <2>2
<1>2. CASE AddRangesFails(a, from, to)
  <2>1. todo' \in [Actors -> SUBSET Pids]
    BY <1>2 DEF AddRangesFails, NotInLoops, Typed
  <2> QED BY <1>2, <2>1 DEF AddRangesFails, Typed
<1>3. CASE ForgetDead(a, from, to)
  BY <1>3 DEF ForgetDead, Typed
<1> QED BY <1>1, <1>2, <1>3

\* Whatever pages a process has and however far marking gets, pages become idle and are
\* not fresh any more.
LEMMA MarkedPages ==
  ASSUME NEW a \in Actors, NEW p \in Pids, Mark(a, p)
  PROVE  \E marked \in SUBSET Pages :
            idle' = idle \cup marked /\ fresh' = fresh \ marked /\ skipped' = skipped \ marked
<1>1. \A words : SetIdleAll(words) \in SUBSET Pages
  BY DEF SetIdleAll
<1> QED BY <1>1 DEF Mark

LEMMA TypedMarking ==
  ASSUME Typed, NEW a \in Actors, Marking(a)
  PROVE  Typed'
<1> USE ConstantsAssumption DEF Goes, Actors, Places, ClientPlaces, SamplerPlaces, WithMutex,
      kernel, tracking, history, scanning
<1>1. CASE \E p \in Pids : Mark(a, p)
  <2>1. PICK p \in Pids : Mark(a, p)
    BY <1>1
  <2>2. /\ pc[a] = "mark" /\ todo' = [todo EXCEPT ![a] = @ \ {p}]
        /\ UNCHANGED <<scenario, alive, tracking, toSampler, mutex, pc, pid, tracked>>
    BY <2>1 DEF Mark
  <2>3. idle' \subseteq Pages /\ skipped' \subseteq fresh'
    BY <2>1, MarkedPages DEF Typed
  <2> QED BY <2>2, <2>3 DEF Typed
<1>2. CASE \E p \in Pids : MarkDead(a, p)
  <2>1. PICK p \in Pids : MarkDead(a, p)
    BY <1>2
  <2>2. CASE mutex = a
    <3>1. a \in Clients
      BY <2>1, <2>2 DEF MarkDead, Typed
    <3>2. pc[a] = "mark" /\ pc' = [pc EXCEPT ![a] = "jammed"] /\ UNCHANGED <<toSampler, mutex, pid>>
      BY <2>1, <2>2 DEF MarkDead
    <3>3. pc' \in [Actors -> Places] /\ pc'[Sampler] = pc[Sampler]
          /\ \A c \in Clients : pc'[c] = IF c = a THEN "jammed" ELSE pc[c]
      BY <3>1, <3>2 DEF Typed
    <3>4. /\ todo' \in [Actors -> SUBSET Pids] /\ empty' \subseteq regions' /\ regions' \subseteq Pids
          /\ UNCHANGED <<kernel, accesses, tracked, fresh, skipped>>
      BY <2>1, <2>2 DEF MarkDead, Typed
    <3> QED BY <3>1, <3>2, <3>3, <3>4 DEF Typed
  <2>3. CASE mutex # a
    <3>1. pc[a] = "mark" /\ pc' = [pc EXCEPT ![a] = "mark"]
      BY <2>1, <2>3 DEF MarkDead
    <3>2. a = Sampler
      BY <2>3, <3>1 DEF Typed
    <3>3. pc' = pc
      <4>1. pc \in [Actors -> Places]
        BY DEF Typed
      <4> HIDE DEF Places
      <4> QED BY <3>1, <4>1
    <3>4. /\ empty' \subseteq regions' /\ regions' \subseteq Pids /\ accesses' \subseteq Pids
          /\ tracked' \subseteq Pids /\ todo' \in [Actors -> SUBSET Pids]
          /\ UNCHANGED <<kernel, toSampler, mutex, pid, fresh, skipped>>
      BY <2>1, <2>3 DEF MarkDead, RemovePid, Typed
    <3> QED BY <3>2, <3>3, <3>4 DEF Typed
  <2> QED BY <2>2, <2>3
<1> QED BY <1>1, <1>2 DEF Marking

LEMMA TypedCallStep ==
  ASSUME Typed, NEW c \in Clients, CallStep(c)
  PROVE  Typed'
<1> USE ConstantsAssumption DEF Goes, Actors, Places, ClientPlaces, SamplerPlaces, WithMutex,
      kernel, tracking, history, scanning
<1>1. CASE \/ AddRangesEnd(c, "add ranges", "idle") \/ AddRangesFails(c, "add ranges", "add dead")
           \/ ForgetDead(c, "add dead", "idle")
  BY <1>1, TypedShared
<1>2. CASE Marking(c)
  BY <1>2, TypedMarking
<1>3. CASE StartSampler(c)
  BY <1>3 DEF StartSampler, Typed
<1>4. CASE StopSend(c)
  BY <1>4 DEF StopSend, Typed
<1> QED BY <1>1, <1>2, <1>3, <1>4 DEF CallStep

LEMMA TypedSampler ==
  ASSUME Typed, Receive \/ Tick \/ SamplerStep
  PROVE  Typed'
<1> USE ConstantsAssumption DEF Goes, Actors, Places, ClientPlaces, SamplerPlaces, WithMutex,
      kernel, tracking, history, scanning
<1>1. CASE Receive \/ Close \/ ForgetChannel
  <2>1. CASE Receive
    BY <2>1 DEF Receive, Typed
  <2>2. CASE Close
    BY <2>2 DEF Close, Typed
  <2>3. CASE ForgetChannel
    BY <2>3 DEF ForgetChannel, Typed
  <2> QED BY <1>1, <2>1, <2>2, <2>3
<1>2. CASE Tick
  <2>1. todo' \in [Actors -> SUBSET Pids]
    BY <1>2 DEF Tick, Typed
  <2>2. PICK to \in {"count", "update"} :
          pc[Sampler] = "select" /\ pc' = [pc EXCEPT ![Sampler] = to]
    BY <1>2 DEF Tick
  <2> QED BY <1>2, <2>1, <2>2 DEF Tick, Typed
<1>3. CASE UpdateEnd \/ ScanRegionsEnd \/ MarkEnd
  <2>1. CASE UpdateEnd
    BY <2>1 DEF UpdateEnd, Typed
  <2>2. CASE ScanRegionsEnd
    BY <2>2 DEF ScanRegionsEnd, Typed
  <2>3. CASE MarkEnd
    BY <2>3 DEF MarkEnd, Typed
  <2> QED BY <1>3, <2>1, <2>2, <2>3
<1>4. CASE Count \/ CountFails \/ ScanEnd
  <2>1. todo' \in [Actors -> SUBSET Pids] /\ skipped' \subseteq fresh' /\ tracked' \subseteq Pids
    BY <1>4 DEF Count, CountFails, ScanEnd, SetIdleBits, Typed
  <2>4. CASE CountFails
    BY <2>1, <2>4 DEF CountFails, Typed
  <2>2. CASE Count
    BY <2>1, <2>2 DEF Count, Typed
  <2>3. CASE ScanEnd
    BY <2>1, <2>3 DEF ScanEnd, Typed
  <2> QED BY <1>4, <2>2, <2>3, <2>4
<1>5. CASE \E p \in Pids : Update(p)
  <2>1. PICK p \in Pids : Update(p)
    BY <1>5
  <2>2. pid' \in [Actors -> Pids \cup {None}] /\ todo' \in [Actors -> SUBSET Pids]
    BY <2>1 DEF Update, AddRangesBegin, Typed
  <2>3. pc' = [pc EXCEPT ![Sampler] = "update ranges"] /\ pc[Sampler] = "update"
    BY <2>1 DEF Update
  <2> QED BY <2>1, <2>2, <2>3 DEF Update, AddRangesBegin, Typed
<1>6. CASE \E p \in Pids : Scan(p)
  <2>1. PICK p \in Pids : Scan(p)
    BY <1>6
  <2>2. /\ pid' \in [Actors -> Pids \cup {None}] /\ pid'[Sampler] = p
        /\ todo' \in [Actors -> SUBSET Pids]
    BY <2>1 DEF Scan, Typed
  <2>3. PICK to \in {"scan regions", "jammed"} :
          pc[Sampler] = "scan" /\ pc' = [pc EXCEPT ![Sampler] = to]
    BY <2>1 DEF Scan
  <2> QED BY <2>1, <2>2, <2>3 DEF Scan, Typed
<1>7. CASE \E pg \in Pages : ScanRegion(Region[pg])
  <2>1. PICK pg \in Pages : ScanRegion(Region[pg])
    BY <1>7
  <2>2. /\ accesses' \subseteq Pids /\ skipped' \subseteq fresh'
        /\ UNCHANGED <<kernel, regions, empty, toSampler, mutex, pc, pid, todo, tracked>>
    BY <2>1 DEF ScanRegion, Typed
  <2> QED BY <2>2 DEF Typed
<1>8. CASE \/ AddRangesEnd(Sampler, "update ranges", "update")
           \/ AddRangesFails(Sampler, "update ranges", "update dead")
           \/ ForgetDead(Sampler, "update dead", "update")
  BY <1>8, TypedShared
<1>9. CASE Marking(Sampler)
  BY <1>9, TypedMarking
<1> QED BY <1>1, <1>2, <1>3, <1>4, <1>5, <1>6, <1>7, <1>8, <1>9 DEF SamplerStep

LEMMA TypedNext == Typed /\ [Next]_vars => Typed'
<1> SUFFICES ASSUME Typed, [Next]_vars
             PROVE  Typed'
  OBVIOUS
<1> USE ConstantsAssumption DEF kernel, tracking, history, scanning
<1>1. CASE Environment
  <2>1. ASSUME NEW p \in Pids, Die(p) PROVE Typed'
    BY <2>1 DEF Die, Typed
  <2>2. ASSUME NEW pg \in Pages, Access(pg) PROVE Typed'
    BY <2>2 DEF Access, Typed
  <2> QED BY <1>1, <2>1, <2>2 DEF Environment
<1>2. CASE Receive \/ Tick \/ SamplerStep
  BY <1>2, TypedSampler
<1>3. CASE MapRace
  BY <1>3 DEF MapRace, Typed
<1>4. CASE \E c \in Clients : Call(c) \/ CallStep(c)
  BY <1>4, TypedCall, TypedCallStep
<1>5. CASE UNCHANGED vars
  BY <1>5 DEF vars, Typed
<1> QED BY <1>1, <1>2, <1>3, <1>4, <1>5 DEF Next

\* The mutex and the channel of the tracker, for any clients, processes and pages: the
\* mutex belongs to who is in a place with it, and there is a channel exactly while there
\* is a sampler or somebody in Start.
THEOREM TypeCorrect == Spec => []TypeOK
<1>1. Typed => TypeOK
  BY DEF Typed, TypeOK, WithMutex, Actors
<1> QED BY <1>1, TypedInit, TypedNext, PTL DEF Spec

-----------------------------------------------------------------------------
(* Processes that were removed *)

\* Neither the map, nor the loop of the sampler, nor anybody in addRanges has a process
\* that was removed.
Away ==
  /\ gone \cap regions = {} /\ gone \cap todo[Sampler] = {}
  /\ \A p \in gone : ~Adding(p)

LEMMA AwayInit == Init => Away
  BY ConstantsAssumption DEF Init, Away, Actors, Adding

\* A process is removed while the sampler goes through the map or a copy of it.
LEMMA AwayRemoved ==
  ASSUME Typed, Away, NEW p \in Pids, RemovePid(p), UNCHANGED pid,
         NEW a \in Actors, pc' = pc \/ pc' = [pc EXCEPT ![a] = "idle"],
         NotInLoops(p) \/ todo' = [todo EXCEPT ![Sampler] = @ \ {p}]
  PROVE  Away'
<1>1. todo'[Sampler] \subseteq todo[Sampler] /\ (p \in todo'[Sampler] => replaced /\ p \in todo[Sampler])
  <2>1. todo \in [Actors -> SUBSET Pids] /\ Sampler \in Actors
    BY DEF Typed, Actors
  <2>2. CASE NotInLoops(p) /\ replaced
    BY <2>1, <2>2 DEF NotInLoops
  <2>3. CASE NotInLoops(p) /\ ~replaced
    BY <2>1, <2>3 DEF NotInLoops
  <2>4. CASE todo' = [todo EXCEPT ![Sampler] = @ \ {p}]
    BY <2>1, <2>4
  <2> QED BY <2>2, <2>3, <2>4
<1>2. \A q : Adding(q)' => Adding(q)
  BY DEF Adding, Typed
<1>3. \A q \in gone' : ~Adding(q)
  BY DEF RemovePid, Away
<1> QED BY <1>1, <1>2, <1>3 DEF RemovePid, Away

\* A step of somebody who does not begin to add a process.
LEMMA AwayStep ==
  ASSUME Typed, Away, NEW a \in Actors, NEW to, to \notin {"add ranges", "update ranges"},
         pc' = [pc EXCEPT ![a] = to], \A b \in Actors \ {a} : pid'[b] = pid[b],
         gone' \subseteq gone, regions' \subseteq regions,
         todo'[Sampler] \subseteq todo[Sampler] \cup regions
  PROVE  Away'
<1>1. \A q : Adding(q)' => Adding(q)
  <2> SUFFICES ASSUME NEW q, NEW b \in Actors, pid'[b] = q, pc'[b] \in {"add ranges", "update ranges"}
               PROVE  pid[b] = q /\ pc[b] \in {"add ranges", "update ranges"}
    BY DEF Adding
  <2>1. b # a
    BY DEF Typed
  <2> QED BY <2>1 DEF Typed
<1> QED BY <1>1 DEF Away

\* Whoever adds a process adds none that was removed.
LEMMA AwayAdding ==
  ASSUME Typed, Away, NEW a \in Actors, NEW from, NEW to,
         to \in {"idle", "add dead", "update", "update dead"},
         \/ from \in {"add ranges", "update ranges"} /\ (AddRangesEnd(a, from, to) \/ AddRangesFails(a, from, to))
         \/ ForgetDead(a, from, to)
  PROVE  Away'
<1>1. \A q : Adding(q)' => Adding(q)
  BY DEF AddRangesEnd, AddRangesFails, ForgetDead, Goes, Adding, Typed
<1>2. todo'[Sampler] \subseteq todo[Sampler] /\ gone' = gone
  <2>1. CASE AddRangesEnd(a, from, to) \/ ForgetDead(a, from, to)
    BY <2>1 DEF AddRangesEnd, ForgetDead
  <2>2. CASE AddRangesFails(a, from, to)
    BY <2>2 DEF AddRangesFails, NotInLoops, Actors
  <2> QED BY <2>1, <2>2
<1>3. regions' \subseteq regions \cup {q \in Pids : Adding(q)}
  BY DEF AddRangesEnd, AddRangesFails, ForgetDead, Goes, tracking, Adding, Typed
<1> QED BY <1>1, <1>2, <1>3 DEF Away

LEMMA AwayMarking ==
  ASSUME Typed, Away, NEW a \in Actors, Marking(a)
  PROVE  Away'
<1> USE ConstantsAssumption DEF tracking
<1>1. CASE \E p \in Pids : Mark(a, p)
  BY <1>1 DEF Mark, Away, Adding, Actors, Typed
<1>2. ASSUME NEW p \in Pids, MarkDead(a, p)
      PROVE  Away'
  <2>1. CASE mutex = a
    <3>1. pc' = [pc EXCEPT ![a] = "jammed"] /\ UNCHANGED <<pid, gone>>
      BY <1>2, <2>1 DEF MarkDead, Goes
    <3>2. regions' \subseteq regions /\ todo'[Sampler] \subseteq todo[Sampler]
      BY <1>2, <2>1 DEF MarkDead, Actors, Typed
    <3> QED BY <3>1, <3>2, AwayStep
  <2>2. CASE mutex # a
    <3>1. pc[a] = "mark" /\ pc' = [pc EXCEPT ![a] = "mark"]
      BY <1>2, <2>2 DEF MarkDead, Goes
    <3>2. a = Sampler /\ pc' = pc
      BY <2>2, <3>1 DEF Typed, Actors
    <3> QED BY <1>2, <2>2, <3>2, AwayRemoved DEF MarkDead
  <2> QED BY <2>1, <2>2
<1> QED BY <1>1, <1>2 DEF Marking

LEMMA AwayNext == Typed /\ Away /\ [Next]_vars => Away'
<1> SUFFICES ASSUME Typed, Away, [Next]_vars
             PROVE  Away'
  OBVIOUS
<1> USE ConstantsAssumption DEF kernel, tracking, history, scanning, Goes, Calls
<1>1. CASE Environment \/ Receive \/ MapRace \/ UNCHANGED vars
  <2>1. UNCHANGED <<regions, todo, gone, pid>>
    BY <1>1 DEF Environment, Die, Access, Receive, MapRace, vars
  <2>2. \A a \in Actors : pc'[a] \in {pc[a], "close"}
    BY <1>1 DEF Environment, Die, Access, Receive, MapRace, vars, Typed
  <2> QED BY <2>1, <2>2 DEF Away, Adding
<1>2. CASE Tick
  <2>1. UNCHANGED <<regions, gone, pid>> /\ todo'[Sampler] \subseteq todo[Sampler] \cup regions
    BY <1>2 DEF Tick, Actors, Typed
  <2>2. PICK to \in {"count", "update"} : pc' = [pc EXCEPT ![Sampler] = to]
    BY <1>2 DEF Tick
  <2> QED BY <2>1, <2>2, AwayStep DEF Actors
<1>3. CASE SamplerStep
  <2>1. CASE Close \/ ForgetChannel \/ UpdateEnd \/ ScanRegionsEnd \/ MarkEnd
    <3>1. PICK to \in SamplerPlaces \ {"update ranges"} : pc' = [pc EXCEPT ![Sampler] = to]
      BY <2>1 DEF Close, ForgetChannel, UpdateEnd, ScanRegionsEnd, MarkEnd, SamplerPlaces
    <3>2. UNCHANGED <<pid, gone, regions, todo>>
      BY <2>1 DEF Close, ForgetChannel, UpdateEnd, ScanRegionsEnd, MarkEnd
    <3> QED BY <3>1, <3>2, AwayStep DEF Actors, SamplerPlaces
  <2>2. CASE Count \/ CountFails \/ ScanEnd
    <3>1. PICK to \in {"scan", "mark"} : pc' = [pc EXCEPT ![Sampler] = to]
      BY <2>2 DEF Count, CountFails, ScanEnd
    <3>2. UNCHANGED <<pid, gone, regions>> /\ todo'[Sampler] \subseteq regions
      BY <2>2 DEF Count, CountFails, ScanEnd, SetIdleBits, Actors, Typed
    <3> QED BY <3>1, <3>2, AwayStep DEF Actors
  <2>3. CASE \E p \in Pids : Update(p)
    <3>1. PICK p \in Pids : Update(p)
      BY <2>3
    <3>2. \A q : Adding(q)' => Adding(q) \/ q = p
      BY <3>1 DEF Update, AddRangesBegin, Adding, Typed
    <3>3. /\ p \notin gone /\ gone' = gone /\ regions' = regions \cup {p}
          /\ todo'[Sampler] \subseteq todo[Sampler]
      BY <3>1 DEF Update, AddRangesBegin, Away, Actors, Typed
    <3> QED BY <3>2, <3>3 DEF Away
  <2>4. CASE \E p \in Pids : Scan(p)
    <3>1. PICK p \in Pids : Scan(p)
      BY <2>4
    <3>2. PICK to \in {"scan regions", "jammed"} : pc' = [pc EXCEPT ![Sampler] = to]
      BY <3>1 DEF Scan
    <3>3. \A b \in Actors \ {Sampler} : pid'[b] = pid[b]
      BY <3>1 DEF Scan, Typed
    <3>4. UNCHANGED <<gone, regions>> /\ todo'[Sampler] \subseteq todo[Sampler]
      BY <3>1 DEF Scan, Typed, Actors
    <3> QED BY <3>2, <3>3, <3>4, AwayStep DEF Actors
  <2>5. CASE \E pg \in Pages : ScanRegion(Region[pg])
    <3>1. UNCHANGED <<regions, todo, gone, pc, pid>>
      BY <2>5 DEF ScanRegion
    <3> QED BY <3>1 DEF Away, Adding
  <2>6. CASE \/ AddRangesEnd(Sampler, "update ranges", "update")
             \/ AddRangesFails(Sampler, "update ranges", "update dead")
             \/ ForgetDead(Sampler, "update dead", "update")
    BY <2>6, AwayAdding DEF Actors
  <2>7. CASE Marking(Sampler)
    BY <2>7, AwayMarking DEF Actors
  <2> QED BY <1>3, <2>1, <2>2, <2>3, <2>4, <2>5, <2>6, <2>7 DEF SamplerStep
<1>4. ASSUME NEW c \in Clients, Call(c)
      PROVE  Away'
  <2>1. CASE \E p \in Pids : AddPids(c, p)
    <3>1. PICK p \in Pids : AddPids(c, p)
      BY <2>1
    <3>2. \A q : Adding(q)' => Adding(q) \/ q = p
      BY <3>1 DEF AddPids, AddRangesBegin, Adding, Typed
    <3>3. gone' = gone \ {p} /\ regions' = regions \cup {p} /\ todo' = todo
      BY <3>1 DEF AddPids, AddRangesBegin
    <3> QED BY <3>2, <3>3 DEF Away
  <2>2. CASE \E p \in Pids : RemovePids(c, p)
    BY <2>2, AwayRemoved DEF RemovePids, Actors
  <2>3. CASE RemoveAllPids(c)
    BY <2>3 DEF RemoveAllPids, Away, Adding, Actors, Typed
  <2>4. CASE ResetCounters(c) \/ Start(c) \/ Stop(c)
    <3>1. PICK to \in ClientPlaces \ {"add ranges"} : pc' = [pc EXCEPT ![c] = to]
      BY <2>4 DEF ResetCounters, Start, Stop, ClientPlaces
    <3>2. UNCHANGED <<pid, gone, regions>> /\ todo'[Sampler] = todo[Sampler]
      BY <2>4 DEF ResetCounters, Start, SetIdleBits, Stop, Actors, Typed
    <3> QED BY <3>1, <3>2, AwayStep DEF Actors, ClientPlaces
  <2> QED BY <1>4, <2>1, <2>2, <2>3, <2>4 DEF Call
<1>5. ASSUME NEW c \in Clients, CallStep(c)
      PROVE  Away'
  <2>1. CASE \/ AddRangesEnd(c, "add ranges", "idle") \/ AddRangesFails(c, "add ranges", "add dead")
             \/ ForgetDead(c, "add dead", "idle")
    BY <2>1, AwayAdding DEF Actors
  <2>2. CASE Marking(c)
    BY <2>2, AwayMarking DEF Actors
  <2>3. CASE StartSampler(c) \/ StopSend(c)
    <3>1. \A q : Adding(q)' => Adding(q)
      <4>1. UNCHANGED pid /\ \A b \in Actors : pc'[b] \in {pc[b], "idle", "select"}
        <5>1. CASE StartSampler(c)
          BY <5>1 DEF StartSampler, Typed
        <5>2. CASE StopSend(c)
          BY <5>2 DEF StopSend, Typed
        <5> QED BY <2>3, <5>1, <5>2
      <4> QED BY <4>1 DEF Adding
    <3>2. UNCHANGED <<gone, regions, todo>>
      BY <2>3 DEF StartSampler, StopSend
    <3> QED BY <3>1, <3>2 DEF Away
  <2> QED BY <1>5, <2>1, <2>2, <2>3 DEF CallStep
<1> QED BY <1>1, <1>2, <1>3, <1>4, <1>5 DEF Next

\* A process that was removed while nobody was about to add it is not brought back by an
\* update of the regions or a scan, for any number of clients, processes and pages.
THEOREM RemovedStaysAwayAlways == Spec => []RemovedStaysAway
<1>1. Away => RemovedStaysAway
  BY DEF Away, RemovedStaysAway
<1>2. Init => Typed /\ Away
  BY TypedInit, AwayInit
<1>3. Typed /\ Away /\ [Next]_vars => Typed' /\ Away'
  BY TypedNext, AwayNext
<1> QED BY <1>1, <1>2, <1>3, PTL DEF Spec

-----------------------------------------------------------------------------
(* What a round counts *)

\* Pages accessed before the scan of this round, of processes tracked since, that the scan
\* has not counted.
Missed == {pg \in fresh \ skipped : Owner[pg] \in tracked \cap alive}

\* The scan still comes to all of them, and has not read their idle bits earlier than they
\* were cleared.  When it is over there is none.
Counting ==
  /\ fresh \subseteq Pages \ (idle \cup Tails) /\ tracked \cap empty = {}
  /\ cache # {} => pc[Sampler] \in WithMutex
  /\ pc[Sampler] \in {"scan", "scan regions"} => \A pg \in Missed :
       /\ Word[pg] \in cache => pg \notin cached
       /\ \/ Owner[pg] \in todo[Sampler]
          \/ pc[Sampler] = "scan regions" /\ pid[Sampler] = Owner[pg] /\ Region[pg] \in left
  /\ pc[Sampler] = "mark" => Missed = {}

LEMMA CountingInit == Init => Counting
  BY ConstantsAssumption DEF Init, Counting, Actors, WithMutex, Missed

\* A step that does not take the scan further.
LEMMA CountingStep ==
  ASSUME Counting, UNCHANGED <<cache, cached, left>>,
         fresh' \subseteq Pages \ (idle' \cup Tails), tracked' \cap empty' = {},
         \/ pc'[Sampler] = pc[Sampler]
         \/ pc[Sampler] \notin WithMutex /\ pc'[Sampler] \notin {"scan", "scan regions", "mark"},
         pc[Sampler] \in {"scan", "scan regions", "mark"} => Missed' \subseteq Missed,
         pc[Sampler] \in {"scan", "scan regions"} =>
           /\ pid'[Sampler] = pid[Sampler]
           /\ \A p \in todo[Sampler] : p \in todo'[Sampler] \/ p \notin (tracked \cap alive)'
  PROVE  Counting'
<1>1. cache' # {} => pc'[Sampler] \in WithMutex
  BY DEF Counting
<1>2. ASSUME pc'[Sampler] \in {"scan", "scan regions"}, NEW pg \in Missed'
      PROVE  /\ Word[pg] \in cache' => pg \notin cached'
             /\ \/ Owner[pg] \in todo'[Sampler]
                \/ pc'[Sampler] = "scan regions" /\ pid'[Sampler] = Owner[pg] /\ Region[pg] \in left'
  <2>1. pc'[Sampler] = pc[Sampler] /\ pg \in Missed
    BY <1>2
  <2>2. Owner[pg] \in (tracked \cap alive)'
    BY <1>2 DEF Missed
  <2> QED BY <1>2, <2>1, <2>2 DEF Counting
<1>3. pc'[Sampler] = "mark" => Missed' = {}
  BY DEF Counting
<1> QED BY <1>1, <1>2, <1>3 DEF Counting

LEMMA CountingAdding ==
  ASSUME Typed, Counting, NEW a \in Actors, NEW from, NEW to,
         \/ a \in Clients /\ <<from, to>> \in {<<"add ranges", "idle">>, <<"add ranges", "add dead">>,
                                               <<"add dead", "idle">>}
         \/ a = Sampler /\ <<from, to>> \in {<<"update ranges", "update">>, <<"update ranges", "update dead">>,
                                             <<"update dead", "update">>},
         AddRangesEnd(a, from, to) \/ AddRangesFails(a, from, to) \/ ForgetDead(a, from, to)
  PROVE  Counting'
<1> USE DEF kernel, tracking, history, scanning, Goes
<1>0. to \notin {"scan", "scan regions", "mark", "jammed"} /\ from \notin WithMutex
  BY DEF WithMutex
<1>1. /\ UNCHANGED <<kernel, scanning, history, pid>> /\ pc' = [pc EXCEPT ![a] = to] /\ pc[a] = from
      /\ empty' \subseteq empty
  BY DEF AddRangesEnd, AddRangesFails, ForgetDead
<1>2. Missed' = Missed
  BY <1>1 DEF Missed
<1>3. \A p \in todo[Sampler] : p \in todo'[Sampler] \/ p \notin (tracked \cap alive)'
  <2>1. CASE AddRangesEnd(a, from, to) \/ ForgetDead(a, from, to)
    BY <2>1 DEF AddRangesEnd, ForgetDead
  <2>2. CASE AddRangesFails(a, from, to)
    BY <2>2 DEF AddRangesFails, NotInLoops, Actors
  <2> QED BY <2>1, <2>2
<1>4. \/ pc'[Sampler] = pc[Sampler]
      \/ pc[Sampler] \notin WithMutex /\ pc'[Sampler] \notin {"scan", "scan regions", "mark"}
  BY <1>0, <1>1 DEF Typed, Actors
<1>5. fresh' \subseteq Pages \ (idle' \cup Tails) /\ tracked' \cap empty' = {}
  BY <1>1 DEF Counting
<1> HIDE DEF Goes
<1> QED BY <1>1, <1>2, <1>3, <1>4, <1>5, CountingStep

LEMMA CountingMarking ==
  ASSUME Typed, Counting, NEW a \in Actors, Marking(a)
  PROVE  Counting'
<1> USE ConstantsAssumption DEF kernel, tracking, history, scanning, Goes
<1>1. ASSUME NEW p \in Pids, Mark(a, p)
      PROVE  Counting'
  <2>1. UNCHANGED <<alive, tracking, pc, pid, left, cache, cached, tracked>> /\ pc[a] = "mark"
      BY <1>1 DEF Mark
  <2>2. pc[Sampler] \notin {"scan", "scan regions"}
    BY <2>1 DEF Typed, Actors
  <2>3. PICK marked \in SUBSET Pages :
          idle' = idle \cup marked /\ fresh' = fresh \ marked /\ skipped' = skipped \ marked
    BY <1>1, MarkedPages
  <2>4. Missed' \subseteq Missed
    BY <2>1, <2>3 DEF Missed
  <2>5. fresh' \subseteq Pages \ (idle' \cup Tails) /\ tracked' \cap empty' = {}
    BY <2>1, <2>3 DEF Counting
  <2> QED BY <2>1, <2>2, <2>4, <2>5, CountingStep
<1>2. ASSUME NEW p \in Pids, MarkDead(a, p)
      PROVE  Counting'
  <2>1. UNCHANGED <<kernel, pid, scanning, fresh, skipped>> /\ pc[a] = "mark"
    BY <1>2 DEF MarkDead
  <2>2. tracked' \subseteq tracked /\ tracked' \cap empty' = {}
    BY <1>2 DEF MarkDead, RemovePid, Counting
  <2>3. pc'[Sampler] = pc[Sampler]
    <3>1. CASE mutex = a
      <4>1. a # Sampler
        BY <2>1, <3>1 DEF Typed, WithMutex
      <4> QED BY <1>2, <3>1, <4>1 DEF MarkDead, Typed, Actors
    <3>2. CASE mutex # a
      BY <1>2, <3>2 DEF MarkDead, Typed, Actors
    <3> QED BY <3>1, <3>2
  <2>4. pc[Sampler] \notin {"scan", "scan regions"}
    BY <2>1 DEF Typed, Actors
  <2>5. Missed' \subseteq Missed
    BY <2>1, <2>2 DEF Missed
  <2> QED BY <2>1, <2>2, <2>3, <2>4, <2>5, CountingStep DEF Counting
<1> QED BY <1>1, <1>2 DEF Marking

\* Reading bits changes what is cached, and caches no page as idle that is not.
LEMMA CachedBits ==
  ASSUME NEW pages, ReadBits(pages), UNCHANGED idle,
         NEW pg \in Pages, pg \notin idle, Word[pg] \in cache => pg \notin cached
  PROVE  Word[pg] \in cache' => pg \notin cached'
<1>1. PICK words : /\ cache' = cache \cup words
                   /\ cached' = {q \in cached : Word[q] \notin words} \cup {q \in idle : Word[q] \in words}
  BY DEF ReadBits
<1> QED BY <1>1

\* Regions are read: the pages of the region that are missed so far are counted, because
\* their idle bits are not set, or passed over, or are behind a failure.
LEMMA CountingRegion ==
  ASSUME Typed, Counting, NEW r \in {Region[pg] : pg \in Pages}, ScanRegion(r)
  PROVE  Counting'
<1> USE ConstantsAssumption DEF kernel, tracking, history, scanning
<1> DEFINE pages == {pg \in Pages : Region[pg] = r /\ pid[Sampler] \in alive}
           before(pg) == {q \in pages : q < pg}
           counted(qs) == {q \in qs : IsCounted(q)}
           visited == {pg \in pages : Cardinality(counted(before(pg))) < MaxCount}
           Whole == /\ ReadBits(visited)
                    /\ fresh' = fresh \ (counted(visited) \cup (pages \ visited))
                    /\ skipped' = skipped \cap fresh'
           FailsAt(pg) == /\ \/ ReadBits(before(pg)) /\ Word[pg] \notin cache'
                             \/ ReadBits(before(pg) \cup {pg}) /\ ~IsIdle(pg)
                          /\ fresh' = fresh \ counted(before(pg))
                          /\ skipped' = fresh' \cap (skipped \cup (pages \ before(pg)))
<1>1. /\ pc[Sampler] = "scan regions" /\ left' = left \ {r}
      /\ UNCHANGED <<kernel, regions, empty, pc, pid, todo, tracked>>
  BY DEF ScanRegion
<1>2. Whole \/ \E pg \in visited : FailsAt(pg)
  BY DEF ScanRegion
<1>3. PICK asked : ReadBits(asked)
  <2> HIDE DEF visited, before, counted, pages
  <2> QED BY <1>2
<1>7. fresh' \subseteq fresh /\ skipped \cap fresh' \subseteq skipped'
  <2> HIDE DEF visited, before, counted, pages
  <2> QED BY <1>2
<1>4. Missed' \subseteq Missed
  BY <1>1, <1>7 DEF Missed
<1>5. \A pg \in Missed' : Word[pg] \in cache' => pg \notin cached'
  <2>1. \A pg \in Missed : pg \in Pages /\ pg \notin idle /\ (Word[pg] \in cache => pg \notin cached)
    BY <1>1 DEF Counting, Missed
  <2>2. UNCHANGED idle
    BY <1>1
  <2> QED BY <1>3, <1>4, <2>1, <2>2, CachedBits
<1>6. ASSUME NEW pg \in Missed', Owner[pg] \notin todo[Sampler]
      PROVE  pid[Sampler] = Owner[pg] /\ Region[pg] \in left \ {r}
  <2>1. pg \in Missed /\ pid[Sampler] = Owner[pg] /\ Region[pg] \in left
    BY <1>1, <1>4, <1>6 DEF Counting
  <2>2. pg \in fresh' /\ pg \notin skipped' /\ pg \in fresh /\ Owner[pg] \in alive /\ pg \in Pages
    BY <1>1, <1>6, <2>1 DEF Missed, Counting
  <2>3. IsCounted(pg)
    BY <1>1, <2>1, <2>2 DEF IsCounted, IsIdle, Counting
  <2>4. Region[pg] # r
    <3>1. SUFFICES ASSUME Region[pg] = r
                   PROVE  FALSE
      OBVIOUS
    <3>2. pg \in pages
      BY <2>1, <2>2, <3>1
    <3>3. \A qs : pg \in qs => pg \in counted(qs)
      BY <2>3
    <3>4. CASE Whole
      <4> HIDE DEF pages, visited, counted
      <4> QED BY <2>2, <3>2, <3>3, <3>4
    <3>5. CASE \E q \in visited : FailsAt(q)
      <4> HIDE DEF pages, visited, before, counted
      <4> QED BY <2>2, <3>2, <3>3, <3>5
    <3> HIDE DEF pages, visited, counted, before, Whole, FailsAt
    <3> QED BY <1>2, <3>4, <3>5
  <2> QED BY <2>1, <2>4
<1> HIDE DEF counted, visited, before, pages, Whole, FailsAt
<1> QED BY <1>1, <1>4, <1>5, <1>6, <1>7 DEF Counting, WithMutex

LEMMA CountingSampler ==
  ASSUME Typed, Counting, SamplerStep
  PROVE  Counting'
<1> USE ConstantsAssumption DEF kernel, tracking, history, scanning, Goes
<1>1. CASE Close \/ ForgetChannel \/ UpdateEnd \/ MarkEnd
  <2>1. /\ pc[Sampler] \notin WithMutex /\ pc'[Sampler] \notin {"scan", "scan regions", "mark"}
        /\ UNCHANGED <<kernel, tracking, left, cache, cached, fresh>> /\ tracked' \subseteq tracked
    BY <1>1 DEF Close, ForgetChannel, UpdateEnd, MarkEnd, WithMutex, Typed, Actors
  <2>2. pc[Sampler] = "mark" => Missed' \subseteq Missed
    BY <1>1 DEF Close, ForgetChannel, UpdateEnd, MarkEnd, Missed
  <2> HIDE DEF Goes
  <2> QED BY <2>1, <2>2, CountingStep DEF Counting, WithMutex
<1>2. CASE Count
  <2>1. cache = {}
    BY <1>2 DEF Count, Counting, WithMutex
  <2> QED BY <1>2, <2>1 DEF Count, Counting, Missed, WithMutex, Typed, Actors
<1>10. CASE CountFails
  BY <1>10 DEF CountFails, Counting, Missed, WithMutex, Typed, Actors
<1>3. CASE ScanRegionsEnd
  BY <1>3 DEF ScanRegionsEnd, Counting, Missed, WithMutex, Typed, Actors
<1>4. CASE ScanEnd
  BY <1>4 DEF ScanEnd, Counting, Missed, WithMutex, Typed, Actors
<1>5. ASSUME NEW p \in Pids, Update(p)
      PROVE  Counting'
  <2>1. /\ pc[Sampler] \notin WithMutex \cup {"mark"} /\ pc'[Sampler] \notin {"scan", "scan regions", "mark"}
        /\ UNCHANGED <<kernel, scanning, fresh>>
        /\ tracked' = tracked \ {p} /\ empty' = empty \cup {p}
    BY <1>5 DEF Update, AddRangesBegin, WithMutex, Typed, Actors
  <2> HIDE DEF Goes
  <2> QED BY <2>1, CountingStep DEF Counting, WithMutex
<1>6. ASSUME NEW p \in Pids, Scan(p)
      PROVE  Counting'
  <2>1. /\ pc[Sampler] = "scan" /\ pc'[Sampler] = IF p \in alive THEN "scan regions" ELSE "jammed"
        /\ todo'[Sampler] = todo[Sampler] \ {p} /\ pid'[Sampler] = p
        /\ left' = IF p \in empty /\ ~replaced THEN {} ELSE RegionsOf(p)
        /\ UNCHANGED <<kernel, tracking, cache, cached, history>>
    BY <1>6 DEF Scan, Typed, Actors
  <2>2. Missed' = Missed
    BY <2>1 DEF Missed
  <2>3. ASSUME NEW pg \in Missed, Owner[pg] \notin todo'[Sampler]
        PROVE  p = Owner[pg] /\ Region[pg] \in left'
    <3>1. p = Owner[pg] /\ pg \in Pages /\ p \in tracked
      BY <2>1, <2>3 DEF Counting, Missed
    <3>2. p \notin empty
      BY <3>1 DEF Counting
    <3> QED BY <2>1, <3>1, <3>2 DEF RegionsOf
  <2>4. p \notin alive => pc'[Sampler] = "jammed"
    BY <2>1
  <2>5. pc'[Sampler] = "scan regions" \/ pc'[Sampler] = "jammed"
    BY <2>1
  <2> HIDE DEF Goes
  <2> QED BY <2>1, <2>2, <2>3, <2>5 DEF Counting, WithMutex
<1>7. CASE \E pg \in Pages : ScanRegion(Region[pg])
  BY <1>7, CountingRegion
<1>8. CASE \/ AddRangesEnd(Sampler, "update ranges", "update")
           \/ AddRangesFails(Sampler, "update ranges", "update dead")
           \/ ForgetDead(Sampler, "update dead", "update")
  BY <1>8, CountingAdding DEF Actors
<1>9. CASE Marking(Sampler)
  BY <1>9, CountingMarking DEF Actors
<1> QED BY <1>1, <1>2, <1>3, <1>4, <1>5, <1>6, <1>7, <1>8, <1>9, <1>10 DEF SamplerStep

LEMMA CountingClient ==
  ASSUME Typed, Counting, NEW c \in Clients, Call(c) \/ CallStep(c)
  PROVE  Counting'
<1> USE ConstantsAssumption DEF kernel, tracking, history, scanning, Goes, Calls
<1>1. ASSUME NEW p \in Pids, AddPids(c, p)
      PROVE  Counting'
  <2>1. /\ UNCHANGED <<kernel, scanning, fresh, skipped, todo>> /\ pc'[Sampler] = pc[Sampler]
        /\ tracked' = tracked \ {p} /\ empty' = empty \cup {p} /\ pid'[Sampler] = pid[Sampler]
    BY <1>1 DEF AddPids, AddRangesBegin, Typed, Actors
  <2>2. Missed' \subseteq Missed
    BY <2>1 DEF Missed
  <2> HIDE DEF Goes, Calls
  <2> QED BY <2>1, <2>2, CountingStep DEF Counting
<1>2. ASSUME NEW p \in Pids, RemovePids(c, p)
      PROVE  Counting'
  <2>1. /\ UNCHANGED <<kernel, scanning, fresh, skipped, pid>> /\ pc'[Sampler] = pc[Sampler]
        /\ tracked' = tracked \ {p} /\ empty' \subseteq empty /\ mutex = None
    BY <1>2 DEF RemovePids, RemovePid, Typed, Actors
  <2>2. Missed' \subseteq Missed /\ pc[Sampler] \notin {"scan", "scan regions"}
    BY <2>1 DEF Missed, Typed, WithMutex
  <2> HIDE DEF Goes, Calls
  <2> QED BY <2>1, <2>2, CountingStep DEF Counting
<1>3. CASE RemoveAllPids(c)
  <2>1. /\ UNCHANGED <<kernel, scanning, fresh, skipped, pid, todo>> /\ pc'[Sampler] = pc[Sampler]
        /\ tracked' = {} /\ empty' = {}
    BY <1>3 DEF RemoveAllPids, Typed, Actors
  <2>2. Missed' \subseteq Missed
    BY <2>1 DEF Missed
  <2> HIDE DEF Goes, Calls
  <2> QED BY <2>1, <2>2, CountingStep DEF Counting
<1>4. CASE ResetCounters(c) \/ Stop(c) \/ StopSend(c)
  <2>1. UNCHANGED <<kernel, scanning, history, pid, todo, empty>> /\ pc'[Sampler] = pc[Sampler]
    BY <1>4 DEF ResetCounters, Stop, StopSend, Typed, Actors
  <2>2. Missed' = Missed
    BY <2>1 DEF Missed
  <2> HIDE DEF Goes, Calls
  <2> QED BY <2>1, <2>2, CountingStep DEF Counting
<1>5. CASE Start(c)
  <2>1. /\ UNCHANGED <<kernel, scanning, history, pid, empty>> /\ pc'[Sampler] = pc[Sampler]
        /\ todo'[Sampler] = todo[Sampler]
    BY <1>5 DEF Start, SetIdleBits, Typed, Actors
  <2>2. Missed' = Missed
    BY <2>1 DEF Missed
  <2> HIDE DEF Goes, Calls
  <2> QED BY <2>1, <2>2, CountingStep DEF Counting
<1>6. CASE StartSampler(c)
  <2>1. /\ UNCHANGED <<kernel, left, cache, cached, history, empty>> /\ pc[c] = "mark"
        /\ pc'[Sampler] = "select"
    BY <1>6 DEF StartSampler, Typed, Actors
  <2>2. pc[Sampler] = "off"
    BY <2>1 DEF Typed
  <2> HIDE DEF Goes, Calls
  <2> QED BY <2>1, <2>2, CountingStep DEF Counting, WithMutex
<1>7. CASE \/ AddRangesEnd(c, "add ranges", "idle") \/ AddRangesFails(c, "add ranges", "add dead")
           \/ ForgetDead(c, "add dead", "idle")
  BY <1>7, CountingAdding DEF Actors
<1>8. CASE Marking(c)
  BY <1>8, CountingMarking DEF Actors
<1> QED BY <1>1, <1>2, <1>3, <1>4, <1>5, <1>6, <1>7, <1>8 DEF Call, CallStep

LEMMA CountingNext == Typed /\ Counting /\ [Next]_vars => Counting'
<1> SUFFICES ASSUME Typed, Counting, [Next]_vars
             PROVE  Counting'
  OBVIOUS
<1> USE ConstantsAssumption DEF kernel, tracking, history, scanning
<1>1. CASE Environment
  <2>1. UNCHANGED <<scanning, pid, pc, todo, tracked, empty>> /\ alive' \subseteq alive
    BY <1>1 DEF Environment, Die, Access
  <2>2. fresh' \subseteq Pages \ (idle' \cup Tails)
    <3>1. CASE \E p \in Pids : Die(p)
      BY <3>1 DEF Die, Counting
    <3>2. ASSUME NEW pg \in Pages, Access(pg)
          PROVE  fresh' \subseteq Pages \ (idle' \cup Tails)
      <4>1. idle' = idle \ {pg} /\ (fresh' = fresh \/ (pg \notin Tails /\ fresh' = fresh \cup {pg}))
        BY <3>2 DEF Access
      <4> QED BY <4>1 DEF Counting
    <3> QED BY <1>1, <3>1, <3>2 DEF Environment
  <2>3. pc[Sampler] \in {"scan", "scan regions", "mark"} => Missed' \subseteq Missed
    BY <1>1, <2>1 DEF Environment, Die, Access, InRound, Missed
  <2> QED BY <2>1, <2>2, <2>3, CountingStep DEF Counting
<1>2. CASE Receive \/ Tick
  <2>1. /\ UNCHANGED <<kernel, scanning, history, empty>> /\ pc[Sampler] = "select"
        /\ pc'[Sampler] \in {"close", "count", "update"}
    BY <1>2 DEF Receive, Tick, Goes, Typed, Actors
  <2> QED BY <2>1, CountingStep DEF Counting, WithMutex
<1>3. CASE SamplerStep
  BY <1>3, CountingSampler
<1>4. CASE MapRace \/ UNCHANGED vars
  <2>1. UNCHANGED <<kernel, tracking, pc, pid, todo, scanning, history>>
    BY <1>4 DEF MapRace, vars
  <2>2. Missed' = Missed
    BY <2>1 DEF Missed
  <2> QED BY <2>1, <2>2, CountingStep DEF Counting
<1>5. CASE \E c \in Clients : Call(c) \/ CallStep(c)
  BY <1>5, CountingClient
<1> QED BY <1>1, <1>2, <1>3, <1>4, <1>5 DEF Next

\* For any number of processes, pages, words and clients, and whichever files of the kernel
\* fail: marking loses no access but those that came too late for the scan or are behind a
\* page of their region that could not be read, or of processes that exited or were not
\* tracked throughout the round.
THEOREM NothingElseIsLost == Spec => LostOnlyMeanwhile
<1>1. Counting /\ [Next]_vars =>
        [pc[Sampler] = "mark" =>
           \A pg \in fresh \ fresh' : pg \in skipped \/ Owner[pg] \notin tracked \cap alive]_vars
  BY DEF Counting, Missed
<1>2. Init => Typed /\ Counting
  BY TypedInit, CountingInit
<1>3. Typed /\ Counting /\ [Next]_vars => Typed' /\ Counting'
  BY TypedNext, CountingNext
<1> QED BY <1>1, <1>2, <1>3, PTL DEF Spec, LostOnlyMeanwhile

-----------------------------------------------------------------------------
(* The soft-dirty tracker *)

ClientPCs == {"idle", "add clear", "add ranges", "add dead", "remove regions",
              "remove accesses", "clear list", "clear", "stop send"}
SamplerPCs == {"off", "select", "quit", "update list", "update", "update dead", "count",
               "scan list", "scan", "scan region", "store", "remove regions",
               "remove accesses", "clear list", "clear"}
\* Regions are numbered from 1.
Positive == Nat \ {0}
Removing == {"remove regions", "remove accesses"}

\* TypeOK with the returns of removePid, on which the program counters depend.
SoftTyped ==
  /\ softAlive \subseteq SoftPids /\ softRegions \subseteq SoftPids
  /\ softAccesses \subseteq SoftPids \X Positive
  /\ softToSampler \in {"nil", "empty", "full"}
  /\ softMutex \in SoftClients \cup {NoOne} /\ regionsMutex \in Soft!Actors \cup {NoOne}
  /\ softPc \in [Soft!Actors -> ClientPCs \cup SamplerPCs]
  /\ back \in [Soft!Actors -> {"idle", "add ranges", "clear", "scan"}]
  /\ \A c \in SoftClients : softPc[c] \in ClientPCs /\ back[c] \in {"idle", "add ranges", "clear"}
  /\ \A s \in Samplers : softPc[s] \in SamplerPCs /\ (softPc[s] \in Removing => back[s] \in {"scan", "clear"})
  /\ \A s \in Samplers : softPc[s] \in {"scan region", "store"} => softPid[s] \in SoftPids
  /\ softTodo \in [Soft!Actors -> SUBSET SoftPids] /\ softPid \in [Soft!Actors -> SoftPids \cup {NoOne}]
  /\ region \in [Samplers -> Positive]

LEMMA PositiveNumbers == 1 \in Positive /\ \A n \in Positive : n + 1 \in Positive
  BY DEF Positive

LEMMA SoftTypedInit ==
  ASSUME Soft!ConstantsAssumption
  PROVE  Soft!Init => SoftTyped
  BY PositiveNumbers, Soft!ConstantsAssumption DEF Soft!Init, SoftTyped, Soft!Actors, ClientPCs,
       SamplerPCs, Removing

\* One step of the program counter, of a client or of a sampler.
LEMMA SoftPcStep ==
  ASSUME Soft!ConstantsAssumption,
         SoftTyped, NEW a \in Soft!Actors, NEW to, softPc' = [softPc EXCEPT ![a] = to], UNCHANGED back,
         a \in SoftClients => to \in ClientPCs,
         a \in Samplers => to \in SamplerPCs \ Removing \/ (softPc[a] \in Removing /\ to \in SamplerPCs)
  PROVE  /\ softPc' \in [Soft!Actors -> ClientPCs \cup SamplerPCs]
         /\ \A c \in SoftClients : softPc'[c] \in ClientPCs
         /\ \A s \in Samplers : softPc'[s] \in SamplerPCs /\ (softPc'[s] \in Removing => back'[s] \in {"scan", "clear"})
  BY Soft!ConstantsAssumption DEF SoftTyped, Soft!Actors

\* A call of removePid remembers where to return to.
LEMMA RemoveStep ==
  ASSUME Soft!ConstantsAssumption,
         SoftTyped, NEW a \in Soft!Actors, NEW p \in SoftPids, NEW from, NEW to, Soft!GoesToRemove(a, p, from, to),
         a \in SoftClients => to \in {"idle", "add ranges", "clear"},
         a \in Samplers => to \in {"scan", "clear"}
  PROVE  /\ softPc' \in [Soft!Actors -> ClientPCs \cup SamplerPCs]
         /\ back' \in [Soft!Actors -> {"idle", "add ranges", "clear", "scan"}]
         /\ softPid' \in [Soft!Actors -> SoftPids \cup {NoOne}]
         /\ \A c \in SoftClients : softPc'[c] \in ClientPCs /\ back'[c] \in {"idle", "add ranges", "clear"}
         /\ \A s \in Samplers : softPc'[s] \in SamplerPCs /\ (softPc'[s] \in Removing => back'[s] \in {"scan", "clear"})
         /\ \A s \in Samplers : softPc'[s] \in {"scan region", "store"} => softPid'[s] \in SoftPids
  BY Soft!ConstantsAssumption DEF SoftTyped, Soft!Actors, Soft!GoesToRemove, Soft!Goes,
       ClientPCs, SamplerPCs, Removing

\* removePid and clearPageBits, which clients and samplers share.
LEMMA SoftTypedShared ==
  ASSUME Soft!ConstantsAssumption, SoftTyped, NEW a \in Soft!Actors,
         Soft!RemoveRegions(a) \/ Soft!RemoveAccesses(a) \/ Soft!ClearList(a) \/ Soft!Clear(a)
  PROVE  SoftTyped'
<1> USE Soft!ConstantsAssumption DEF Soft!Actors
<1>1. CASE Soft!RemoveRegions(a)
  BY <1>1 DEF SoftTyped, Soft!RemoveRegions, Soft!Goes, Soft!locals, ClientPCs, SamplerPCs,
       Removing
<1>2. CASE Soft!RemoveAccesses(a)
  BY <1>2 DEF SoftTyped, Soft!RemoveAccesses, Soft!Goes, Soft!locals, ClientPCs, SamplerPCs,
       Removing
<1>3. CASE Soft!ClearList(a)
  BY <1>3 DEF SoftTyped, Soft!ClearList, Soft!Goes, ClientPCs, SamplerPCs, Removing
<1>4. CASE Soft!Clear(a)
  <2>1. PICK p \in softTodo[a] :
          /\ softTodo' = [softTodo EXCEPT ![a] = @ \ {p}]
          /\ \/ p \in softAlive /\ Soft!Goes(a, "clear", "clear") /\ UNCHANGED <<softPid, back>>
             \/ p \notin softAlive /\ Soft!GoesToRemove(a, p, "clear", "clear")
    BY <1>4 DEF Soft!Clear
  <2>2. p \in SoftPids /\ softTodo' \in [Soft!Actors -> SUBSET SoftPids]
    BY <2>1 DEF SoftTyped
  <2>3. CASE Soft!Goes(a, "clear", "clear") /\ UNCHANGED <<softPid, back>>
    BY <1>4, <2>2, <2>3 DEF Soft!Clear, SoftTyped, Soft!Goes, ClientPCs, SamplerPCs, Removing
  <2>4. CASE Soft!GoesToRemove(a, p, "clear", "clear")
    BY <1>4, <2>2, <2>4, RemoveStep DEF Soft!Clear, SoftTyped
  <2> QED BY <2>1, <2>3, <2>4
<1> QED BY <1>1, <1>2, <1>3, <1>4

LEMMA TypedClient ==
  ASSUME Soft!ConstantsAssumption,
         SoftTyped, NEW c \in SoftClients, Soft!ClientCall(c) \/ Soft!ClientStep(c)
  PROVE  SoftTyped'
<1> c \in Soft!Actors /\ c \notin Samplers
  BY Soft!ConstantsAssumption DEF Soft!Actors
<1> USE Soft!ConstantsAssumption DEF Soft!Calls, Soft!Goes, Soft!locals, Soft!Actors
<1>1. CASE \E p \in SoftPids : Soft!AddPids(c, p)
  <2>1. PICK p \in SoftPids : Soft!AddPids(c, p)
    BY <1>1
  <2>2. softPid' \in [Soft!Actors -> SoftPids \cup {NoOne}]
    BY <2>1 DEF Soft!AddPids, SoftTyped
  <2>3. softPc' = [softPc EXCEPT ![c] = "add clear"] /\ UNCHANGED back
        /\ \A s \in Samplers : softPid'[s] = softPid[s]
    BY <2>1 DEF Soft!AddPids, SoftTyped
  <2>4. \A s \in Samplers : softPc'[s] = softPc[s]
    BY <2>3 DEF SoftTyped
  <2> QED BY <2>1, <2>2, <2>3, <2>4, SoftPcStep DEF SoftTyped, Soft!AddPids, ClientPCs
<1>2. CASE \E p \in SoftPids : Soft!RemovePids(c, p)
  <2>1. PICK p \in SoftPids : Soft!RemovePids(c, p)
    BY <1>2
  <2> QED BY <2>1, RemoveStep DEF Soft!RemovePids, SoftTyped
<1>3. CASE Soft!RemoveAllPids(c) \/ Soft!ResetCounters(c)
  BY <1>3 DEF SoftTyped, Soft!RemoveAllPids, Soft!ResetCounters, ClientPCs
<1>4. CASE Soft!Start(c) \/ Soft!Stop(c)
  BY <1>4 DEF SoftTyped, Soft!Start, Soft!Stop, ClientPCs
<1>5. CASE Soft!AddClear(c)
  <2>1. CASE softPid[c] \in softAlive
    BY <1>5, <2>1 DEF SoftTyped, Soft!AddClear, Soft!GoesToRemove, ClientPCs
  <2>2. CASE softPid[c] \notin softAlive
    <3>1. /\ softPc' = [softPc EXCEPT ![c] = "remove regions"] /\ softPid' = softPid
          /\ back' = [back EXCEPT ![c] = "add ranges"]
      BY <1>5, <2>2 DEF SoftTyped, Soft!AddClear, Soft!GoesToRemove
    <3>2. \A s \in Samplers : softPc'[s] = softPc[s] /\ back'[s] = back[s]
      BY <3>1 DEF SoftTyped
    <3> QED BY <1>5, <3>1, <3>2 DEF SoftTyped, Soft!AddClear, ClientPCs
  <2> QED BY <2>1, <2>2
<1>6. CASE Soft!AddRanges(c) \/ Soft!AddRangesFails(c) \/ Soft!AddDead(c)
  <2>1. CASE Soft!AddRanges(c)
    BY <2>1 DEF SoftTyped, Soft!AddRanges, ClientPCs
  <2>2. CASE Soft!AddRangesFails(c)
    BY <2>2 DEF SoftTyped, Soft!AddRangesFails, ClientPCs
  <2>3. CASE Soft!AddDead(c)
    BY <2>3 DEF SoftTyped, Soft!AddDead, ClientPCs
  <2> QED BY <1>6, <2>1, <2>2, <2>3
<1>7. CASE Soft!StartSampler(c)
  <2>1. PICK s \in Samplers : softPc' = [softPc EXCEPT ![c] = "idle", ![s] = "select"]
    BY <1>7 DEF Soft!StartSampler
  <2>2. /\ softPc' \in [Soft!Actors -> ClientPCs \cup SamplerPCs]
        /\ \A d \in SoftClients : softPc'[d] \in {softPc[d], "idle"}
        /\ \A t \in Samplers : softPc'[t] \in {softPc[t], "select"}
    BY <2>1 DEF SoftTyped, ClientPCs, SamplerPCs
  <2> QED BY <1>7, <2>2 DEF SoftTyped, Soft!StartSampler, ClientPCs, SamplerPCs, Removing
<1>8. CASE Soft!StopSend(c)
  BY <1>8 DEF SoftTyped, Soft!StopSend, ClientPCs
<1> QED BY <1>1, <1>2, <1>3, <1>4, <1>5, <1>6, <1>7, <1>8, SoftTypedShared DEF Soft!ClientCall,
     Soft!ClientStep

LEMMA SoftTypedSampler ==
  ASSUME Soft!ConstantsAssumption, SoftTyped, NEW s \in Samplers, Soft!SamplerStep(s)
  PROVE  SoftTyped'
<1> s \in Soft!Actors /\ s \notin SoftClients
  BY Soft!ConstantsAssumption DEF Soft!Actors
<1> USE Soft!ConstantsAssumption DEF Soft!Goes, Soft!locals, Soft!Actors
<1>1. CASE Soft!SamplerReceive(s) \/ Soft!SamplerQuit(s) \/ Soft!SamplerTick(s)
  <2>1. CASE Soft!SamplerReceive(s)
    BY <2>1 DEF SoftTyped, Soft!SamplerReceive, SamplerPCs, Removing
  <2>2. CASE Soft!SamplerQuit(s)
    BY <2>2 DEF SoftTyped, Soft!SamplerQuit, SamplerPCs, Removing
  <2>3. CASE Soft!SamplerTick(s)
    BY <2>3 DEF SoftTyped, Soft!SamplerTick, SamplerPCs, Removing
  <2> QED BY <1>1, <2>1, <2>2, <2>3
<1>2. CASE Soft!UpdateList(s) \/ Soft!UpdateDead(s) \/ Soft!UpdateEnd(s)
  <2>1. CASE Soft!UpdateList(s)
    BY <2>1 DEF SoftTyped, Soft!UpdateList, SamplerPCs, Removing
  <2>2. CASE Soft!UpdateDead(s)
    BY <2>2 DEF SoftTyped, Soft!UpdateDead, SamplerPCs, Removing
  <2>3. CASE Soft!UpdateEnd(s)
    BY <2>3 DEF SoftTyped, Soft!UpdateEnd, SamplerPCs, Removing
  <2> QED BY <1>2, <2>1, <2>2, <2>3
<1>3. CASE Soft!Update(s)
  <2>1. PICK p \in softTodo[s] :
          /\ softTodo' = [softTodo EXCEPT ![s] = @ \ {p}]
          /\ softPid' = [softPid EXCEPT ![s] = p]
          /\ \/ p \in softAlive /\ Soft!Goes(s, "update", "update") /\ UNCHANGED softRegions
             \/ p \notin softAlive /\ Soft!Goes(s, "update", "update dead") /\ softRegions' = softRegions \ {p}
    BY <1>3 DEF Soft!Update
  <2>2. /\ p \in SoftPids /\ softTodo' \in [Soft!Actors -> SUBSET SoftPids]
        /\ softPid' \in [Soft!Actors -> SoftPids \cup {NoOne}]
    BY <2>1 DEF SoftTyped
  <2>3. PICK to \in {"update", "update dead"} : softPc' = [softPc EXCEPT ![s] = to]
    BY <2>1
  <2>4. softRegions' \subseteq SoftPids
    BY <2>1 DEF SoftTyped
  <2> QED BY <1>3, <2>2, <2>3, <2>4, SoftPcStep DEF SoftTyped, Soft!Update, SamplerPCs, Removing
<1>4. CASE Soft!Count(s) \/ Soft!CountFails(s) \/ Soft!ScanList(s) \/ Soft!ScanEnd(s)
  <2>1. CASE Soft!Count(s)
    BY <2>1 DEF SoftTyped, Soft!Count, SamplerPCs, Removing
  <2>4. CASE Soft!CountFails(s)
    BY <2>4 DEF SoftTyped, Soft!CountFails, SamplerPCs, Removing
  <2>2. CASE Soft!ScanList(s)
    BY <2>2 DEF SoftTyped, Soft!ScanList, SamplerPCs, Removing
  <2>3. CASE Soft!ScanEnd(s)
    BY <2>3 DEF SoftTyped, Soft!ScanEnd, SamplerPCs, Removing
  <2> QED BY <1>4, <2>1, <2>2, <2>3, <2>4
<1>5. CASE Soft!ScanPid(s)
  <2>1. PICK p \in softTodo[s] :
          /\ softTodo' = [softTodo EXCEPT ![s] = @ \ {p}]
          /\ \/ /\ p \in softAlive
                /\ Soft!Goes(s, "scan", "scan region")
                /\ softPid' = [softPid EXCEPT ![s] = p]
                /\ region' = [region EXCEPT ![s] = 1]
                /\ UNCHANGED back
             \/ /\ p \notin softAlive
                /\ Soft!GoesToRemove(s, p, "scan", "scan")
                /\ UNCHANGED region
    BY <1>5 DEF Soft!ScanPid
  <2>2. p \in SoftPids /\ softTodo' \in [Soft!Actors -> SUBSET SoftPids]
    BY <2>1 DEF SoftTyped
  <2>3. CASE p \in softAlive
    <3>1. region' = [region EXCEPT ![s] = 1] /\ softPid' = [softPid EXCEPT ![s] = p]
      BY <2>1, <2>3
    <3>3. region' \in [Samplers -> Positive]
      BY <3>1, PositiveNumbers DEF SoftTyped
    <3>4. softPid' \in [Soft!Actors -> SoftPids \cup {NoOne}] /\ softPid'[s] \in SoftPids
      BY <2>2, <3>1 DEF SoftTyped
    <3>2. softPc' = [softPc EXCEPT ![s] = "scan region"] /\ UNCHANGED back
      BY <2>1, <2>3
    <3> QED BY <1>5, <2>2, <3>1, <3>2, <3>3, <3>4, SoftPcStep DEF Soft!ScanPid, SoftTyped,
         SamplerPCs, Removing
  <2>4. CASE p \notin softAlive
    BY <1>5, <2>1, <2>2, <2>4, RemoveStep DEF Soft!ScanPid, SoftTyped
  <2> QED BY <2>3, <2>4
<1>6. CASE Soft!ScanRegion(s)
  BY <1>6 DEF SoftTyped, Soft!ScanRegion, SamplerPCs, Removing
<1>7. CASE Soft!ScanRegionsEnd(s) \/ Soft!SamplerCleared(s)
  <2>1. CASE Soft!ScanRegionsEnd(s)
    BY <2>1 DEF SoftTyped, Soft!ScanRegionsEnd, SamplerPCs, Removing
  <2>2. CASE Soft!SamplerCleared(s)
    BY <2>2 DEF SoftTyped, Soft!SamplerCleared, SamplerPCs, Removing
  <2> QED BY <1>7, <2>1, <2>2
<1>8. CASE Soft!Store(s)
  <2>2. region' \in [Samplers -> Positive]
    <3>1. region' = [region EXCEPT ![s] = region[s] + 1] /\ region[s] \in Positive
      BY <1>8 DEF SoftTyped, Soft!Store
    <3>2. region[s] + 1 \in Positive
      BY <3>1, PositiveNumbers
    <3> QED BY <3>1, <3>2 DEF SoftTyped
  <2>3. softPid[s] \in SoftPids /\ softPc' = [softPc EXCEPT ![s] = "scan region"]
    BY <1>8 DEF SoftTyped, Soft!Store
  <2>4. softAccesses' \subseteq SoftPids \X Positive
    <3>1. softAccesses' = softAccesses \cup {<<softPid[s], region[s]>>}
      BY <1>8 DEF Soft!Store
    <3>2. softPid[s] \in SoftPids /\ region[s] \in Positive
      BY <2>3 DEF SoftTyped
    <3>3. softAccesses \subseteq SoftPids \X Positive
      BY DEF SoftTyped
    <3>4. <<softPid[s], region[s]>> \in SoftPids \X Positive
      BY <3>2
    <3> QED BY <3>1, <3>3, <3>4
  <2> QED BY <1>8, <2>2, <2>3, <2>4, SoftPcStep DEF SoftTyped, Soft!Store, SamplerPCs, Removing
<1> QED BY <1>1, <1>2, <1>3, <1>4, <1>5, <1>6, <1>7, <1>8, SoftTypedShared DEF Soft!SamplerStep

LEMMA SoftTypedNext ==
  ASSUME Soft!ConstantsAssumption
  PROVE  SoftTyped /\ [Soft!Next]_(Soft!vars) => SoftTyped'
<1> SUFFICES ASSUME SoftTyped, [Soft!Next]_(Soft!vars) PROVE SoftTyped'
  OBVIOUS
<1>1. ASSUME NEW p \in SoftPids, Soft!Die(p) PROVE SoftTyped'
  BY <1>1 DEF SoftTyped, Soft!Die, Soft!locals
<1>2. CASE UNCHANGED Soft!vars
  BY <1>2 DEF SoftTyped, Soft!vars, Soft!locals
<1> QED BY <1>1, <1>2, TypedClient, SoftTypedSampler DEF Soft!Next

\* Whatever clients, samplers and exiting processes do, the tracker's state has
\* its type: no actor gets to a step that is not its own through removePid.
THEOREM SoftTypeCorrect ==
  ASSUME Soft!ConstantsAssumption
  PROVE  Soft!Spec => []Soft!TypeOK
<1>1. SoftTyped => Soft!TypeOK
  BY DEF SoftTyped, Soft!TypeOK, ClientPCs, SamplerPCs, Positive
<1> QED BY <1>1, SoftTypedInit, SoftTypedNext, PTL DEF Soft!Spec

-----------------------------------------------------------------------------
\* A client between the lock and the unlock of Start.
InStart(c) == \/ softPc[c] \in {"clear list", "clear"}
              \/ softPc[c] \in Removing /\ back[c] = "clear"

\* Who owns the mutex, what the channel holds meanwhile, and OneSampler in
\* terms of the program counters.
Owners ==
  /\ \A c \in SoftClients : softMutex = c <=> (InStart(c) \/ softPc[c] = "stop send")
  /\ \A c \in SoftClients : InStart(c) => softToSampler = "empty"
  /\ \A c \in SoftClients : softPc[c] = "stop send" => softToSampler # "nil"
  /\ \A s, t \in Samplers : softPc[s] # "off" /\ softPc[t] # "off" => s = t
  /\ (\A s \in Samplers : softPc[s] = "off")
        <=> (softToSampler = "nil" \/ \E c \in SoftClients : InStart(c))

LEMMA OwnersInit ==
  ASSUME Soft!ConstantsAssumption
  PROVE  Soft!Init => Owners
  BY Soft!ConstantsAssumption DEF Soft!Init, Owners, InStart, Soft!Actors, Removing

\* A step that neither locks, unlocks, starts nor ends anything.
LEMMA OwnersQuiet ==
  ASSUME Soft!ConstantsAssumption, Owners, UNCHANGED <<softToSampler, softMutex>>,
         \A c \in SoftClients : (InStart(c) <=> InStart(c)') /\ (softPc[c] = "stop send" <=> softPc'[c] = "stop send"),
         \A s \in Samplers : softPc[s] = "off" <=> softPc'[s] = "off"
  PROVE  Owners'
  BY DEF Owners

LEMMA OwnersShared ==
  ASSUME Soft!ConstantsAssumption, SoftTyped, Owners, NEW a \in Soft!Actors,
         Soft!RemoveRegions(a) \/ Soft!RemoveAccesses(a) \/ Soft!ClearList(a) \/ Soft!Clear(a)
  PROVE  Owners'
<1> USE Soft!ConstantsAssumption DEF Soft!Actors, Soft!Goes
<1>1. CASE Soft!RemoveRegions(a)
  BY <1>1, OwnersQuiet DEF Soft!RemoveRegions, SoftTyped, InStart, Soft!locals, Removing
<1>2. CASE Soft!RemoveAccesses(a)
  <2>1. a \in SoftClients => ~InStart(a)
    BY <1>2 DEF Soft!RemoveAccesses, Owners
  <2> QED BY <1>2, <2>1, OwnersQuiet
        DEF Soft!RemoveAccesses, SoftTyped, InStart, Soft!locals, Removing, ClientPCs
<1>3. CASE Soft!ClearList(a)
  BY <1>3, OwnersQuiet DEF Soft!ClearList, SoftTyped, InStart, Removing
<1>4. CASE Soft!Clear(a)
  <2>1. PICK p : \/ Soft!Goes(a, "clear", "clear") /\ UNCHANGED <<softPid, back>>
                 \/ Soft!GoesToRemove(a, p, "clear", "clear")
    BY <1>4 DEF Soft!Clear
  <2> QED BY <1>4, <2>1, OwnersQuiet DEF Soft!Clear, Soft!GoesToRemove, SoftTyped, InStart,
       Removing
<1> QED BY <1>1, <1>2, <1>3, <1>4

LEMMA OwnersClient ==
  ASSUME Soft!ConstantsAssumption,
         SoftTyped, Owners, NEW c \in SoftClients, Soft!ClientCall(c) \/ Soft!ClientStep(c)
  PROVE  Owners'
<1> c \in Soft!Actors /\ c \notin Samplers /\ c # NoOne
  BY Soft!ConstantsAssumption DEF Soft!Actors
<1> USE Soft!ConstantsAssumption DEF Soft!Calls, Soft!Goes, Soft!locals, Soft!Actors
<1>1. CASE \E p \in SoftPids : Soft!AddPids(c, p)
  BY <1>1, OwnersQuiet DEF SoftTyped, Soft!AddPids, InStart, Removing
<1>2. CASE \E p \in SoftPids : Soft!RemovePids(c, p)
  BY <1>2, OwnersQuiet DEF SoftTyped, Soft!RemovePids, Soft!GoesToRemove, InStart, Removing
<1>3. CASE Soft!RemoveAllPids(c) \/ Soft!ResetCounters(c)
  BY <1>3, OwnersQuiet DEF SoftTyped, Soft!RemoveAllPids, Soft!ResetCounters, InStart, Removing
<1>4. CASE Soft!Start(c)
  <2>1. /\ softMutex = NoOne /\ softMutex' = c /\ softToSampler = "nil" /\ softToSampler' = "empty"
        /\ softPc' = [softPc EXCEPT ![c] = "clear list"] /\ UNCHANGED back
    BY <1>4 DEF Soft!Start
  <2>2. /\ \A d \in SoftClients : ~InStart(d) /\ softPc[d] # "stop send"
        /\ \A s \in Samplers : softPc[s] = "off"
    BY <2>1 DEF Owners
  <2>3. /\ InStart(c)' /\ softPc'[c] # "stop send"
        /\ \A d \in SoftClients \ {c} : ~InStart(d)' /\ softPc'[d] # "stop send"
        /\ \A s \in Samplers : softPc'[s] = "off"
    BY <2>1, <2>2 DEF SoftTyped, InStart, Removing
  <2> QED BY <2>1, <2>3 DEF Owners
<1>5. CASE Soft!Stop(c)
  <2>1. /\ softMutex = NoOne /\ softMutex' = c /\ softToSampler # "nil" /\ softToSampler' = softToSampler
        /\ softPc' = [softPc EXCEPT ![c] = "stop send"] /\ UNCHANGED back
    BY <1>5 DEF Soft!Stop
  <2>2. \A d \in SoftClients : ~InStart(d) /\ softPc[d] # "stop send"
    BY <2>1 DEF Owners
  <2>3. /\ softPc'[c] = "stop send" /\ \A d \in SoftClients : ~InStart(d)'
        /\ \A d \in SoftClients \ {c} : softPc'[d] # "stop send"
        /\ \A s \in Samplers : softPc'[s] = softPc[s]
    BY <2>1, <2>2 DEF SoftTyped, InStart, Removing
  <2> QED BY <2>1, <2>2, <2>3 DEF Owners
<1>6. CASE Soft!AddClear(c) \/ Soft!AddRanges(c) \/ Soft!AddRangesFails(c) \/ Soft!AddDead(c)
  BY <1>6, OwnersQuiet
     DEF SoftTyped, Soft!AddClear, Soft!GoesToRemove, Soft!AddRanges, Soft!AddRangesFails,
          Soft!AddDead, InStart, Removing
<1>7. CASE Soft!StartSampler(c)
  <2>1. PICK s \in Samplers : softPc[s] = "off" /\ softPc' = [softPc EXCEPT ![c] = "idle", ![s] = "select"]
    BY <1>7 DEF Soft!StartSampler
  <2>2. InStart(c) /\ softMutex' = NoOne /\ UNCHANGED <<softToSampler, back>>
    BY <1>7 DEF Soft!StartSampler, InStart
  <2>3. /\ softMutex = c /\ softToSampler = "empty" /\ \A t \in Samplers : softPc[t] = "off"
        /\ \A d \in SoftClients \ {c} : ~InStart(d) /\ softPc[d] # "stop send"
    BY <2>2 DEF Owners
  <2>4. /\ \A d \in SoftClients : ~InStart(d)' /\ softPc'[d] # "stop send"
        /\ softPc'[s] # "off" /\ \A t \in Samplers \ {s} : softPc'[t] = "off"
    BY <2>1, <2>2, <2>3 DEF SoftTyped, InStart, Removing
  <2>5. \A d \in SoftClients : softMutex' # d
    BY <2>2
  <2> QED BY <2>2, <2>3, <2>4, <2>5 DEF Owners
<1>8. CASE Soft!StopSend(c)
  <2>1. /\ softPc[c] = "stop send" /\ softPc' = [softPc EXCEPT ![c] = "idle"] /\ UNCHANGED back
        /\ softToSampler = "empty" /\ softToSampler' = "full" /\ softMutex' = NoOne
    BY <1>8 DEF Soft!StopSend
  <2>2. \A d \in SoftClients : ~InStart(d) /\ (d # c => softPc[d] # "stop send")
    BY <2>1 DEF Owners, InStart, Removing
  <2>3. /\ \A d \in SoftClients : ~InStart(d)' /\ softPc'[d] # "stop send" /\ softMutex' # d
        /\ \A s \in Samplers : softPc'[s] = softPc[s]
    BY <2>1, <2>2 DEF SoftTyped, InStart, Removing
  <2> QED BY <2>1, <2>2, <2>3 DEF Owners
<1> QED BY <1>1, <1>2, <1>3, <1>4, <1>5, <1>6, <1>7, <1>8, OwnersShared
     DEF Soft!ClientCall, Soft!ClientStep

LEMMA OwnersSampler ==
  ASSUME Soft!ConstantsAssumption, SoftTyped, Owners, NEW s \in Samplers, Soft!SamplerStep(s)
  PROVE  Owners'
<1> s \in Soft!Actors /\ s \notin SoftClients
  BY Soft!ConstantsAssumption DEF Soft!Actors
<1> USE Soft!ConstantsAssumption DEF Soft!Goes, Soft!locals, Soft!Actors
<1>1. CASE Soft!SamplerReceive(s)
  <2>1. /\ softToSampler = "full" /\ softToSampler' = "empty" /\ UNCHANGED <<softMutex, back>>
        /\ softPc[s] = "select" /\ softPc' = [softPc EXCEPT ![s] = "quit"]
    BY <1>1 DEF Soft!SamplerReceive
  <2>2. /\ \A c \in SoftClients : softPc'[c] = softPc[c] /\ (InStart(c)' <=> InStart(c))
        /\ \A t \in Samplers : softPc'[t] = "off" <=> softPc[t] = "off"
    BY <2>1 DEF SoftTyped, InStart, Removing
  <2> QED BY <2>1, <2>2 DEF Owners
<1>2. CASE Soft!SamplerQuit(s)
  <2>1. /\ softMutex = NoOne /\ softToSampler' = "nil" /\ UNCHANGED <<softMutex, back>>
        /\ softPc[s] = "quit" /\ softPc' = [softPc EXCEPT ![s] = "off"]
    BY <1>2 DEF Soft!SamplerQuit
  <2>2. /\ \A c \in SoftClients : ~InStart(c) /\ softPc[c] # "stop send"
        /\ \A t \in Samplers : t # s => softPc[t] = "off"
    BY <2>1 DEF Owners
  <2>3. /\ \A c \in SoftClients : softPc'[c] = softPc[c] /\ ~InStart(c)'
        /\ \A t \in Samplers : softPc'[t] = "off"
    BY <2>1, <2>2 DEF SoftTyped, InStart, Removing
  <2> QED BY <2>1, <2>2, <2>3 DEF Owners
<1>3. CASE \/ Soft!SamplerTick(s) \/ Soft!UpdateList(s) \/ Soft!UpdateDead(s) \/ Soft!UpdateEnd(s) \/ Soft!Count(s)
           \/ Soft!CountFails(s) \/ Soft!ScanRegion(s) \/ Soft!ScanList(s) \/ Soft!ScanEnd(s) \/ Soft!ScanRegionsEnd(s) \/ Soft!Store(s) \/ Soft!SamplerCleared(s)
  <2>1. PICK to : /\ softPc[s] # "off" /\ to # "off" /\ softPc' = [softPc EXCEPT ![s] = to]
                  /\ UNCHANGED <<softToSampler, softMutex, back>>
    BY <1>3 DEF Soft!SamplerTick, Soft!UpdateList, Soft!UpdateDead, Soft!UpdateEnd, Soft!Count,
         Soft!CountFails, Soft!ScanRegion, Soft!ScanList, Soft!ScanEnd,
      Soft!ScanRegionsEnd, Soft!Store, Soft!SamplerCleared
  <2> QED BY <2>1, OwnersQuiet DEF SoftTyped, InStart
<1>4. CASE Soft!Update(s) \/ Soft!ScanPid(s)
  <2>1. PICK to, where :
          /\ softPc[s] # "off" /\ to # "off" /\ softPc' = [softPc EXCEPT ![s] = to]
          /\ \/ back' = back
             \/ back' = [back EXCEPT ![s] = where]
          /\ UNCHANGED <<softToSampler, softMutex>>
    BY <1>4 DEF Soft!Update, Soft!ScanPid, Soft!GoesToRemove
  <2>2. \A c \in SoftClients : softPc'[c] = softPc[c] /\ back'[c] = back[c]
    BY <2>1 DEF SoftTyped
  <2>3. \A t \in Samplers : softPc[t] = "off" <=> softPc'[t] = "off"
    BY <2>1 DEF SoftTyped
  <2> QED BY <2>1, <2>2, <2>3, OwnersQuiet DEF InStart
<1> QED BY <1>1, <1>2, <1>3, <1>4, OwnersShared DEF Soft!SamplerStep

LEMMA OwnersNext ==
  ASSUME Soft!ConstantsAssumption
  PROVE  SoftTyped /\ Owners /\ [Soft!Next]_(Soft!vars) => Owners'
<1> SUFFICES ASSUME SoftTyped, Owners, [Soft!Next]_(Soft!vars) PROVE Owners'
  OBVIOUS
<1>1. ASSUME NEW p \in SoftPids, Soft!Die(p) PROVE Owners'
  BY <1>1, OwnersQuiet DEF Soft!Die, Soft!locals, InStart
<1>2. CASE UNCHANGED Soft!vars
  BY <1>2, OwnersQuiet DEF Soft!vars, Soft!locals, InStart
<1> QED BY <1>1, <1>2, OwnersClient, OwnersSampler DEF Soft!Next

\* For any number of clients, samplers and processes there is one sampler exactly
\* when toSampler is not nil and nobody is starting: a second sampler never runs
\* beside one that has not yet seen its stop, and Start never refuses for a
\* sampler that is gone.
THEOREM AtMostOneSampler ==
  ASSUME Soft!ConstantsAssumption
  PROVE  Soft!Spec => []Soft!OneSampler
<1>1. SoftTyped /\ Owners => Soft!OneSampler
  <2> SUFFICES ASSUME SoftTyped, Owners PROVE Soft!OneSampler
    OBVIOUS
  <2>1. Soft!Starting <=> \E c \in SoftClients : InStart(c)
    BY DEF Soft!Starting, Owners, InStart, Removing
  <2> QED BY <2>1 DEF Soft!OneSampler, Soft!Live, Owners
<1> QED BY <1>1, SoftTypedInit, SoftTypedNext, OwnersInit, OwnersNext, PTL DEF Soft!Spec

-----------------------------------------------------------------------------
(* The pid watchers *)

\* Every reachable state of the pid watchers is well typed; in particular an
\* actor holds the source's mutex exactly while it reports, so of any number of
\* loops and polls no two report at a time.
LEMMA WatchTypeInit ==
  ASSUME W!ConstantsAssumption
  PROVE  W!Init => W!TypeOK
<1> SUFFICES ASSUME W!Init PROVE W!TypeOK
  OBVIOUS
<1>1. \A a \in W!Actors : watchPc[a] \in {"idle", "off"}
  BY DEF W!Init
<1>2. watchPc \in [W!Actors -> {"idle", "off"}]
  BY DEF W!Init
<1>3. {found, news, olds} \subseteq [W!Actors -> SUBSET WatchPids]
  BY DEF W!Init
<1>4. \A a \in W!Actors : watchMutex # a
  BY W!ConstantsAssumption DEF W!Init, W!Actors
<1> QED BY <1>1, <1>2, <1>3, <1>4 DEF W!Init, W!TypeOK

LEMMA WatchTypeNext ==
  ASSUME W!ConstantsAssumption
  PROVE  W!TypeOK /\ [W!Next]_(W!vars) => W!TypeOK'
<1> SUFFICES ASSUME W!TypeOK, [W!Next]_(W!vars) PROVE W!TypeOK'
  OBVIOUS
<1> USE DEF W!Actors
<1>1. ASSUME NEW p \in WatchPids, W!Process(p) PROVE W!TypeOK'
  BY <1>1 DEF W!TypeOK, W!Process, W!Appear, W!Vanish, W!Change, W!mutexes, W!told, W!reads
<1>2. ASSUME NEW c \in WatchClients, W!ClientCall(c) PROVE W!TypeOK'
  <2>1. CASE W!SetPidListener(c)
    BY <2>1 DEF W!TypeOK, W!SetPidListener, W!Calls, W!Goes, W!processes, W!mutexes, W!told,
           W!reads
  <2>2. CASE W!Start(c)
    BY <2>2 DEF W!TypeOK, W!Start, W!Enter, W!Calls, W!Goes, W!processes, W!told, W!reads
  <2>3. CASE W!Stop(c)
    BY <2>3 DEF W!TypeOK, W!Stop, W!Enter, W!Calls, W!Goes, W!processes, W!told, W!reads
  <2>4. CASE W!Poll(c)
    BY <2>4 DEF W!TypeOK, W!Poll, W!Calls, W!Goes, W!processes, W!mutexes, W!told, W!reads
  <2> QED BY <1>2, <2>1, <2>2, <2>3, <2>4 DEF W!ClientCall
<1>3. ASSUME NEW c \in WatchClients, W!SourceCall(c) PROVE W!TypeOK'
  <2>1. CASE W!SourceStart(c)
    BY <2>1, W!ConstantsAssumption
       DEF W!TypeOK, W!SourceStart, W!Leaves, W!FirstStep, W!processes, W!told, W!reads
  <2>2. CASE W!SourcePoll(c)
    BY <2>2 DEF W!TypeOK, W!SourcePoll, W!Goes, W!FirstStep, W!processes, W!mutexes, W!told,
           W!reads
  <2>3. CASE W!SourceStop(c)
    BY <2>3 DEF W!TypeOK, W!SourceStop, W!Goes, W!Leaves, W!processes, W!told, W!reads
  <2>4. CASE W!ReportList(c)
    BY <2>4, W!ConstantsAssumption DEF W!TypeOK, W!ReportList, W!Goes, W!processes, W!told,
           W!reads
  <2> QED BY <1>3, <2>1, <2>2, <2>3, <2>4 DEF W!SourceCall
<1>4. ASSUME NEW a \in W!Actors, W!Round(a) PROVE W!TypeOK'
  <2>1. CASE W!ReadPids(a)
    BY <2>1 DEF W!TypeOK, W!ReadPids, W!Goes, W!processes, W!mutexes, W!told, W!reads
  <2>2. CASE W!Quit(a)
    BY <2>2 DEF W!TypeOK, W!Quit, W!Goes, W!processes, W!mutexes, W!told, W!reads
  <2>3. CASE W!CalculateNewAndOldPids(a)
    <3> DEFINE now == W!PidsFound(a)
    <3>1. now \subseteq WatchPids
      BY DEF W!TypeOK, W!PidsFound
    <3> HIDE DEF now
    <3>2. /\ watchPc[a] = "lock" /\ watchPc' = [watchPc EXCEPT ![a] = "add"]
          /\ watchMutex = Nobody /\ watchMutex' = a
          /\ news' = [news EXCEPT ![a] = now \ reported]
          /\ olds' = [olds EXCEPT ![a] = reported \ now]
          /\ reported' = now /\ found' = [found EXCEPT ![a] = {}]
          /\ UNCHANGED <<watchConfig, W!processes, listening, stop, filterMutex, W!told>>
      BY <2>3 DEF W!CalculateNewAndOldPids, W!Goes, now
    <3> QED BY <3>1, <3>2, W!ConstantsAssumption DEF W!TypeOK, W!processes, W!told
  <2>4. CASE W!AddPids(a)
    BY <2>4 DEF W!TypeOK, W!AddPids, W!Goes, W!Tell, W!processes, W!mutexes
  <2>5. CASE W!FilteredAddPids(a)
    BY <2>5 DEF W!TypeOK, W!FilteredAddPids, W!Goes, W!Tell, W!PidsMatchingFilter, W!processes,
           W!mutexes
  <2>6. CASE W!RemovePids(a)
    BY <2>6, W!ConstantsAssumption DEF W!TypeOK, W!RemovePids, W!Done, W!Goes, W!Tell,
           W!processes
  <2>7. CASE W!FilteredRemovePids(a)
    BY <2>7, W!ConstantsAssumption DEF W!TypeOK, W!FilteredRemovePids, W!Done, W!Goes, W!Tell,
           W!processes
  <2> QED BY <1>4, <2>1, <2>2, <2>3, <2>4, <2>5, <2>6, <2>7 DEF W!Round
<1>5. ASSUME NEW l \in Loops, W!Tick(l) PROVE W!TypeOK'
  BY <1>5 DEF W!TypeOK, W!Tick, W!Goes, W!FirstStep, W!processes, W!mutexes, W!told, W!reads
<1>6. CASE UNCHANGED W!vars
  BY <1>6 DEF W!TypeOK, W!vars, W!processes, W!mutexes, W!told, W!reads
<1> QED BY <1>1, <1>2, <1>3, <1>4, <1>5, <1>6 DEF W!Next

\* The watcher's state always has its type, whatever the processes and the
\* clients do and however many loops run.
THEOREM WatchTypeCorrect ==
  ASSUME W!ConstantsAssumption
  PROVE  W!Spec => []W!TypeOK
  BY WatchTypeInit, WatchTypeNext, PTL DEF W!Spec

-----------------------------------------------------------------------------
\* What the owner of the mutex is about to report is what the books lack, and
\* nothing is told before the listener is set.
Books ==
  W!source # "pidlist" =>
    /\ listening \/ watchTracked = {}
    /\ W!filtered => watchTracked \subseteq added
    /\ watchMutex = Nobody => /\ watchTracked \subseteq reported
                              /\ W!filtered => added \subseteq reported
    /\ \A a \in W!Actors : watchMutex = a =>
         /\ news[a] \subseteq reported
         /\ watchTracked \subseteq reported \cup olds[a]
         /\ W!filtered => added \subseteq reported \cup olds[a]

LEMMA BooksInit == W!Init => Books
  BY DEF W!Init, Books

LEMMA BooksNext ==
  ASSUME W!ConstantsAssumption
  PROVE  W!TypeOK /\ Books /\ [W!Next]_(W!vars) => Books'
<1> SUFFICES ASSUME W!TypeOK, Books, [W!Next]_(W!vars) PROVE Books'
  OBVIOUS
<1> USE DEF W!source, W!filtered
<1>1. ASSUME UNCHANGED <<watchConfig, watchMutex, reported, W!told, news, olds>>,
            listening => listening' PROVE Books'
  BY <1>1 DEF Books, W!told
<1>2. ASSUME NEW c \in WatchClients, W!SourceCall(c) PROVE Books'
  <2>1. CASE W!ReportList(c)
    BY <2>1 DEF Books, W!ReportList
  <2> QED BY <1>1, <1>2, <2>1
    DEF W!SourceCall, W!SourceStart, W!SourcePoll, W!SourceStop, W!mutexes, W!reads
<1>3. ASSUME NEW a \in W!Actors, W!Round(a) PROVE Books'
  <2>1. CASE W!CalculateNewAndOldPids(a)
    <3>1. PICK now : /\ watchMutex = Nobody /\ watchMutex' = a
                     /\ news' = [news EXCEPT ![a] = now \ reported]
                     /\ olds' = [olds EXCEPT ![a] = reported \ now]
                     /\ reported' = now /\ UNCHANGED <<watchConfig, listening, W!told>>
      BY <2>1 DEF W!CalculateNewAndOldPids
    <3> QED BY <3>1, W!ConstantsAssumption DEF Books, W!TypeOK, W!told, W!Actors
  <2>2. CASE W!AddPids(a)
    <3>1. watchMutex = a
      BY <2>2 DEF W!AddPids, W!Goes, W!TypeOK
    <3> QED BY <2>2, <3>1, W!ConstantsAssumption DEF W!AddPids, W!Tell, Books, W!TypeOK,
           W!mutexes, W!Actors
  <2>3. CASE W!FilteredAddPids(a)
    <3>1. watchMutex = a
      BY <2>3 DEF W!FilteredAddPids, W!Goes, W!TypeOK
    <3> QED BY <2>3, <3>1, W!ConstantsAssumption
         DEF W!FilteredAddPids, W!PidsMatchingFilter, W!Tell, Books, W!TypeOK, W!mutexes,
             W!Actors
  <2>4. CASE W!RemovePids(a)
    <3>1. watchMutex = a
      BY <2>4 DEF W!RemovePids, W!Done, W!Goes, W!TypeOK
    <3> QED BY <2>4, <3>1, W!ConstantsAssumption DEF W!RemovePids, W!Tell, Books, W!TypeOK,
           W!Actors
  <2>5. CASE W!FilteredRemovePids(a)
    <3>1. watchMutex = a
      BY <2>5 DEF W!FilteredRemovePids, W!Done, W!Goes, W!TypeOK
    <3> QED BY <2>5, <3>1, W!ConstantsAssumption
         DEF W!FilteredRemovePids, W!Tell, Books, W!TypeOK, W!Actors
  <2> QED BY <1>1, <1>3, <2>1, <2>2, <2>3, <2>4, <2>5 DEF W!Round, W!ReadPids, W!Quit, W!mutexes
<1>4. CASE \/ UNCHANGED W!vars
           \/ \E p \in WatchPids : W!Process(p)
           \/ \E c \in WatchClients : W!ClientCall(c)
           \/ \E l \in Loops : W!Tick(l)
  BY <1>1, <1>4 DEF W!vars, W!Process, W!Appear, W!Vanish, W!Change, W!ClientCall,
       W!SetPidListener, W!Start, W!Stop, W!Enter, W!Poll, W!Tick, W!mutexes, W!reads
<1> QED BY <1>2, <1>3, <1>4 DEF W!Next

\* Between reports the listener knows no process the filter does not know, and
\* the filter none that is not among the reported pids, for any number of
\* processes, loops and polls: a process that vanishes is always found among the
\* reported pids, so its removal reaches the listener.
THEOREM BooksAgree ==
  ASSUME W!ConstantsAssumption
  PROVE  W!Spec => []W!KnownUpstream
<1>1. Books => W!KnownUpstream
  BY DEF Books, W!KnownUpstream
<1> QED BY <1>1, WatchTypeInit, WatchTypeNext, BooksInit, BooksNext, PTL DEF W!Spec

-----------------------------------------------------------------------------
\* A listener that is set has been told what is on the books but for what the owner of
\* the mutex is about to report; the filter tells it what it writes down.
Told ==
  W!source # "pidlist" =>
    /\ W!filtered => watchTracked = added
    /\ ~W!filtered /\ watchMutex = Nobody => watchTracked = reported
    /\ ~W!filtered => \A a \in W!Actors : watchMutex = a =>
         /\ news[a] \subseteq reported /\ olds[a] \cap reported = {}
         /\ watchTracked = (reported \ news[a]) \cup olds[a]
         /\ watchPc[a] = "remove" => news[a] = {}

LEMMA ToldInit ==
  ASSUME W!ConstantsAssumption
  PROVE  W!Init => Told
  BY W!ConstantsAssumption DEF W!Init, Told, W!Actors

LEMMA ToldNext ==
  ASSUME W!ConstantsAssumption
  PROVE  W!TypeOK /\ Told /\ listening /\ [W!Next]_(W!vars) => Told'
<1> SUFFICES ASSUME W!TypeOK, Told, listening, [W!Next]_(W!vars) PROVE Told'
  OBVIOUS
<1> USE DEF W!source, W!filtered
<1>1. ASSUME UNCHANGED <<watchConfig, watchMutex, reported, W!told, news, olds>>,
             \A a \in W!Actors : watchMutex = a => watchPc'[a] = watchPc[a]
      PROVE  Told'
  BY <1>1 DEF Told, W!told
<1>2. ASSUME NEW c \in WatchClients, W!ClientCall(c) PROVE Told'
  <2>1. /\ UNCHANGED <<watchConfig, watchMutex, reported, W!told, news, olds>>
        /\ watchPc[c] = "idle" /\ \A a \in W!Actors \ {c} : watchPc'[a] = watchPc[a]
    BY <1>2 DEF W!ClientCall, W!SetPidListener, W!Start, W!Stop, W!Poll, W!Enter, W!Calls,
           W!Goes, W!mutexes, W!reads, W!TypeOK
  <2> QED BY <1>1, <2>1 DEF W!TypeOK, W!Actors
<1>3. ASSUME NEW c \in WatchClients, W!SourceCall(c) PROVE Told'
  <2>1. CASE W!ReportList(c)
    BY <2>1 DEF Told, W!ReportList
  <2>2. CASE W!SourceStart(c) \/ W!SourcePoll(c)
    BY <1>1, <2>2, W!ConstantsAssumption DEF W!SourceStart, W!SourcePoll, W!Actors, W!mutexes,
           W!reads
  <2>3. CASE W!SourceStop(c)
    <3>1. /\ UNCHANGED <<watchConfig, watchMutex, reported, W!told, news, olds>>
          /\ watchPc[c] = "stop" /\ \A a \in W!Actors \ {c} : watchPc'[a] = watchPc[a]
      BY <2>3 DEF W!SourceStop, W!Goes, W!mutexes, W!reads, W!TypeOK
    <3> QED BY <1>1, <3>1 DEF W!TypeOK, W!Actors
  <2> QED BY <1>3, <2>1, <2>2, <2>3 DEF W!SourceCall
<1>4. ASSUME NEW a \in W!Actors, W!Round(a) PROVE Told'
  <2>1. CASE W!ReadPids(a) \/ W!Quit(a)
    <3>1. /\ UNCHANGED <<watchConfig, watchMutex, reported, W!told, news, olds>>
          /\ watchPc[a] \in {"read", "lock"}
          /\ \A b \in W!Actors \ {a} : watchPc'[b] = watchPc[b]
      BY <2>1 DEF W!ReadPids, W!Quit, W!Goes, W!mutexes, W!TypeOK
    <3> QED BY <1>1, <3>1 DEF W!TypeOK
  <2>2. CASE W!CalculateNewAndOldPids(a)
    <3>1. PICK now : /\ watchMutex = Nobody /\ watchMutex' = a
                     /\ news' = [news EXCEPT ![a] = now \ reported]
                     /\ olds' = [olds EXCEPT ![a] = reported \ now]
                     /\ watchPc' = [watchPc EXCEPT ![a] = "add"]
                     /\ reported' = now /\ UNCHANGED <<watchConfig, W!told>>
      BY <2>2 DEF W!CalculateNewAndOldPids, W!Goes
    <3> QED BY <3>1, W!ConstantsAssumption DEF Told, W!TypeOK, W!told, W!Actors
  <2>3. CASE W!AddPids(a)
    <3>1. watchMutex = a
      BY <2>3 DEF W!AddPids, W!Goes, W!TypeOK
    <3> QED BY <2>3, <3>1, W!ConstantsAssumption DEF W!AddPids, W!Goes, W!Tell, Told, W!TypeOK,
           W!mutexes, W!Actors
  <2>4. CASE W!FilteredAddPids(a)
    BY <2>4 DEF W!FilteredAddPids, W!Tell, Told, W!mutexes
  <2>5. CASE W!RemovePids(a)
    <3>1. watchMutex = a /\ watchPc[a] = "remove"
      BY <2>5 DEF W!RemovePids, W!Done, W!Goes, W!TypeOK
    <3> QED BY <2>5, <3>1, W!ConstantsAssumption DEF W!RemovePids, W!Tell, Told, W!TypeOK,
           W!Actors
  <2>6. CASE W!FilteredRemovePids(a)
    BY <2>6 DEF W!FilteredRemovePids, W!Tell, Told
  <2> QED BY <1>4, <2>1, <2>2, <2>3, <2>4, <2>5, <2>6 DEF W!Round
<1>5. CASE UNCHANGED W!vars \/ \E p \in WatchPids : W!Process(p)
  BY <1>1, <1>5 DEF W!vars, W!Process, W!Appear, W!Vanish, W!Change, W!mutexes, W!reads
<1>6. ASSUME NEW l \in Loops, W!Tick(l) PROVE Told'
  <2>1. /\ UNCHANGED <<watchConfig, watchMutex, reported, W!told, news, olds>>
        /\ watchPc[l] = "tick" /\ \A a \in W!Actors \ {l} : watchPc'[a] = watchPc[a]
    BY <1>6 DEF W!Tick, W!Goes, W!mutexes, W!reads, W!TypeOK
  <2> QED BY <1>1, <2>1 DEF W!TypeOK, W!Actors
<1> QED BY <1>2, <1>3, <1>4, <1>5, <1>6 DEF W!Next

\* A listener that is set from the beginning knows between reports just what the source,
\* or the filter, has on its books, for any number of processes, loops and polls.
THEOREM ListenersMissNothing ==
  ASSUME W!ConstantsAssumption
  PROVE  W!Spec => W!ListenerMissesNothing
<1>1. Told => (watchMutex = Nobody /\ W!source # "pidlist" =>
                 watchTracked = IF W!filtered THEN added ELSE reported)
  BY DEF Told
<1> QED BY <1>1, WatchTypeInit, WatchTypeNext, ToldInit, ToldNext, PTL
     DEF W!Spec, W!ListenerMissesNothing
=============================================================================
