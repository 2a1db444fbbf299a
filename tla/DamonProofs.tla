---------------------------- MODULE DamonProofs ----------------------------
(* Proof about the DAMON tracker: accesses are never attributed to a       *)
(* process that did not make them, save for the lines module Damon names.  *)
EXTENDS Damon, SequenceTheorems, FiniteSetTheorems, TLAPS

\* Where the owner of the mutex has switched every kdamond off.
SwitchedOff == {"lost pids", "targets", "start lost pids", "start targets", "on"}

\* Who owns the mutex, what the kdamonds are and who switches them off.
Wired ==
  /\ scenario \in Scenarios
  /\ pc \in [Clients -> ClientPlaces] /\ mutex \in Clients \cup {None}
  /\ \A c \in Clients : pc[c] # "idle" <=> mutex = c
  /\ kpid \in [1..Kdamonds -> KdamondPids \cup {None}]
  /\ targets = [k \in 1..Kdamonds |-> targets[k]]
  /\ cmd \subseteq KdamondPids
  /\ DOMAIN kmap \subseteq KdamondPids
  /\ \A c \in Clients : pc[c] \in SwitchedOff => kpid = NoKdamond

\* No two kdamonds are the same thread; what the tracker knows of one that is on is
\* right; debugfs has one.
Mapped ==
  /\ \A j, k \in 1..Kdamonds : On(j) /\ kpid[j] = kpid[k] => j = k
  /\ \A k \in 1..Kdamonds : On(k) /\ kpid[k] \in DOMAIN kmap => kmap[kpid[k]] = targets[k]
  /\ Debugfs => \A k \in 1..Kdamonds : k # 1 => targets[k] = <<>>

\* Targets tgts say who line l is about, if they say anything.
Means(l, tgts) == l.tid \in DOMAIN tgts => tgts[l.tid] = l.who

LineFields == {"kpid", "tid", "who", "pid", "late"}

\* A line on its way means the same to the kdamond that wrote it, to the map and, with
\* debugfs, to the targets there are as long as they are not replaced.
Faithful ==
  \A l \in lines :
    /\ l = [kpid |-> l.kpid, tid |-> l.tid, who |-> l.who, pid |-> l.pid, late |-> l.late]
    /\ l.kpid \in KdamondPids
    /\ ~Debugfs /\ l.kpid \in DOMAIN kmap => Means(l, kmap[l.kpid])
    /\ ~Debugfs => \A k \in 1..Kdamonds : kpid[k] = l.kpid => Means(l, targets[k])
    /\ Debugfs => l.late \/ Means(l, targets[1])

-----------------------------------------------------------------------------
(* Wired *)

LEMMA WiredInit == Init => Wired
  BY ConstantsAssumption DEF Init, Wired, NoKdamond, NoTargets, ClientPlaces, SwitchedOff, Kdamonds

LEMMA NewTargetsAreTargets == NewTargets = [k \in 1..Kdamonds |-> NewTargets[k]] \/ NewTargets = targets
  BY DEF NewTargets

\* A client goes to another place, with the mutex unless it is through.
LEMMA WiredMove ==
  ASSUME Wired, NEW c \in Clients, NEW to \in ClientPlaces,
         scenario' = scenario, pc' = [pc EXCEPT ![c] = to],
         mutex' = IF to = "idle" THEN None ELSE c, mutex \in {None, c},
         kpid' \in [1..Kdamonds -> KdamondPids \cup {None}],
         targets' = [k \in 1..Kdamonds |-> targets'[k]],
         cmd' \subseteq KdamondPids, DOMAIN kmap' \subseteq KdamondPids,
         to \in SwitchedOff => kpid' = NoKdamond
  PROVE  Wired'
<1>1. Kdamonds' = Kdamonds
  BY DEF Kdamonds
<1>2. NoKdamond' = NoKdamond
  BY <1>1 DEF NoKdamond
<1>3. /\ pc' \in [Clients -> ClientPlaces] /\ mutex' \in Clients \cup {None}
      /\ pc'[c] = to /\ \A d \in Clients \ {c} : pc'[d] = pc[d] /\ pc'[d] = "idle"
  BY ConstantsAssumption DEF Wired
<1>4. \A d \in Clients : pc'[d] # "idle" <=> mutex' = d
  BY <1>3, ConstantsAssumption
<1>5. \A d \in Clients : pc'[d] \in SwitchedOff => kpid' = NoKdamond'
  BY <1>2, <1>3 DEF SwitchedOff
<1>6. scenario' \in Scenarios
  BY DEF Wired
<1> QED BY <1>1, <1>3, <1>4, <1>5, <1>6 DEF Wired

LEMMA LocksMoves ==
  ASSUME Wired, NEW c \in Clients, NEW op, NEW to, Locks(c, op, to)
  PROVE  /\ pc[c] = "idle" /\ pc' = [pc EXCEPT ![c] = to]
         /\ mutex' = IF to = "idle" THEN None ELSE c
         /\ mutex \in {None, c}
  BY DEF Locks, Goes

LEMMA ProceedsMoves ==
  ASSUME Wired, NEW c \in Clients, NEW from, NEW to, Proceeds(c, from, to), from # "idle"
  PROVE  /\ pc[c] = from /\ pc' = [pc EXCEPT ![c] = to]
         /\ mutex' = IF to = "idle" THEN None ELSE c
         /\ mutex \in {None, c}
  BY DEF Proceeds, Goes, Wired

\* A call that leaves kdamonds, targets and the map alone.
LEMMA WiredKeeps ==
  ASSUME Wired, NEW c \in Clients, NEW to \in ClientPlaces,
         scenario' = scenario, kpid' = kpid, targets' = targets, kmap' = kmap, cmd' = cmd,
         pc' = [pc EXCEPT ![c] = to], mutex \in {None, c},
         mutex' = IF to = "idle" THEN None ELSE c,
         to \in SwitchedOff => kpid = NoKdamond
  PROVE  Wired'
<1>1. /\ kpid' \in [1..Kdamonds -> KdamondPids \cup {None}]
      /\ targets' = [k \in 1..Kdamonds |-> targets'[k]]
      /\ cmd' \subseteq KdamondPids /\ DOMAIN kmap' \subseteq KdamondPids
  BY DEF Wired
<1> QED BY <1>1, WiredMove

LEMMA OffIsOff ==
  ASSUME Wired
  PROVE  NoKdamond \in [1..Kdamonds -> KdamondPids \cup {None}]
  BY DEF NoKdamond

\* Calls that begin.
LEMMA WiredCall ==
  ASSUME Wired, NEW c \in Clients, Call(c)
  PROVE  Wired'
<1> USE DEF ClientPlaces
<1>1. ASSUME NEW op, NEW new, ChangesPids(c, op, new)
      PROVE  Wired'
  <2>1. /\ kpid' = NoKdamond \/ (kpid' = kpid /\ ~started)
        /\ UNCHANGED <<scenario, targets, kmap, cmd>>
    BY <1>1 DEF ChangesPids, ApplyOff, reading
  <2>2. Locks(c, op, IF started THEN "lost pids" ELSE "idle")
    BY <1>1 DEF ChangesPids
  <2>3. kpid' \in [1..Kdamonds -> KdamondPids \cup {None}]
    BY <2>1, OffIsOff DEF Wired
  <2>4. CASE started
    <3>1. /\ pc' = [pc EXCEPT ![c] = "lost pids"] /\ mutex' = c /\ mutex \in {None, c}
      BY <2>2, <2>4 DEF Locks, Goes
    <3>2. kpid' = NoKdamond
      BY <1>1, <2>4 DEF ChangesPids, ApplyOff
    <3> QED BY <2>1, <2>3, <3>1, <3>2, WiredMove DEF Wired
  <2>5. CASE ~started
    <3>1. Locks(c, op, "idle") /\ UNCHANGED <<kpid, cmd>>
      BY <1>1, <2>2, <2>5 DEF ChangesPids, reading
    <3>2. /\ pc' = [pc EXCEPT ![c] = "idle"] /\ mutex' = None /\ mutex \in {None, c}
      BY <3>1 DEF Locks, Goes
    <3> QED BY <2>1, <3>1, <3>2, WiredKeeps DEF SwitchedOff
  <2> QED BY <2>4, <2>5
<1>2. CASE \E p \in Pids : AddPids(c, p) \/ RemovePids(c, p)
  BY <1>1, <1>2 DEF AddPids, RemovePids
<1>3. CASE RemoveAllPids(c)
  <2>1. Locks(c, "remove all", "idle") /\ UNCHANGED <<scenario, kpid, targets, kmap, cmd>>
    BY <1>3 DEF RemoveAllPids, kernel, reading
  <2>2. /\ pc' = [pc EXCEPT ![c] = "idle"] /\ mutex' = None /\ mutex \in {None, c}
    BY <2>1 DEF Locks, Goes
  <2> QED BY <2>1, <2>2, WiredKeeps DEF SwitchedOff
<1>4. CASE Start(c)
  <2>1. Locks(c, "start", "start lost pids") /\ kpid' = NoKdamond
        /\ UNCHANGED <<scenario, targets, kmap, cmd>>
    BY <1>4 DEF Start, ApplyOff, config, reading
  <2>2. pc' = [pc EXCEPT ![c] = "start lost pids"] /\ mutex' = c /\ mutex \in {None, c}
    BY <2>1 DEF Locks, Goes
  <2> QED BY <2>1, <2>2, WiredMove, OffIsOff DEF Wired
<1>5. CASE Stop(c)
  <2>1. PICK to \in {"idle", "stop"} : Locks(c, "stop", to)
    BY <1>5 DEF Stop
  <2>2. kpid' = NoKdamond /\ UNCHANGED <<scenario, targets, kmap, cmd>>
    BY <1>5 DEF Stop, ApplyOff, reading
  <2>3. /\ pc' = [pc EXCEPT ![c] = to] /\ mutex \in {None, c}
        /\ mutex' = IF to = "idle" THEN None ELSE c
    BY <2>1, LocksMoves
  <2> QED BY <2>2, <2>3, WiredMove, OffIsOff DEF Wired, SwitchedOff
<1>6. CASE ResetCounters(c)
  <2>1. Locks(c, "reset", "idle") /\ UNCHANGED <<scenario, kpid, targets, kmap, cmd>>
    BY <1>6 DEF ResetCounters, kernel, config, reading
  <2>2. /\ pc' = [pc EXCEPT ![c] = "idle"] /\ mutex' = None /\ mutex \in {None, c}
    BY <2>1 DEF Locks, Goes
  <2> QED BY <2>1, <2>2, WiredKeeps DEF SwitchedOff
<1>7. CASE SetConfigJSON(c)
  <2>1. UNCHANGED <<scenario, pc, mutex, cmd>> /\ Kdamonds' = Kdamonds /\ NoKdamond' = NoKdamond
    BY <1>7 DEF SetConfigJSON, calls, reading, Kdamonds, NoKdamond
  <2>2. targets' = [k \in 1..Kdamonds |-> targets'[k]] /\ DOMAIN kmap' \subseteq KdamondPids
    BY <1>7, DOMAIN <<>> = {} DEF SetConfigJSON, NoTargets
  <2>3. kpid' = NoKdamond \/ kpid' = kpid
    BY <1>7 DEF SetConfigJSON, ApplyOff
  <2> QED BY <2>1, <2>2, <2>3, OffIsOff DEF Wired
<1> QED BY <1>2, <1>3, <1>4, <1>5, <1>6, <1>7 DEF Call

\* The steps of calls.
LEMMA WiredStep ==
  ASSUME Wired, NEW c \in Clients, Step(c)
  PROVE  Wired'
<1> USE DEF ClientPlaces
<1>1. CASE DropLostPids(c)
  <2>1. Proceeds(c, "lost pids", "targets") /\ UNCHANGED <<scenario, kpid, targets, kmap, cmd>>
    BY <1>1 DEF DropLostPids, kernel, reading
  <2>2. kpid = NoKdamond
    BY <2>1 DEF Proceeds, Goes, Wired, SwitchedOff
  <2>3. /\ pc' = [pc EXCEPT ![c] = "targets"] /\ mutex' = c /\ mutex \in {None, c}
    BY <2>1 DEF Proceeds, Goes, Wired
  <2> QED BY <2>1, <2>2, <2>3, WiredKeeps
<1>2. CASE ApplyTargetIds(c)
  <2>1. targets' = [k \in 1..Kdamonds |-> targets'[k]]
    BY <1>2, NewTargetsAreTargets DEF ApplyTargetIds, Wired
  <2>2. UNCHANGED <<scenario, kpid, cmd, kmap>> /\ pc[c] \in {"targets", "start targets"}
    BY <1>2 DEF ApplyTargetIds, kernel, reading
  <2>3. PICK to \in {"idle", "on", "connect"} : Proceeds(c, pc[c], to)
    BY <1>2 DEF ApplyTargetIds
  <2>4. kpid = NoKdamond
    BY <2>2 DEF Wired, SwitchedOff
  <2>5. to \in ClientPlaces
    OBVIOUS
  <2>6. /\ pc' = [pc EXCEPT ![c] = to] /\ mutex \in {None, c}
        /\ mutex' = IF to = "idle" THEN None ELSE c
    <3>1. pc[c] # "idle"
      BY <2>2
    <3> QED BY <2>3, <3>1, ProceedsMoves
  <2>7. /\ kpid' = NoKdamond /\ kpid' \in [1..Kdamonds -> KdamondPids \cup {None}]
        /\ cmd' \subseteq KdamondPids /\ DOMAIN kmap' \subseteq KdamondPids /\ scenario' = scenario
    BY <2>2, <2>4 DEF Wired
  <2> HIDE DEF ClientPlaces
  <2> QED BY <2>1, <2>5, <2>6, <2>7, WiredMove
<1>3. CASE SwitchOn(c)
  <2> DEFINE fresh == CHOOSE f \in NewKdamondPids : TRUE
  <2>1. fresh \in NewKdamondPids
    BY <1>3 DEF SwitchOn
  <2>2. fresh \in [1..Kdamonds -> KdamondPids]
    BY <2>1 DEF NewKdamondPids, Injection, FreshKdamondPids
  <2>3. kpid' = [k \in 1..Kdamonds |->
                   IF k \in {i \in ToSwitchOn : \A f \in WillNotSwitchOn : i < f}
                   THEN fresh[k] ELSE kpid[k]]
    BY <1>3 DEF SwitchOn
  <2> HIDE DEF fresh
  <2>4. kpid' \in [1..Kdamonds -> KdamondPids \cup {None}]
    BY <2>2, <2>3 DEF Wired
  <2>5. UNCHANGED <<scenario, targets, cmd>>
    BY <1>3 DEF SwitchOn, config, reading
  <2>6. kmap' \in {kmap, <<>>}
    BY <1>3 DEF SwitchOn
  <2>7. DOMAIN kmap' \subseteq KdamondPids
    <3>1. DOMAIN <<>> = {}
      OBVIOUS
    <3>2. CASE kmap' = <<>>
      BY <3>1, <3>2
    <3>3. CASE kmap' = kmap
      BY <3>3 DEF Wired
    <3> QED BY <2>6, <3>2, <3>3
  <2>8. PICK to \in {"idle", "map", "connect"} : Proceeds(c, "on", to)
    BY <1>3 DEF SwitchOn
  <2>9. /\ pc' = [pc EXCEPT ![c] = to] /\ mutex \in {None, c}
        /\ mutex' = IF to = "idle" THEN None ELSE c
    BY <2>8, ProceedsMoves
  <2>10. targets' = [k \in 1..Kdamonds |-> targets'[k]] /\ cmd' \subseteq KdamondPids
    BY <2>5 DEF Wired
  <2> QED BY <2>4, <2>5, <2>7, <2>9, <2>10, WiredMove DEF SwitchedOff
<1>4. CASE MapKdamonds(c)
  <2>1. DOMAIN kmap' = Range(kpid) \ {None} /\ UNCHANGED <<scenario, targets, cmd, kpid>>
    BY <1>4 DEF MapKdamonds, kernel, config, reading
  <2>2. DOMAIN kmap' \subseteq KdamondPids
    <3>1. Range(kpid) \subseteq KdamondPids \cup {None}
      BY DEF Range, Wired
    <3> QED BY <2>1, <3>1
  <2>3. Proceeds(c, "map", "connect")
    BY <1>4 DEF MapKdamonds
  <2>4. pc' = [pc EXCEPT ![c] = "connect"] /\ mutex' = c /\ mutex \in {None, c}
    BY <2>3, ProceedsMoves
  <2>5. /\ kpid' \in [1..Kdamonds -> KdamondPids \cup {None}] /\ cmd' \subseteq KdamondPids
        /\ targets' = [k \in 1..Kdamonds |-> targets'[k]]
    BY <2>1 DEF Wired
  <2> QED BY <2>1, <2>2, <2>4, <2>5, WiredMove DEF SwitchedOff, ClientPlaces
<1>5. CASE UpdateConnection(c)
  <2>1. Proceeds(c, "connect", "idle") /\ UNCHANGED <<scenario, kpid, targets, kmap, cmd>>
    BY <1>5 DEF UpdateConnection, kernel, config
  <2>2. /\ pc' = [pc EXCEPT ![c] = "idle"] /\ mutex' = None /\ mutex \in {None, c}
    BY <2>1 DEF Proceeds, Goes, Wired
  <2> QED BY <2>1, <2>2, WiredKeeps DEF SwitchedOff
<1>6. CASE StartDropsLostPids(c)
  <2>1. Proceeds(c, "start lost pids", "start targets")
        /\ UNCHANGED <<scenario, kpid, targets, kmap, cmd>>
    BY <1>6 DEF StartDropsLostPids, kernel, reading
  <2>2. kpid = NoKdamond
    BY <2>1 DEF Proceeds, Goes, Wired, SwitchedOff
  <2>3. /\ pc' = [pc EXCEPT ![c] = "start targets"] /\ mutex' = c /\ mutex \in {None, c}
    BY <2>1 DEF Proceeds, Goes, Wired
  <2> QED BY <2>1, <2>2, <2>3, WiredKeeps
<1>7. CASE StopReader(c)
  <2>1. Proceeds(c, "stop", "idle") /\ UNCHANGED <<scenario, kpid, targets, kmap, cmd>>
    BY <1>7 DEF StopReader, kernel, config, reading
  <2>2. /\ pc' = [pc EXCEPT ![c] = "idle"] /\ mutex' = None /\ mutex \in {None, c}
    BY <2>1 DEF Proceeds, Goes, Wired
  <2> QED BY <2>1, <2>2, WiredKeeps DEF SwitchedOff
<1> QED BY <1>1, <1>2, <1>3, <1>4, <1>5, <1>6, <1>7 DEF Step

\* What the reader, the parser and the environment leave alone.
LEMMA OthersOnlyRead ==
  ASSUME Wired, Read \/ Parse \/ Environment \/ UNCHANGED vars
  PROVE  /\ UNCHANGED <<scenario, targets, kmap, pc, mutex>>
         /\ cmd' \subseteq KdamondPids
         /\ \/ UNCHANGED kpid
            \/ \E k \in 1..Kdamonds : kpid' = [kpid EXCEPT ![k] = None]
<1>1. CASE Read
  <2>1. KnownKdamondPids \subseteq KdamondPids
    BY DEF KnownKdamondPids, Wired, Range, Kdamonds
  <2> QED BY <1>1, <2>1 DEF Read, StartBpftrace, BpftraceFails, Receive, CloseReader, PerfStarts,
        PerfFails, PerfReceive, kernel, config, calls, Wired
<1>2. CASE Parse
  BY <1>2 DEF Parse, Attribute, Store, kernel, config, calls, reading, Wired
<1>3. CASE Environment
  BY <1>3 DEF Environment, Die, Grow, KdamondEnds, Report, BpftraceEnds, PerfEnds, PerfSignals,
      kernel, config, calls, reading, Wired
<1>4. CASE UNCHANGED vars
  BY <1>4 DEF vars, kernel, config, calls, reading, Wired
<1> QED BY <1>1, <1>2, <1>3, <1>4

LEMMA WiredNext == Wired /\ [Next]_vars => Wired'
<1> SUFFICES ASSUME Wired, [Next]_vars
             PROVE  Wired'
  OBVIOUS
<1>1. CASE \E c \in Clients : Call(c) \/ Step(c)
  BY <1>1, WiredCall, WiredStep
<1>2. CASE Read \/ Parse \/ Environment \/ UNCHANGED vars
  <2>1. kpid' \in [1..Kdamonds -> KdamondPids \cup {None}] /\ (kpid = NoKdamond => kpid' = NoKdamond)
    BY <1>2, OthersOnlyRead DEF Wired, NoKdamond
  <2> QED BY <1>2, <2>1, OthersOnlyRead DEF Wired, NoKdamond, Kdamonds
<1> QED BY <1>1, <1>2 DEF Next

-----------------------------------------------------------------------------
(* What is known of the kdamonds *)

LEMMA MappedInit == Init => Mapped
  BY DEF Init, Mapped, NoKdamond, NoTargets, On

\* Whoever has switched the kdamonds off may do with targets and map as it likes.
LEMMA MappedWhenOff ==
  ASSUME kpid' = NoKdamond, scenario' = scenario,
         Debugfs => \A k \in 1..Kdamonds : k # 1 => targets'[k] = <<>>
  PROVE  Mapped'
<1>1. Kdamonds' = Kdamonds /\ Debugfs' = Debugfs
  BY DEF Kdamonds, Debugfs
<1>2. \A k \in 1..Kdamonds : kpid'[k] = None
  BY DEF NoKdamond
<1> QED BY <1>1, <1>2 DEF Mapped, On

\* Kdamonds may end, and the map be emptied.
LEMMA MappedWhenLess ==
  ASSUME Mapped, scenario' = scenario, targets' = targets,
         \A k \in 1..Kdamonds : kpid'[k] \in {kpid[k], None},
         kmap' \in {kmap, <<>>}
  PROVE  Mapped'
<1>1. Kdamonds' = Kdamonds /\ Debugfs' = Debugfs
  BY DEF Kdamonds, Debugfs
<1>2. DOMAIN <<>> = {}
  OBVIOUS
<1>3. \A j, k \in 1..Kdamonds : On(j)' /\ kpid'[j] = kpid'[k] => j = k
  BY DEF Mapped, On
<1>4. \A k \in 1..Kdamonds : On(k)' /\ kpid'[k] \in DOMAIN kmap' => kmap'[kpid'[k]] = targets'[k]
  BY <1>2 DEF Mapped, On
<1> QED BY <1>1, <1>3, <1>4 DEF Mapped

LEMMA MappedCall ==
  ASSUME Mapped, NEW c \in Clients, Call(c)
  PROVE  Mapped'
<1>1. ASSUME NEW op, NEW new, ChangesPids(c, op, new)
      PROVE  Mapped'
  <2>1. /\ kpid' = NoKdamond \/ kpid' = kpid
        /\ UNCHANGED <<scenario, targets, kmap>>
    BY <1>1 DEF ChangesPids, ApplyOff
  <2>2. CASE kpid' = NoKdamond
    BY <2>1, <2>2, MappedWhenOff DEF Mapped
  <2>3. CASE kpid' = kpid
    BY <2>1, <2>3, MappedWhenLess
  <2> QED BY <2>1, <2>2, <2>3
<1>2. CASE \E p \in Pids : AddPids(c, p) \/ RemovePids(c, p)
  BY <1>1, <1>2 DEF AddPids, RemovePids
<1>3. CASE RemoveAllPids(c) \/ ResetCounters(c)
  <2>1. UNCHANGED <<scenario, kpid, targets, kmap>>
    BY <1>3 DEF RemoveAllPids, ResetCounters, kernel, config
  <2> QED BY <2>1, MappedWhenLess
<1>4. CASE Start(c) \/ Stop(c)
  <2>1. kpid' = NoKdamond /\ UNCHANGED <<scenario, targets>>
    BY <1>4 DEF Start, Stop, ApplyOff, config
  <2> QED BY <2>1, MappedWhenOff DEF Mapped
<1>5. CASE SetConfigJSON(c)
  <2>1. /\ scenario' = scenario /\ targets' = NoTargets /\ kmap' = <<>>
        /\ kpid' = IF ~Debugfs THEN NoKdamond ELSE kpid
    BY <1>5 DEF SetConfigJSON, ApplyOff
  <2>2. \A k \in 1..Kdamonds : targets'[k] = <<>>
    BY <2>1 DEF NoTargets
  <2>3. CASE ~Debugfs
    BY <2>1, <2>2, <2>3, MappedWhenOff
  <2>4. CASE Debugfs
    <3>1. Kdamonds' = Kdamonds /\ DOMAIN <<>> = {} /\ kpid' = kpid
      BY <2>1, <2>4 DEF Kdamonds
    <3> QED BY <2>1, <2>2, <3>1 DEF Mapped, On
  <2> QED BY <2>3, <2>4
<1> QED BY <1>2, <1>3, <1>4, <1>5 DEF Call

\* A kdamond that is switched on is a new thread.
LEMMA SwitchOnIsFresh ==
  ASSUME Wired, NEW c \in Clients, SwitchOn(c)
  PROVE  /\ kpid = NoKdamond
         /\ \A k \in 1..Kdamonds : kpid'[k] = None \/ kpid'[k] \in FreshKdamondPids
         /\ \A j, k \in 1..Kdamonds : kpid'[j] # None /\ kpid'[j] = kpid'[k] => j = k
         /\ UNCHANGED <<scenario, targets, lines>> /\ kmap' \in {kmap, <<>>}
<1> DEFINE fresh == CHOOSE f \in NewKdamondPids : TRUE
<1>1. fresh \in NewKdamondPids
  BY DEF SwitchOn
<1>2. /\ fresh \in [1..Kdamonds -> FreshKdamondPids]
      /\ \A j, k \in 1..Kdamonds : fresh[j] = fresh[k] => j = k
  BY <1>1 DEF NewKdamondPids, Injection, IsInjective
<1>3. kpid' = [k \in 1..Kdamonds |->
                 IF k \in {i \in ToSwitchOn : \A f \in WillNotSwitchOn : i < f}
                 THEN fresh[k] ELSE kpid[k]]
  BY DEF SwitchOn
<1> HIDE DEF fresh
<1>4. kpid = NoKdamond
  BY DEF SwitchOn, Proceeds, Goes, Wired, SwitchedOff
<1>5. \A k \in 1..Kdamonds : kpid'[k] \in {None, fresh[k]}
  BY <1>3, <1>4 DEF NoKdamond
<1>6. UNCHANGED <<scenario, targets, lines>> /\ kmap' \in {kmap, <<>>}
  BY DEF SwitchOn, config
<1> QED BY <1>2, <1>4, <1>5, <1>6

LEMMA MappedStep ==
  ASSUME Wired, Mapped, NEW c \in Clients, Step(c)
  PROVE  Mapped'
<1>1. CASE DropLostPids(c) \/ StartDropsLostPids(c) \/ UpdateConnection(c) \/ StopReader(c)
  <2>1. UNCHANGED <<scenario, kpid, targets, kmap>>
    BY <1>1 DEF DropLostPids, StartDropsLostPids, UpdateConnection, StopReader, kernel, config
  <2> QED BY <2>1, MappedWhenLess
<1>2. CASE ApplyTargetIds(c)
  <2>1. kpid' = kpid /\ scenario' = scenario /\ targets' = NewTargets
    BY <1>2 DEF ApplyTargetIds, kernel
  <2>2. kpid = NoKdamond
    BY <1>2 DEF ApplyTargetIds, Proceeds, Goes, Wired, SwitchedOff
  <2>3. Debugfs => \A k \in 1..Kdamonds : k # 1 => NewTargets[k] = <<>>
    BY DEF NewTargets, Share, Mapped
  <2> QED BY <2>1, <2>2, <2>3, MappedWhenOff
<1>3. CASE SwitchOn(c)
  <2>1. Kdamonds' = Kdamonds /\ Debugfs' = Debugfs /\ DOMAIN <<>> = {}
    BY <1>3, SwitchOnIsFresh DEF Kdamonds, Debugfs
  <2>2. \A k \in 1..Kdamonds : kpid'[k] # None => kpid'[k] \notin DOMAIN kmap
    BY <1>3, SwitchOnIsFresh DEF FreshKdamondPids
  <2>3. \A k \in 1..Kdamonds : On(k)' => kpid'[k] \notin DOMAIN kmap'
    BY <1>3, <2>1, <2>2, SwitchOnIsFresh DEF On
  <2>4. \A j, k \in 1..Kdamonds : On(j)' /\ kpid'[j] = kpid'[k] => j = k
    BY <1>3, SwitchOnIsFresh DEF On
  <2> QED BY <1>3, <2>1, <2>3, <2>4, SwitchOnIsFresh DEF Mapped
<1>4. CASE MapKdamonds(c)
  <2>1. /\ kmap' = [kp \in Range(kpid) \ {None} |-> targets[CHOOSE k \in 1..Kdamonds : kpid[k] = kp]]
        /\ UNCHANGED <<scenario, targets, kpid>>
    BY <1>4 DEF MapKdamonds, kernel, config
  <2>2. ASSUME NEW k \in 1..Kdamonds, On(k)
        PROVE  (CHOOSE j \in 1..Kdamonds : kpid[j] = kpid[k]) = k
    BY <2>2 DEF Mapped, On
  <2>3. \A k \in 1..Kdamonds : On(k) /\ kpid[k] \in DOMAIN kmap' => kmap'[kpid[k]] = targets[k]
    BY <2>1, <2>2
  <2>4. Kdamonds' = Kdamonds /\ Debugfs' = Debugfs
    BY <2>1 DEF Kdamonds, Debugfs
  <2> QED BY <2>1, <2>3, <2>4 DEF Mapped, On
<1> QED BY <1>1, <1>2, <1>3, <1>4 DEF Step

LEMMA MappedNext == Wired /\ Mapped /\ [Next]_vars => Mapped'
<1> SUFFICES ASSUME Wired, Mapped, [Next]_vars
             PROVE  Mapped'
  OBVIOUS
<1>1. CASE \E c \in Clients : Call(c) \/ Step(c)
  BY <1>1, MappedCall, MappedStep
<1>2. CASE Read \/ Parse \/ Environment \/ UNCHANGED vars
  <2>1. \A k \in 1..Kdamonds : kpid'[k] \in {kpid[k], None}
    BY <1>2, OthersOnlyRead DEF Wired
  <2> QED BY <1>2, <2>1, OthersOnlyRead, MappedWhenLess
<1> QED BY <1>1, <1>2 DEF Next

-----------------------------------------------------------------------------
(* What a line means *)

LEMMA FaithfulInit == Init => Faithful
  BY DEF Init, Faithful

\* Lines may be lost, kdamonds end and the map be emptied.
LEMMA FaithfulWhenLess ==
  ASSUME Faithful, scenario' = scenario, lines' \subseteq lines,
         ~Debugfs \/ targets' = targets,
         \A k \in 1..Kdamonds : kpid'[k] = None \/ (kpid'[k] = kpid[k] /\ targets'[k] = targets[k]),
         kmap' \in {kmap, <<>>}
  PROVE  Faithful'
<1>1. Kdamonds' = Kdamonds /\ Debugfs' = Debugfs /\ DOMAIN <<>> = {}
  BY DEF Kdamonds, Debugfs
<1>2. ASSUME NEW l \in lines'
      PROVE  /\ l = [kpid |-> l.kpid, tid |-> l.tid, who |-> l.who, pid |-> l.pid, late |-> l.late]
             /\ l.kpid \in KdamondPids
             /\ ~Debugfs /\ l.kpid \in DOMAIN kmap' => Means(l, kmap'[l.kpid])
             /\ ~Debugfs => \A k \in 1..Kdamonds : kpid'[k] = l.kpid => Means(l, targets'[k])
             /\ Debugfs => l.late \/ Means(l, targets'[1])
  <2>1. l.kpid \in KdamondPids /\ l.kpid # None
    BY <1>2, ConstantsAssumption DEF Faithful
  <2>2. ~Debugfs /\ l.kpid \in DOMAIN kmap' => Means(l, kmap'[l.kpid])
    BY <1>1, <1>2 DEF Faithful
  <2>3. ~Debugfs => \A k \in 1..Kdamonds : kpid'[k] = l.kpid => Means(l, targets'[k])
    BY <1>2, <2>1 DEF Faithful
  <2> QED BY <1>2, <2>1, <2>2, <2>3 DEF Faithful
<1> QED BY <1>1, <1>2 DEF Faithful, Means

LEMMA FaithfulCall ==
  ASSUME Wired, Faithful, NEW c \in Clients, Call(c)
  PROVE  Faithful'
<1> USE DEF NoKdamond
<1>1. ASSUME NEW op, NEW new, ChangesPids(c, op, new)
      PROVE  Faithful'
  <2>1. kpid' = NoKdamond \/ kpid' = kpid
    BY <1>1 DEF ChangesPids, ApplyOff
  <2>2. UNCHANGED <<scenario, targets, kmap, lines>>
    BY <1>1 DEF ChangesPids
  <2> QED BY <2>1, <2>2, FaithfulWhenLess
<1>2. CASE \E p \in Pids : AddPids(c, p) \/ RemovePids(c, p)
  BY <1>1, <1>2 DEF AddPids, RemovePids
<1>3. CASE RemoveAllPids(c) \/ ResetCounters(c)
  <2>1. UNCHANGED <<scenario, kpid, targets, kmap, lines>>
    BY <1>3 DEF RemoveAllPids, ResetCounters, kernel, config
  <2> QED BY <2>1, FaithfulWhenLess
<1>4. CASE Start(c) \/ Stop(c)
  <2>1. kpid' = NoKdamond /\ UNCHANGED <<scenario, targets, kmap, lines>>
    BY <1>4 DEF Start, Stop, ApplyOff, config
  <2> QED BY <2>1, FaithfulWhenLess
<1>5. CASE SetConfigJSON(c)
  <2>1. /\ UNCHANGED <<scenario, lines>> /\ targets' = NoTargets /\ kmap' = <<>>
        /\ kpid' = IF ~Debugfs THEN NoKdamond ELSE kpid
    BY <1>5 DEF SetConfigJSON, ApplyOff
  <2>2. CASE ~Debugfs
    BY <2>1, <2>2, FaithfulWhenLess
  <2>3. CASE Debugfs
    <3>1. Kdamonds' = Kdamonds /\ Debugfs' /\ 1 \in 1..Kdamonds
      BY <2>1, <2>3, ConstantsAssumption DEF Kdamonds, Debugfs, Wired
    <3>2. \A l : Means(l, targets'[1])
      BY <2>1, <3>1 DEF NoTargets, Means
    <3> QED BY <2>1, <2>3, <3>1, <3>2 DEF Faithful, Means
  <2> QED BY <2>2, <2>3
<1> QED BY <1>2, <1>3, <1>4, <1>5 DEF Call

LEMMA FaithfulStep ==
  ASSUME Wired, Faithful, NEW c \in Clients, Step(c)
  PROVE  Faithful'
<1>1. CASE DropLostPids(c) \/ StartDropsLostPids(c) \/ UpdateConnection(c) \/ StopReader(c)
  <2>1. UNCHANGED <<scenario, kpid, targets, kmap, lines>>
    BY <1>1 DEF DropLostPids, StartDropsLostPids, UpdateConnection, StopReader, kernel, config
  <2> QED BY <2>1, FaithfulWhenLess
<1>2. CASE ApplyTargetIds(c)
  <2>1. /\ UNCHANGED <<kpid, scenario, kmap>> /\ targets' = NewTargets
        /\ lines' = IF Debugfs THEN {[l EXCEPT !.late = TRUE] : l \in lines} ELSE lines
    BY <1>2 DEF ApplyTargetIds, kernel
  <2>2. kpid = NoKdamond
    BY <1>2 DEF ApplyTargetIds, Proceeds, Goes, Wired, SwitchedOff
  <2>3. CASE ~Debugfs
    BY <2>1, <2>2, <2>3, FaithfulWhenLess DEF NoKdamond
  <2>4. CASE Debugfs
    <3>1. Debugfs'
      BY <2>1, <2>4 DEF Debugfs
    <3>2. ASSUME NEW l \in lines'
          PROVE  /\ l = [kpid |-> l.kpid, tid |-> l.tid, who |-> l.who, pid |-> l.pid, late |-> l.late]
                 /\ l.kpid \in KdamondPids /\ l.late
      <4>1. PICK m \in lines : l = [m EXCEPT !.late = TRUE]
        BY <2>1, <2>4, <3>2
      <4>2. m = [kpid |-> m.kpid, tid |-> m.tid, who |-> m.who, pid |-> m.pid, late |-> m.late]
            /\ m.kpid \in KdamondPids
        BY DEF Faithful
      <4>3. l = [kpid |-> m.kpid, tid |-> m.tid, who |-> m.who, pid |-> m.pid, late |-> TRUE]
        BY <4>1, <4>2
      <4> QED BY <4>2, <4>3
    <3> QED BY <3>1, <3>2 DEF Faithful
  <2> QED BY <2>3, <2>4
<1>3. CASE SwitchOn(c)
  <2>1. Kdamonds' = Kdamonds /\ Debugfs' = Debugfs /\ DOMAIN <<>> = {}
    BY <1>3, SwitchOnIsFresh DEF Kdamonds, Debugfs
  <2>2. \A l \in lines, k \in 1..Kdamonds : l.kpid \in KdamondPids /\ kpid'[k] # l.kpid
    BY <1>3, SwitchOnIsFresh, ConstantsAssumption DEF FreshKdamondPids, Faithful
  <2>3. \A l \in lines : ~Debugfs /\ l.kpid \in DOMAIN kmap' => Means(l, kmap'[l.kpid])
    BY <1>3, <2>1, SwitchOnIsFresh DEF Faithful
  <2> QED BY <1>3, <2>1, <2>2, <2>3, SwitchOnIsFresh DEF Faithful, Means
<1>4. CASE MapKdamonds(c)
  <2>1. /\ kmap' = [kp \in Range(kpid) \ {None} |-> targets[CHOOSE k \in 1..Kdamonds : kpid[k] = kp]]
        /\ UNCHANGED <<scenario, targets, kpid, lines>>
    BY <1>4 DEF MapKdamonds, kernel, config
  <2>2. Kdamonds' = Kdamonds /\ Debugfs' = Debugfs
    BY <2>1 DEF Kdamonds, Debugfs
  <2>3. ASSUME NEW l \in lines, ~Debugfs, l.kpid \in DOMAIN kmap'
        PROVE  Means(l, kmap'[l.kpid])
    <3>1. \E k \in 1..Kdamonds : kpid[k] = l.kpid
      BY <2>1, <2>3 DEF Range, Wired
    <3>2. (CHOOSE k \in 1..Kdamonds : kpid[k] = l.kpid) \in 1..Kdamonds
          /\ kpid[CHOOSE k \in 1..Kdamonds : kpid[k] = l.kpid] = l.kpid
      BY <3>1
    <3> QED BY <2>1, <2>3, <3>2 DEF Faithful
  <2> QED BY <2>1, <2>2, <2>3 DEF Faithful, Means
<1> QED BY <1>1, <1>2, <1>3, <1>4 DEF Step

\* A kdamond reports what it means.
LEMMA FaithfulReport ==
  ASSUME Wired, Mapped, Faithful, NEW k \in 1..Kdamonds, NEW t, Report(k, t)
  PROVE  Faithful'
<1> DEFINE new == [kpid |-> kpid[k], tid |-> t, who |-> targets[k][t], pid |-> None, late |-> FALSE]
<1>1. /\ lines' = lines \cup {new} /\ t \in DOMAIN targets[k] /\ Listens(k)
      /\ UNCHANGED <<scenario, targets, kpid, kmap>>
  BY DEF Report, kernel, config
<1>2. On(k) /\ kpid[k] \in KdamondPids
  BY <1>1, ConstantsAssumption DEF Listens, On, Wired
<1>3. kpid[k] \in DOMAIN kmap => Means(new, kmap[kpid[k]])
  BY <1>2 DEF Mapped, Means
<1>4. \A j \in 1..Kdamonds : kpid[j] = kpid[k] => Means(new, targets[j])
  BY <1>2 DEF Mapped, Means, On
<1>5. Debugfs => Means(new, targets[1])
  <2>1. Debugfs => k = 1
    BY <1>1, DOMAIN <<>> = {} DEF Mapped
  <2> QED BY <2>1 DEF Means
<1>6. Kdamonds' = Kdamonds /\ Debugfs' = Debugfs
  BY <1>1 DEF Kdamonds, Debugfs
<1>7. /\ new = [kpid |-> new.kpid, tid |-> new.tid, who |-> new.who, pid |-> new.pid, late |-> new.late]
      /\ new.kpid = kpid[k]
  OBVIOUS
<1> HIDE DEF new
<1>8. ASSUME NEW l \in lines'
      PROVE  /\ l = [kpid |-> l.kpid, tid |-> l.tid, who |-> l.who, pid |-> l.pid, late |-> l.late]
             /\ l.kpid \in KdamondPids
             /\ ~Debugfs /\ l.kpid \in DOMAIN kmap => Means(l, kmap[l.kpid])
             /\ ~Debugfs => \A j \in 1..Kdamonds : kpid[j] = l.kpid => Means(l, targets[j])
             /\ Debugfs => l.late \/ Means(l, targets[1])
  <2>1. CASE l = new
    BY <1>2, <1>3, <1>4, <1>5, <1>7, <2>1
  <2>2. CASE l \in lines
    BY <2>2 DEF Faithful
  <2> QED BY <1>1, <1>8, <2>1, <2>2
<1> QED BY <1>1, <1>6, <1>8 DEF Faithful, Means

\* The parser changes nothing of a line but whose it takes the accesses for.
LEMMA FaithfulParse ==
  ASSUME Faithful, Parse
  PROVE  Faithful'
<1>1. UNCHANGED <<scenario, targets, kpid, kmap>>
  BY DEF Parse, Attribute, Store, kernel, config
<1>2. Kdamonds' = Kdamonds /\ Debugfs' = Debugfs
  BY <1>1 DEF Kdamonds, Debugfs
<1>3. ASSUME NEW l \in lines'
      PROVE  \/ l \in lines
             \/ \E m \in lines : \E p : l = [m EXCEPT !.pid = p]
  BY <1>3 DEF Parse, Attribute, Store
<1>4. ASSUME NEW m \in lines, NEW p, NEW l, l = [m EXCEPT !.pid = p]
      PROVE  /\ l = [kpid |-> l.kpid, tid |-> l.tid, who |-> l.who, pid |-> l.pid, late |-> l.late]
             /\ l.kpid = m.kpid /\ l.tid = m.tid /\ l.who = m.who /\ l.late = m.late
  <2>1. m = [kpid |-> m.kpid, tid |-> m.tid, who |-> m.who, pid |-> m.pid, late |-> m.late]
    BY DEF Faithful
  <2>2. l = [kpid |-> m.kpid, tid |-> m.tid, who |-> m.who, pid |-> p, late |-> m.late]
    BY <1>4, <2>1
  <2> QED BY <2>2
<1>5. ASSUME NEW l \in lines'
      PROVE  /\ l = [kpid |-> l.kpid, tid |-> l.tid, who |-> l.who, pid |-> l.pid, late |-> l.late]
             /\ l.kpid \in KdamondPids
             /\ ~Debugfs /\ l.kpid \in DOMAIN kmap => Means(l, kmap[l.kpid])
             /\ ~Debugfs => \A j \in 1..Kdamonds : kpid[j] = l.kpid => Means(l, targets[j])
             /\ Debugfs => l.late \/ Means(l, targets[1])
  <2>1. CASE l \in lines
    BY <2>1 DEF Faithful
  <2>2. ASSUME NEW m \in lines, NEW p, l = [m EXCEPT !.pid = p]
        PROVE  /\ l = [kpid |-> l.kpid, tid |-> l.tid, who |-> l.who, pid |-> l.pid, late |-> l.late]
               /\ l.kpid \in KdamondPids
               /\ ~Debugfs /\ l.kpid \in DOMAIN kmap => Means(l, kmap[l.kpid])
               /\ ~Debugfs => \A j \in 1..Kdamonds : kpid[j] = l.kpid => Means(l, targets[j])
               /\ Debugfs => l.late \/ Means(l, targets[1])
    BY <1>4, <2>2 DEF Faithful, Means
  <2> QED BY <1>3, <2>1, <2>2
<1> QED BY <1>1, <1>2, <1>5 DEF Faithful, Means

LEMMA FaithfulNext == Wired /\ Mapped /\ Faithful /\ [Next]_vars => Faithful'
<1> SUFFICES ASSUME Wired, Mapped, Faithful, [Next]_vars
             PROVE  Faithful'
  OBVIOUS
<1>1. CASE \E c \in Clients : Call(c) \/ Step(c)
  BY <1>1, FaithfulCall, FaithfulStep
<1>2. CASE Parse
  BY <1>2, FaithfulParse
<1>3. CASE \E k \in 1..Kdamonds, t \in 1..MaxTracked : Report(k, t)
  BY <1>3, FaithfulReport
<1>4. CASE Read \/ UNCHANGED vars \/ (Environment /\ lines' = lines)
  <2>1. UNCHANGED <<scenario, targets, kmap>> /\ \A k \in 1..Kdamonds : kpid'[k] \in {kpid[k], None}
    BY <1>4, OthersOnlyRead DEF Wired
  <2>2. lines' \subseteq lines
    BY <1>4 DEF Read, StartBpftrace, BpftraceFails, Receive, CloseReader, PerfStarts, PerfFails,
         PerfReceive, vars
  <2> QED BY <2>1, <2>2, FaithfulWhenLess
<1>5. Environment => (\E k \in 1..Kdamonds, t \in 1..MaxTracked : Report(k, t)) \/ lines' = lines
  BY DEF Environment, Die, Grow, KdamondEnds, BpftraceEnds, PerfEnds, PerfSignals
<1> QED BY <1>1, <1>2, <1>3, <1>4, <1>5 DEF Next

-----------------------------------------------------------------------------
(* Whose the accesses are taken for *)

LEMMA RightProcessNext == Wired /\ Faithful /\ RightProcess /\ [Next]_vars => RightProcess'
<1> SUFFICES ASSUME Wired, Faithful, RightProcess, [Next]_vars, NEW l \in lines'
             PROVE  l.pid \in {None, l.who, Unknown} \/ (Debugfs' /\ l.late)
  BY DEF RightProcess
<1>1. scenario' = scenario /\ Debugfs' = Debugfs
  BY DEF Next, vars, Call, AddPids, RemovePids, ChangesPids, RemoveAllPids, Start, Stop, ResetCounters,
    SetConfigJSON, Step, DropLostPids, ApplyTargetIds, SwitchOn, MapKdamonds, UpdateConnection,
    StartDropsLostPids, StopReader, Read, StartBpftrace, BpftraceFails, Receive, CloseReader,
    PerfStarts, PerfFails, PerfReceive, Parse, Attribute, Store, Environment, Die, Grow, KdamondEnds,
    Report, BpftraceEnds, PerfEnds, PerfSignals, config, Debugfs
<1>2. CASE l \in lines
  BY <1>1, <1>2 DEF RightProcess
<1>3. CASE \E k, t : l = [kpid |-> kpid[k], tid |-> t, who |-> targets[k][t], pid |-> None, late |-> FALSE]
  BY <1>3
<1>4. CASE Debugfs /\ \E m \in lines : l = [m EXCEPT !.late = TRUE]
  <2>1. PICK m \in lines : l = [m EXCEPT !.late = TRUE]
    BY <1>4
  <2>2. m = [kpid |-> m.kpid, tid |-> m.tid, who |-> m.who, pid |-> m.pid, late |-> m.late]
    BY DEF Faithful
  <2>3. l.late
    BY <2>1, <2>2
  <2> QED BY <1>1, <1>4, <2>3
<1>5. ASSUME NEW m \in lines,
             l = [m EXCEPT !.pid = AggregatedPid(IF Perf THEN 0 ELSE m.kpid, m.tid)]
      PROVE  l.pid \in {None, l.who, Unknown} \/ (Debugfs' /\ l.late)
  <2> DEFINE pid == AggregatedPid(IF Perf THEN 0 ELSE m.kpid, m.tid)
  <2>1. m = [kpid |-> m.kpid, tid |-> m.tid, who |-> m.who, pid |-> m.pid, late |-> m.late]
    BY DEF Faithful
  <2>2. l = [kpid |-> m.kpid, tid |-> m.tid, who |-> m.who, pid |-> pid, late |-> m.late]
    BY <1>5, <2>1
  <2>3. pid \in {m.who, Unknown} \/ (Debugfs /\ m.late)
    <3>1. CASE Debugfs
      BY <3>1 DEF AggregatedPid, Faithful, Means
    <3>2. CASE ~Debugfs /\ Perf
      <4>1. 0 \notin DOMAIN kmap
        BY ConstantsAssumption DEF Wired
      <4>2. DOMAIN <<>> = {}
        OBVIOUS
      <4> QED BY <3>2, <4>1, <4>2 DEF AggregatedPid
    <3>3. CASE ~Debugfs /\ ~Perf
      <4>1. DOMAIN <<>> = {}
        OBVIOUS
      <4> QED BY <3>3, <4>1 DEF AggregatedPid, Faithful, Means
    <3> QED BY <3>1, <3>2, <3>3
  <2> HIDE DEF pid
  <2> QED BY <1>1, <2>2, <2>3
<1>6. \/ l \in lines
      \/ \E k, t : l = [kpid |-> kpid[k], tid |-> t, who |-> targets[k][t], pid |-> None, late |-> FALSE]
      \/ Debugfs /\ \E m \in lines : l = [m EXCEPT !.late = TRUE]
      \/ \E m \in lines : l = [m EXCEPT !.pid = AggregatedPid(IF Perf THEN 0 ELSE m.kpid, m.tid)]
  <2>1. CASE \E c \in Clients : Call(c)
    BY <2>1 DEF Call, AddPids, RemovePids, ChangesPids, RemoveAllPids, Start, Stop, ResetCounters,
      SetConfigJSON
  <2>2. CASE \E c \in Clients : Step(c)
    BY <2>2 DEF Step, DropLostPids, ApplyTargetIds, SwitchOn, MapKdamonds, UpdateConnection,
      StartDropsLostPids, StopReader
  <2>3. CASE Read \/ UNCHANGED vars
    BY <2>3 DEF Read, StartBpftrace, BpftraceFails, Receive, CloseReader, PerfStarts, PerfFails,
      PerfReceive, vars
  <2>4. CASE Parse
    BY <2>4 DEF Parse, Attribute, Store
  <2>5. CASE Environment
    BY <2>5 DEF Environment, Die, Grow, KdamondEnds, Report, BpftraceEnds, PerfEnds, PerfSignals
  <2> QED BY <2>1, <2>2, <2>3, <2>4, <2>5 DEF Next
<1> QED BY <1>2, <1>3, <1>4, <1>5, <1>6

\* With any number of kdamonds, clients and processes, over every interface and with
\* bpftrace as with perf: accesses are attributed to the process that made them or to
\* pid 0, save for lines of debugfs that were on their way when the targets were replaced
\* (AggregatedPid, kdamondPidTargetIDPid).
THEOREM RightProcessAlways == Spec => []RightProcess
<1>1. Init => Wired /\ Mapped /\ Faithful /\ RightProcess
  BY WiredInit, MappedInit, FaithfulInit DEF Init, RightProcess
<1>2. Wired /\ Mapped /\ Faithful /\ RightProcess /\ [Next]_vars
        => (Wired /\ Mapped /\ Faithful /\ RightProcess)'
  BY WiredNext, MappedNext, FaithfulNext, RightProcessNext
<1> QED BY <1>1, <1>2, PTL DEF Spec

-----------------------------------------------------------------------------
(* Folds *)

\* h is the fold, over each subset of s, of step: it takes pick[t] last of the elements of t.
IsFold(h, s, T, base, pick, step) ==
  /\ h \in [SUBSET s -> T]
  /\ h[{}] = base
  /\ \A t \in (SUBSET s) \ {{}} : h[t] = step[<<pick[t], h[t \ {pick[t]}]>>]

LEMMA SmallestSet ==
  ASSUME NEW D, IsFiniteSet(D), NEW W \in SUBSET SUBSET D, W # {}
  PROVE  \E s \in W : \A t \in W : t \subseteq s => t = s
<1>1. FiniteSubsetsOf(D) = SUBSET D /\ IsWellFoundedOn(StrictSubsetOrdering(D), FiniteSubsetsOf(D))
  BY FS_FiniteSubsetsOfFinite, FS_StrictSubsetOrderingWellFounded
<1>2. PICK s \in W : \A t \in W : <<t, s>> \notin StrictSubsetOrdering(D)
  BY <1>1, WFMin
<1> QED BY <1>2 DEF StrictSubsetOrdering

LEMMA FoldsAgree ==
  ASSUME NEW D, IsFiniteSet(D), NEW T, NEW base, NEW pick, NEW step,
         \A t \in (SUBSET D) \ {{}} : pick[t] \in t,
         NEW s \in SUBSET D, NEW u \in SUBSET D, NEW h, NEW k,
         IsFold(h, s, T, base, pick, step), IsFold(k, u, T, base, pick, step)
  PROVE  \A t \in SUBSET (s \cap u) : h[t] = k[t]
<1> DEFINE W == {t \in SUBSET (s \cap u) : h[t] # k[t]}
<1> SUFFICES ASSUME W # {} PROVE FALSE
  OBVIOUS
<1>1. PICK t \in W : \A v \in W : v \subseteq t => v = t
  <2>1. W \in SUBSET SUBSET D
    OBVIOUS
  <2> HIDE DEF W
  <2> QED BY <2>1, SmallestSet
<1>2. t # {}
  BY DEF IsFold
<1>3. pick[t] \in t
  BY <1>2
<1>4. t \ {pick[t]} \notin W
  BY <1>1, <1>3
<1>5. h[t \ {pick[t]}] = k[t \ {pick[t]}]
  BY <1>4
<1> QED BY <1>2, <1>5 DEF IsFold

LEMMA FoldExists ==
  ASSUME NEW D, IsFiniteSet(D), NEW T, NEW base \in T, NEW pick, NEW step \in [D \X T -> T],
         \A t \in (SUBSET D) \ {{}} : pick[t] \in t
  PROVE  \E h : IsFold(h, D, T, base, pick, step)
<1> DEFINE Fold(s, h) == IsFold(h, s, T, base, pick, step)
           W == {s \in SUBSET D : ~\E h : Fold(s, h)}
<1> SUFFICES ASSUME W # {} PROVE FALSE
  OBVIOUS
<1>1. PICK s \in W : \A v \in W : v \subseteq s => v = s
  <2>1. W \in SUBSET SUBSET D
    OBVIOUS
  <2> HIDE DEF W
  <2> QED BY <2>1, SmallestSet
<1> DEFINE of(t) == CHOOSE h : Fold(t, h)
           less(t) == t \ {pick[t]}
           h == [t \in SUBSET s |-> IF t = {} THEN base ELSE step[<<pick[t], of(less(t))[less(t)]>>]]
<1> HIDE DEF Fold
<1>2. ASSUME NEW t \in (SUBSET s) \ {{}}
      PROVE  less(t) \in SUBSET s /\ pick[t] \in D /\ Fold(less(t), of(less(t)))
  <2>1. pick[t] \in t
    OBVIOUS
  <2>2. less(t) \subseteq s /\ less(t) # s
    BY <2>1
  <2>3. \E k : Fold(less(t), k)
    BY <1>1, <2>2
  <2> QED BY <2>1, <2>2, <2>3
<1>3. ASSUME NEW t \in (SUBSET s) \ {{}} PROVE of(less(t))[less(t)] \in T
  <2>1. Fold(less(t), of(less(t)))
    BY <1>2
  <2> HIDE DEF of, less
  <2> QED BY <2>1 DEF Fold, IsFold
<1>4. h \in [SUBSET s -> T]
  <2>1. \A t \in (SUBSET s) \ {{}} : step[<<pick[t], of(less(t))[less(t)]>>] \in T
    BY <1>2, <1>3
  <2> HIDE DEF of, less
  <2> QED BY <2>1
<1>5. h[{}] = base
  OBVIOUS
<1>6. ASSUME NEW t \in (SUBSET s) \ {{}} PROVE h[t] = step[<<pick[t], h[less(t)]>>]
  <2> DEFINE u == less(t)
  <2>1. u \in SUBSET s /\ Fold(u, of(u))
    BY <1>2
  <2>2. h[u] = of(u)[u]
    <3>1. CASE u = {}
      BY <2>1, <3>1 DEF Fold, IsFold
    <3>2. CASE u # {}
      <4>1. h[u] = step[<<pick[u], of(less(u))[less(u)]>>]
        BY <2>1, <3>2
      <4>2. of(u)[u] = step[<<pick[u], of(u)[less(u)]>>]
        BY <2>1, <3>2 DEF Fold, IsFold
      <4>3. Fold(less(u), of(less(u))) /\ less(u) \in SUBSET D /\ u \in SUBSET D
        BY <1>2, <2>1, <3>2
      <4>4. less(u) \in SUBSET (u \cap less(u))
        OBVIOUS
      <4> HIDE DEF of, less, h, u
      <4>5. of(u)[less(u)] = of(less(u))[less(u)]
        BY <2>1, <4>3, <4>4, FoldsAgree DEF Fold
      <4> QED BY <4>1, <4>2, <4>5
    <3> QED BY <3>1, <3>2
  <2>3. h[t] = step[<<pick[t], of(u)[u]>>]
    OBVIOUS
  <2> HIDE DEF of, less, h
  <2> QED BY <2>2, <2>3
<1> HIDE DEF h
<1>7. Fold(s, h)
  BY <1>4, <1>5, <1>6 DEF Fold, IsFold
<1> QED BY <1>1, <1>7

\* g has the equations of a fold as far as its values are in T.
GoesBy(g, D, T, pick, step) ==
  /\ g[{}] \in T
  /\ \A t \in (SUBSET D) \ {{}} :
       /\ pick[t] \in t
       /\ g[t \ {pick[t]}] \in T => g[t] = step[<<pick[t], g[t \ {pick[t]}]>>]

\* Then all of them are, if those of step are.
LEMMA FoldStaysIn ==
  ASSUME NEW D, IsFiniteSet(D), NEW T, NEW pick, NEW step, step \in [D \X T -> T],
         NEW g, GoesBy(g, D, T, pick, step)
  PROVE  g[D] \in T
<1> USE DEF GoesBy
<1> DEFINE W == {t \in SUBSET D : g[t] \notin T}
<1> SUFFICES ASSUME W # {} PROVE FALSE
  OBVIOUS
<1>1. PICK t \in W : \A v \in W : v \subseteq t => v = t
  <2>1. W \in SUBSET SUBSET D
    OBVIOUS
  <2> HIDE DEF W
  <2> QED BY <2>1, SmallestSet
<1>2. t # {} /\ pick[t] \in t
  OBVIOUS
<1>3. t \ {pick[t]} \notin W
  BY <1>1, <1>2
<1> QED BY <1>2, <1>3

LEMMA LastOfFew ==
  ASSUME NEW n \in Nat, NEW t \in SUBSET (1 .. n), t # {}
  PROVE  Max(t) \in t
<1> DEFINE T == {n - i : i \in t}
<1>1. T \subseteq Nat /\ T # {}
  <2>1. \A i \in t : n - i \in Nat
    OBVIOUS
  <2> QED BY <2>1
<1>2. PICK x \in T : \A y \in T : <<y, x>> \notin OpToRel(<, Nat)
  BY <1>1, NatLessThanWellFounded, WFMin
<1>3. PICK last \in t : x = n - last
  BY <1>2
<1>4. ASSUME NEW i \in t PROVE last >= i
  <2>1. n - i \in T
    OBVIOUS
  <2>2. ~(n - i < n - last)
    BY <1>1, <1>2, <1>3, <2>1 DEF OpToRel
  <2> HIDE DEF T
  <2> QED BY <2>2
<1> QED BY <1>4 DEF Max

-----------------------------------------------------------------------------
(* The lists of processes *)

LEMMA WithoutPidTyped ==
  ASSUME NEW s \in Seq(Pids), NEW p
  PROVE  WithoutPid(s, p) \in Seq(Pids)
<1>1. CASE p \notin Range(s)
  BY <1>1 DEF WithoutPid
<1>2. CASE p \in Range(s)
  <2> DEFINE i == Min({j \in DOMAIN s : s[j] = p})
             swapped == [s EXCEPT ![i] = Last(s)]
  <2>1. s # <<>>
    BY <1>2 DEF Range
  <2>2. Last(s) \in Pids
    BY <2>1 DEF Last
  <2>3. swapped \in Seq(Pids) /\ Len(swapped) = Len(s)
    <3> HIDE DEF i
    <3>1. swapped = [j \in 1 .. Len(s) |-> IF j = i THEN Last(s) ELSE s[j]]
      OBVIOUS
    <3>2. \A j \in 1 .. Len(s) : (IF j = i THEN Last(s) ELSE s[j]) \in Pids
      BY <2>2
    <3> HIDE DEF swapped
    <3> QED BY <3>1, <3>2
  <2> HIDE DEF swapped, i
  <2>4. Len(s) - 1 \in Nat /\ Len(s) - 1 <= Len(s)
    BY <2>1
  <2>5. Front(swapped) \in Seq(Pids)
    BY <2>3, <2>4, SubSeqProperties DEF Front
  <2> QED BY <1>2, <2>5 DEF WithoutPid, swapped, i
<1> QED BY <1>1, <1>2

LEMMA LivePidsTyped ==
  ASSUME pids \in Seq(Pids)
  PROVE  LivePids \in Seq(Pids)
<1> DEFINE n == Len(pids)
           D == 1 .. n
           T == Seq(Pids)
           pick == [t \in (SUBSET D) \ {{}} |-> Max(t)]
           step == [e \in D \X T |-> WithoutLostPid(e[2], pids[e[1]])]
           f(g) == [s \in SUBSET D |->
                      IF s = {} THEN pids ELSE WithoutLostPid(g[s \ {Max(s)}], pids[Max(s)])]
           fold == CHOOSE g : g = f(g)
<1>1. LivePids = fold[D]
  <2>1. DOMAIN pids = D
    OBVIOUS
  <2> HIDE DEF D
  <2> QED BY <2>1 DEF LivePids, FoldLeft, MapThenFoldSet
<1>2. IsFiniteSet(D) /\ n \in Nat
  BY FS_Interval
<1>3. pids \in T
  OBVIOUS
<1>4. step \in [D \X T -> T]
  <2>1. \A e \in D \X T : WithoutLostPid(e[2], pids[e[1]]) \in T
    BY WithoutPidTyped DEF WithoutLostPid
  <2> HIDE DEF T, D
  <2> QED BY <2>1
<1>5. \A t \in (SUBSET D) \ {{}} : pick[t] = Max(t) /\ pick[t] \in t
  BY <1>2, LastOfFew
<1> HIDE DEF n, D, T, pick, step
<1>6. PICK h : IsFold(h, D, T, pids, pick, step)
  BY <1>2, <1>3, <1>4, <1>5, FoldExists
<1>7. h = f(h)
  <2>1. h \in [SUBSET D -> T] /\ h[{}] = pids
    BY <1>6 DEF IsFold
  <2>2. ASSUME NEW t \in (SUBSET D) \ {{}}
        PROVE  h[t] = WithoutLostPid(h[t \ {Max(t)}], pids[Max(t)])
    <3>1. h[t] = step[<<pick[t], h[t \ {pick[t]}]>>] /\ h[t \ {pick[t]}] \in T /\ pick[t] \in D
      BY <1>5, <1>6 DEF IsFold
    <3> QED BY <1>5, <3>1 DEF step
  <2> QED BY <2>1, <2>2
<1>8. fold = f(fold)
  BY <1>7
<1> HIDE DEF fold
<1>9. fold[{}] = pids
  BY <1>8
<1>10. \A t \in (SUBSET D) \ {{}} :
          fold[t \ {pick[t]}] \in T => fold[t] = step[<<pick[t], fold[t \ {pick[t]}]>>]
  <2> SUFFICES ASSUME NEW t \in (SUBSET D) \ {{}}, fold[t \ {pick[t]}] \in T
               PROVE  fold[t] = step[<<pick[t], fold[t \ {pick[t]}]>>]
    OBVIOUS
  <2>1. fold[t] = WithoutLostPid(fold[t \ {Max(t)}], pids[Max(t)])
    BY <1>8
  <2>2. pick[t] \in D
    BY <1>5
  <2> QED BY <1>5, <2>1, <2>2 DEF step
<1>11. fold[D] \in T
  <2>1. GoesBy(fold, D, T, pick, step)
    BY <1>3, <1>5, <1>9, <1>10 DEF GoesBy
  <2> HIDE DEF f
  <2> QED BY <2>1, <1>2, <1>4, FoldStaysIn
<1> QED BY <1>1, <1>11 DEF T

LEMMA Fits ==
  ASSUME NEW a \in Nat, NEW n \in Nat \ {0}, NEW i \in 1 .. (a \div n)
  PROVE  i * n <= a
<1>1. (a \div n) * n <= a /\ a \div n \in Nat
  OBVIOUS
<1>2. i * n <= (a \div n) * n
  <2> DEFINE q == a \div n
  <2>1. q \in Nat /\ i <= q /\ i \in Nat
    BY <1>1
  <2> HIDE DEF q
  <2>2. (q - i) * n >= 0 /\ (q - i) * n = q * n - i * n
    BY <2>1
  <2> QED BY <2>1, <2>2 DEF q
<1> QED BY <1>1, <1>2

\* The processes are dealt out in turn: nobody gets one that is not there.
LEMMA ShareTyped ==
  ASSUME pids \in Seq(Pids), scenario \in Scenarios, NEW k \in 1 .. Kdamonds
  PROVE  Share(k) \in Seq(Pids)
<1>1. Kdamonds \in Nat \ {0} /\ k \in Nat /\ Len(pids) \in Nat
  BY ConstantsAssumption DEF ConstantsAssumption, Kdamonds
<1>2. CASE Debugfs
  BY <1>2 DEF Share
<1>3. CASE ~Debugfs
  <2> DEFINE a == Len(pids) + Kdamonds - k
             m == a \div Kdamonds
  <2>1. a \in Nat /\ m \in Nat
    BY <1>1
  <2>2. ASSUME NEW i \in 1 .. m PROVE pids[(i - 1) * Kdamonds + k] \in Pids
    <3>1. i * Kdamonds <= a
      BY <1>1, <2>1, Fits
    <3>2. (i - 1) * Kdamonds = i * Kdamonds - Kdamonds /\ (i - 1) * Kdamonds >= 0
          /\ (i - 1) * Kdamonds \in Int
      BY <1>1, <2>1
    <3>3. (i - 1) * Kdamonds + k \in 1 .. Len(pids)
      BY <1>1, <3>1, <3>2
    <3> QED BY <3>3
  <2>3. Share(k) = [i \in 1 .. m |-> pids[(i - 1) * Kdamonds + k]]
    BY <1>3 DEF Share
  <2> HIDE DEF m
  <2> QED BY <2>1, <2>2, <2>3
<1> QED BY <1>2, <1>3

LEMMA NewTargetsTyped ==
  ASSUME pids \in Seq(Pids), scenario \in Scenarios, targets \in [1 .. Kdamonds -> Seq(Pids)]
  PROVE  NewTargets \in [1 .. Kdamonds -> Seq(Pids)]
BY ShareTyped DEF NewTargets

-----------------------------------------------------------------------------
(* The types of the variables that Wired says nothing about *)

\* What calls work on.
ListsTyped ==
  /\ pids \in Seq(Pids) /\ started \in BOOLEAN
  /\ targets \in [1..Kdamonds -> Seq(Pids)]
  /\ Range(kmap) \subseteq Seq(Pids)
  /\ broken \in {"no", "apply", "configure"}

\* What the reader works on; there is a channel exactly while there is a reader.
ReaderTyped ==
  /\ alive \subseteq Pids /\ ranged \subseteq Pids
  /\ chan \in {"nil", "empty", "update", "quit"}
  /\ reader \in {"off", "begin", "wait", "close", "perf begin", "perf", "perf deaf",
                "perf close", "perf off"}
  /\ signal \in BOOLEAN
  /\ chan = "nil" <=> reader = "off"
  /\ lines \subseteq LineType
  /\ accesses \in BOOLEAN /\ lost \in BOOLEAN

LEMMA NothingInEmpty == DOMAIN <<>> = {} /\ Range(<<>>) = {} /\ <<>> \in Seq(Pids)
<1>1. DOMAIN <<>> = {} /\ <<>> \in Seq(Pids)
  OBVIOUS
<1> QED BY <1>1 DEF Range

LEMMA TypedInit == Init => ListsTyped /\ ReaderTyped
<1> SUFFICES ASSUME Init PROVE ListsTyped /\ ReaderTyped
  OBVIOUS
<1>1. targets \in [1..Kdamonds -> Seq(Pids)]
  BY NothingInEmpty DEF Init, NoTargets
<1> QED BY <1>1, NothingInEmpty DEF Init, ListsTyped, ReaderTyped

LEMMA ListsTypedCall ==
  ASSUME Wired, ListsTyped, NEW c \in Clients, Call(c)
  PROVE  ListsTyped'
<1>1. scenario' = scenario
  BY DEF Call, AddPids, RemovePids, ChangesPids, RemoveAllPids, Start, Stop, ResetCounters,
         SetConfigJSON, config
<1>2. Kdamonds' = Kdamonds
  BY <1>1 DEF Kdamonds
<1>3. ASSUME NEW op, NEW new \in Seq(Pids), ChangesPids(c, op, new) PROVE ListsTyped'
  BY <1>2, <1>3 DEF ChangesPids, ListsTyped
<1>4. ASSUME NEW p \in Pids, AddPids(c, p) \/ RemovePids(c, p) PROVE ListsTyped'
  <2>1. Append(pids, p) \in Seq(Pids) /\ WithoutPid(pids, p) \in Seq(Pids)
    BY WithoutPidTyped DEF ListsTyped
  <2> QED BY <1>3, <1>4, <2>1 DEF AddPids, RemovePids
<1>5. CASE RemoveAllPids(c) \/ Start(c) \/ Stop(c) \/ ResetCounters(c)
  BY <1>2, <1>5, NothingInEmpty DEF RemoveAllPids, Start, Stop, ResetCounters, ListsTyped, config
<1>6. CASE SetConfigJSON(c)
  <2>1. targets' \in [1..Kdamonds -> Seq(Pids)]
    BY <1>6, NothingInEmpty DEF SetConfigJSON, NoTargets
  <2> QED BY <1>2, <1>6, <2>1, NothingInEmpty DEF SetConfigJSON, ListsTyped
<1> QED BY <1>4, <1>5, <1>6 DEF Call

LEMMA ListsTypedStep ==
  ASSUME Wired, ListsTyped, NEW c \in Clients, Step(c)
  PROVE  ListsTyped'
<1>1. scenario' = scenario
  BY DEF Step, DropLostPids, ApplyTargetIds, SwitchOn, MapKdamonds, UpdateConnection,
         StartDropsLostPids, StopReader, config
<1>2. Kdamonds' = Kdamonds
  BY <1>1 DEF Kdamonds
<1>3. CASE DropLostPids(c) \/ StartDropsLostPids(c)
  BY <1>2, <1>3, LivePidsTyped DEF DropLostPids, StartDropsLostPids, ListsTyped
<1>4. CASE ApplyTargetIds(c)
  <2>1. targets' \in [1..Kdamonds -> Seq(Pids)]
    BY <1>4, NewTargetsTyped DEF ApplyTargetIds, ListsTyped, Wired
  <2>2. started' \in BOOLEAN /\ broken' \in {"no", "apply", "configure"} /\ UNCHANGED <<pids, kmap>>
    <3>1. started' \in {started, started \/ RefusedKdamonds = {}}
      BY <1>4 DEF ApplyTargetIds
    <3> QED BY <1>4, <3>1 DEF ApplyTargetIds, ListsTyped
  <2> QED BY <1>2, <2>1, <2>2 DEF ListsTyped
<1>5. CASE SwitchOn(c)
  BY <1>2, <1>5, NothingInEmpty DEF SwitchOn, ListsTyped, config
<1>6. CASE MapKdamonds(c)
  <2> DEFINE new == [kp \in Range(kpid) \ {None} |->
                       targets[CHOOSE k \in 1..Kdamonds : kpid[k] = kp]]
  <2>1. kmap' = new
    BY <1>6 DEF MapKdamonds
  <2>2. \A kp \in Range(kpid) \ {None} : \E k \in 1..Kdamonds : kpid[k] = kp
    BY DEF Range, Wired
  <2>3. \A kp \in DOMAIN new : new[kp] \in Seq(Pids)
    BY <2>2 DEF ListsTyped
  <2> HIDE DEF new
  <2>4. Range(kmap') \subseteq Seq(Pids)
    BY <2>1, <2>3 DEF Range
  <2> QED BY <1>2, <1>6, <2>4 DEF MapKdamonds, ListsTyped, config
<1>7. CASE UpdateConnection(c) \/ StopReader(c)
  BY <1>2, <1>7 DEF UpdateConnection, StopReader, ListsTyped, config
<1> QED BY <1>3, <1>4, <1>5, <1>6, <1>7 DEF Step

LEMMA ListsTypedNext == Wired /\ ListsTyped /\ [Next]_vars => ListsTyped'
<1> SUFFICES ASSUME Wired, ListsTyped, [Next]_vars
             PROVE  ListsTyped'
  OBVIOUS
<1>1. CASE \E c \in Clients : Call(c) \/ Step(c)
  BY <1>1, ListsTypedCall, ListsTypedStep
<1>2. CASE Read \/ Parse \/ Environment \/ UNCHANGED vars
  <2>1. UNCHANGED <<config, kmap, broken>>
    BY <1>2 DEF Read, StartBpftrace, BpftraceFails, Receive, CloseReader, PerfStarts,
        PerfFails, PerfReceive, Parse, Attribute, Store, Environment, Die, Grow, KdamondEnds,
        Report, BpftraceEnds, PerfEnds, PerfSignals, vars
  <2> QED BY <2>1 DEF ListsTyped, config, Kdamonds
<1> QED BY <1>1, <1>2 DEF Next

\* Calls start the reader, tell it something, and mark lines as late.
LEMMA ReaderTypedCalls ==
  ASSUME ReaderTyped, NEW c \in Clients, Call(c) \/ Step(c)
  PROVE  ReaderTyped'
<1>1. CASE Call(c)
  BY <1>1 DEF Call, AddPids, RemovePids, ChangesPids, RemoveAllPids, Start, Stop, ResetCounters,
      SetConfigJSON, kernel, reading, ReaderTyped
<1>2. CASE ApplyTargetIds(c)
  <2>1. {[l EXCEPT !.late = TRUE] : l \in lines} \subseteq LineType
    <3> SUFFICES ASSUME NEW l \in lines PROVE [l EXCEPT !.late = TRUE] \in LineType
      OBVIOUS
    <3>1. l \in LineType
      BY DEF ReaderTyped
    <3> QED BY <3>1 DEF LineType
  <2>2. lines' \subseteq LineType
    BY <1>2, <2>1 DEF ApplyTargetIds, ReaderTyped
  <2> QED BY <1>2, <2>2 DEF ApplyTargetIds, kernel, reading, ReaderTyped
<1>3. CASE UpdateConnection(c) \/ StopReader(c)
  BY <1>3 DEF UpdateConnection, StopReader, kernel, ReaderTyped
<1>4. CASE DropLostPids(c) \/ StartDropsLostPids(c) \/ SwitchOn(c) \/ MapKdamonds(c)
  BY <1>4 DEF DropLostPids, StartDropsLostPids, SwitchOn, MapKdamonds, kernel, reading, ReaderTyped
<1> QED BY <1>1, <1>2, <1>3, <1>4 DEF Step

\* A report is of a kdamond's thread and of one of its targets.
LEMMA ReportTyped ==
  ASSUME Wired, ReaderTyped, NEW k \in 1..Kdamonds, NEW t \in 1..MaxTracked, Report(k, t)
  PROVE  ReaderTyped'
<1>1. kpid[k] \in KdamondPids
  BY DEF Report, Listens, On, Wired
<1>2. targets[k][t] \in Pids
  BY DEF Report, ReaderTyped
<1>3. [kpid |-> kpid[k], tid |-> t, who |-> targets[k][t], pid |-> None, late |-> FALSE] \in LineType
  BY <1>1, <1>2 DEF LineType
<1>4. lines' \subseteq LineType
  BY <1>3 DEF Report, ReaderTyped
<1> QED BY <1>4 DEF Report, ReaderTyped, kernel, reading

LEMMA AttributeTyped ==
  ASSUME Wired, ListsTyped, ReaderTyped, NEW l \in lines, Attribute(l)
  PROVE  ReaderTyped'
<1> DEFINE kp == IF Perf THEN 0 ELSE l.kpid
           pid == AggregatedPid(kp, l.tid)
<1>1. pid \in Pids \cup {Unknown}
  <2>1. 1 \in 1..Kdamonds
    BY ConstantsAssumption DEF Wired, ConstantsAssumption, Kdamonds
  <2>2. targets[1] \in Seq(Pids)
    BY <2>1 DEF ListsTyped
  <2>3. kp \in DOMAIN kmap => kmap[kp] \in Seq(Pids)
    BY DEF ListsTyped, Range
  <2> DEFINE known == IF Debugfs THEN targets[1] ELSE IF kp \in DOMAIN kmap THEN kmap[kp] ELSE <<>>
  <2> HIDE DEF kp
  <2>4. known \in Seq(Pids)
    BY <2>2, <2>3, NothingInEmpty
  <2>5. pid = IF l.tid \in DOMAIN known THEN known[l.tid] ELSE Unknown
    BY DEF AggregatedPid
  <2> HIDE DEF known, pid
  <2> QED BY <2>4, <2>5
<1> HIDE DEF pid
<1>2. l \in LineType
  BY DEF ReaderTyped
<1>3. [l EXCEPT !.pid = pid] \in LineType
  BY <1>1, <1>2 DEF LineType
<1>4. lines' \subseteq LineType
  BY <1>3 DEF Attribute, ReaderTyped, pid
<1> QED BY <1>4 DEF Attribute, ReaderTyped, kernel, reading

LEMMA ReaderTypedOthers ==
  ASSUME Wired, ListsTyped, ReaderTyped, Read \/ Parse \/ Environment \/ UNCHANGED vars
  PROVE  ReaderTyped'
<1>1. CASE Read
  <2>1. lines' \subseteq lines
    BY <1>1 DEF Read, StartBpftrace, BpftraceFails, Receive, CloseReader, PerfStarts,
        PerfFails, PerfReceive
  <2>2. lines' \subseteq LineType
    BY <2>1 DEF ReaderTyped
  <2>3. lost' \in BOOLEAN /\ signal' \in BOOLEAN
    BY <1>1 DEF Read, StartBpftrace, BpftraceFails, Receive, CloseReader, PerfStarts,
        PerfFails, PerfReceive, ReaderTyped, ListsTyped
  <2> QED BY <1>1, <2>2, <2>3 DEF Read, StartBpftrace, BpftraceFails, Receive, CloseReader, PerfStarts,
        PerfFails, PerfReceive, ReaderTyped, kernel
<1>2. CASE Parse
  <2>1. ASSUME NEW l \in lines, Store(l) PROVE ReaderTyped'
    BY <2>1 DEF Store, ReaderTyped, kernel, reading
  <2> QED BY <1>2, <2>1, AttributeTyped DEF Parse
<1>3. CASE Environment
  <2>1. ASSUME NEW p \in Pids, Die(p) \/ Grow(p) PROVE ReaderTyped'
    BY <2>1 DEF Die, Grow, ReaderTyped, reading
  <2>2. ASSUME NEW k \in 1..Kdamonds, KdamondEnds(k) PROVE ReaderTyped'
    BY <2>2 DEF KdamondEnds, ReaderTyped, reading
  <2>3. CASE BpftraceEnds \/ PerfEnds \/ PerfSignals
    BY <2>3 DEF BpftraceEnds, PerfEnds, PerfSignals, ReaderTyped, kernel
  <2> QED BY <1>3, <2>1, <2>2, <2>3, ReportTyped DEF Environment
<1>4. CASE UNCHANGED vars
  BY <1>4 DEF vars, kernel, reading, ReaderTyped
<1> QED BY <1>1, <1>2, <1>3, <1>4

\* Every reachable state is well typed: the client that is in a call owns the mutex, the
\* channel to the reader is there exactly as long as the reader is, or one of perf that
\* did not start, and removing processes and dealing them out makes up none.
THEOREM TypeCorrect == Spec => []TypeOK
<1>1. Init => Wired /\ ListsTyped /\ ReaderTyped
  BY WiredInit, TypedInit
<1>2. Wired /\ ListsTyped /\ ReaderTyped /\ [Next]_vars => (Wired /\ ListsTyped /\ ReaderTyped)'
  BY WiredNext, ListsTypedNext, ReaderTypedCalls, ReaderTypedOthers DEF Next
<1>3. Wired /\ ListsTyped /\ ReaderTyped => TypeOK
  BY DEF Wired, ListsTyped, ReaderTyped, TypeOK
<1> QED BY <1>1, <1>2, <1>3, PTL DEF Spec
=============================================================================
