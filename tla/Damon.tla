------------------------------- MODULE Damon -------------------------------
(***************************************************************************)
(* The DAMON tracker (pkg/memtier/tracker_damon.go).  The kernel monitors  *)
(* the tracked processes with threads of its own, kdamonds; the tracker    *)
(* tells them which processes to monitor over sysfs or debugfs, and reads  *)
(* what they report from a bpftrace or a perf process.                     *)
(*                                                                         *)
(* Four parties share the state: clients, which own the mutex from one     *)
(* step of a call to the next; the reader goroutine, which starts bpftrace *)
(* again whenever the kdamonds have changed, or perf once; the parser,     *)
(* which looks up whose accesses a line reports and adds them to the       *)
(* counters (of perf it is the reader itself); and the kernel with its     *)
(* processes.  Counts of accesses and address ranges are abstracted away:  *)
(* what remains is which process the accesses are attributed to.           *)
(***************************************************************************)
EXTENDS Naturals, SequencesExt

CONSTANTS
  Clients,      \* goroutines that call the tracker
  Pids,         \* processes that may be tracked
  KdamondPids,  \* pids of kernel threads
  Scenarios,    \* the interface and how many kdamonds KdamondsList has, the connection,
                \* what each client calls, whether a process is added twice (pidlist's Start and Poll),
                \* which processes exit and which have no anonymous memory to begin
                \* with, whether bpftrace or perf fails, and a bound on the lines in flight
  MaxTracked,   \* bound on the length of pids
  None,         \* nobody owns the mutex
  Unknown       \* pid 0, that of a line nobody is known to have caused

OpNames == {"add", "remove", "remove all", "reset", "start", "stop", "configure"}

ASSUME ConstantsAssumption ==
  /\ Scenarios \subseteq [iface : {"sysfs", "debugfs"}, kdamonds : Nat \ {0},
                          conn : {"bpftrace", "perf"}, ops : [Clients -> SUBSET OpNames],
                          twice : BOOLEAN,
                          mortal : SUBSET Pids, rangeless : SUBSET Pids,
                          fails : BOOLEAN, lines : Nat]
  /\ MaxTracked \in Nat /\ KdamondPids \subseteq Nat \ {0}
  /\ None \notin Clients \cup KdamondPids
  /\ Unknown \notin Pids

VARIABLES
  alive,     \* the processes that have not exited
  ranged,    \* the processes with address ranges worth monitoring
  scenario,  \* the scenario, which does not change
  kpid,      \* kpid[k]: the kernel thread of kdamond k while it is on
  pids,      \* TrackerDamon.pids
  started,   \* TrackerDamon.started
  targets,   \* targets[k]: targetIDPid of kdamond k; appliedPids with debugfs
  kmap,      \* kdamondPidTargetIDPid
  mutex,     \* the client that owns the mutex between steps
  pc,        \* where each client is
  chan,      \* toBpftraceReader or toPerfReader, of capacity 1: "nil", "empty", "update", "quit"
  reader,    \* where the reader goroutine is
  cmd,       \* the kernel threads the running bpftrace listens to
  signal,    \* perf has ended, and the goroutine that read from it will tell the reader
  lines,     \* what bpftrace has reported and is not yet counted
  accesses,  \* TrackerDamon.accesses: whether some process has counters
  broken,    \* why monitoring is not as asked for: "no", "apply", "configure"
  lost       \* bpftrace, or its reader, ended on its own or on an older stop

kernel == <<alive, ranged, kpid>>
config == <<scenario, pids, started, targets>>
calls == <<mutex, pc>>
reading == <<chan, reader, cmd, signal>>
vars == <<kernel, config, kmap, calls, reading, lines, accesses, broken, lost>>

Debugfs == scenario.iface = "debugfs"
Perf == scenario.conn = "perf"
Kdamonds == scenario.kdamonds

NoKdamond == [k \in 1..Kdamonds |-> None]
NoTargets == [k \in 1..Kdamonds |-> <<>>]

\* The tracker has been configured: without KdamondsList it does not start.
Init ==
  /\ scenario \in Scenarios
  /\ alive = Pids /\ ranged = Pids \ scenario.rangeless
  /\ kpid = NoKdamond /\ pids = <<>> /\ started = FALSE /\ targets = NoTargets
  /\ kmap = <<>> /\ mutex = None /\ pc = [c \in Clients |-> "idle"]
  /\ chan = "nil" /\ reader = "off" /\ cmd = {} /\ signal = FALSE /\ lines = {} /\ accesses = FALSE
  /\ broken = "no" /\ lost = FALSE

-----------------------------------------------------------------------------
(* The kernel and the processes *)

Die(p) ==
  /\ p \in alive \cap scenario.mortal /\ alive' = alive \ {p}
  /\ UNCHANGED <<ranged, kpid, config, kmap, calls, reading, lines, accesses, broken, lost>>

\* A process without anonymous memory gets some.
Grow(p) ==
  /\ p \in alive \ ranged /\ ranged' = ranged \cup {p}
  /\ UNCHANGED <<alive, kpid, config, kmap, calls, reading, lines, accesses, broken, lost>>

On(k) == kpid[k] # None

\* A kdamond ends when all its targets have.
KdamondEnds(k) ==
  /\ On(k) /\ Range(targets[k]) \cap alive = {}
  /\ kpid' = [kpid EXCEPT ![k] = None]
  /\ UNCHANGED <<alive, ranged, config, kmap, calls, reading, lines, accesses, broken, lost>>

\* Kernel threads that are mentioned nowhere: a new one has such a pid.
FreshKdamondPids ==
  KdamondPids \ (Range(kpid) \cup DOMAIN kmap \cup cmd \cup {l.kpid : l \in lines})

\* Any will do; kdamonds that are switched on together get different ones.
NewKdamondPids == Injection(1..Kdamonds, FreshKdamondPids)

\* bpftrace listens to kdamond k; perf listens to all of them.
Listens(k) == kpid[k] \in cmd \/ (reader = "perf" /\ On(k))

\* kdamond k reports on its target t, and the filter of bpftrace lets it through.
Report(k, t) ==
  /\ Listens(k) /\ t \in DOMAIN targets[k] /\ targets[k][t] \in alive
  /\ Cardinality(lines) < scenario.lines
  /\ lines' = lines \cup {[kpid |-> kpid[k], tid |-> t, who |-> targets[k][t],
                           pid |-> None, late |-> FALSE]}
  /\ UNCHANGED <<kernel, config, kmap, calls, reading, accesses, broken, lost>>

-----------------------------------------------------------------------------
(* The user space interfaces *)

\* ApplyState("off"): a kdamond that was off already is not an error.
ApplyOff == kpid' = NoKdamond

\* The processes each kdamond gets: dealt out in turn with sysfs.
Share(k) ==
  IF Debugfs THEN IF k = 1 THEN pids ELSE <<>>
  ELSE [i \in 1..((Len(pids) + Kdamonds - k) \div Kdamonds) |-> pids[(i - 1) * Kdamonds + k]]

\* Processes ApplyTargetIds fails on.  It reads the ranges with sysfs only.
Refused == (Pids \ alive) \cup (IF ~Debugfs THEN Pids \ ranged ELSE {})

RefusedKdamonds == {k \in 1..Kdamonds : Range(Share(k)) \cap Refused # {}}

\* The kdamonds before the one that fails, and that one with sysfs, have their new targets.
NewTargets ==
  IF RefusedKdamonds = {} THEN [k \in 1..Kdamonds |-> Share(k)]
  ELSE IF Debugfs THEN targets
  ELSE [k \in 1..Kdamonds |-> IF k <= Min(RefusedKdamonds) THEN Share(k) ELSE targets[k]]

\* The kdamonds ApplyState("on") switches on, and those the kernel refuses to.
ToSwitchOn == {k \in 1..Kdamonds : targets[k] # <<>> \/ (Debugfs /\ k = 1)}
WillNotSwitchOn == {k \in ToSwitchOn : targets[k] = <<>> \/ ~(Range(targets[k]) \subseteq alive)}

\* A mutant for RightProcess: the targets the kdamonds have now.
AggregatedPidOfNow(kp, tid) ==
  IF tid \in DOMAIN targets[1] THEN targets[1][tid] ELSE Unknown

\* AggregatedPid.  debugfs has only one kdamond and does not look which one it was.
AggregatedPid(kp, tid) ==
  LET known == IF Debugfs THEN targets[1]
               ELSE IF kp \in DOMAIN kmap THEN kmap[kp] ELSE <<>>
  IN IF tid \in DOMAIN known THEN known[tid] ELSE Unknown

KnownKdamondPids == IF Debugfs THEN Range(kpid) \ {None} ELSE DOMAIN kmap

-----------------------------------------------------------------------------
(* Calls *)

Goes(c, from, to) == pc[c] = from /\ pc' = [pc EXCEPT ![c] = to]

Locks(c, op, to) ==
  /\ op \in scenario.ops[c] /\ mutex = None
  /\ Goes(c, "idle", to)
  /\ mutex' = IF to = "idle" THEN None ELSE c

Proceeds(c, from, to) ==
  /\ Goes(c, from, to)
  /\ mutex' = IF to = "idle" THEN None ELSE c

\* removePid: the last of the list takes the place of the one that leaves.
WithoutPid(s, p) ==
  IF p \notin Range(s) THEN s
  ELSE LET i == Min({j \in DOMAIN s : s[j] = p})
       IN Front([s EXCEPT ![i] = Last(s)])

\* applyPids drops the processes that are gone.
WithoutLostPid(s, p) == IF p \in alive THEN s ELSE WithoutPid(s, p)
LivePids == FoldLeft(WithoutLostPid, pids, pids)

\* applyPidsWithDamonStarted: nothing but the list changes until the tracker is started.
ChangesPids(c, op, new) ==
  /\ Locks(c, op, IF started THEN "lost pids" ELSE "idle")
  /\ pids' = new
  /\ IF started THEN ApplyOff /\ broken' = "no" ELSE UNCHANGED <<kpid, broken>>
  /\ UNCHANGED <<alive, ranged, scenario, started, targets, kmap, reading, lines, accesses, lost>>

AddPids(c, p) ==
  /\ Len(pids) < MaxTracked /\ (p \in Range(pids) => scenario.twice)
  /\ ChangesPids(c, "add", Append(pids, p))
RemovePids(c, p) == ChangesPids(c, "remove", WithoutPid(pids, p))

\* RemovePids(nil) returns before the kernel is told.
RemoveAllPids(c) ==
  /\ Locks(c, "remove all", "idle") /\ pids' = <<>>
  /\ UNCHANGED <<kernel, scenario, started, targets, kmap, reading, lines, accesses, broken, lost>>

DropLostPids(c) ==
  /\ Proceeds(c, "lost pids", "targets")
  /\ pids' = LivePids
  /\ UNCHANGED <<kernel, scenario, started, targets, kmap, reading, lines, accesses, broken, lost>>

\* ApplyTargetIds.  Start counts as started from here on, and does not switch on
\* what has no targets.
ApplyTargetIds(c) ==
  LET ok == RefusedKdamonds = {} IN
  /\ \/ /\ pc[c] = "targets" /\ started' = started
        /\ Proceeds(c, "targets", IF ok THEN "on" ELSE "idle")
     \/ /\ pc[c] = "start targets" /\ started' = (started \/ ok)
        /\ Proceeds(c, "start targets",
                    IF ~ok THEN "idle" ELSE IF pids = <<>> THEN "connect" ELSE "on")
  /\ targets' = NewTargets
  /\ broken' = IF ok THEN broken ELSE "apply"
  /\ lines' = IF Debugfs THEN {[l EXCEPT !.late = TRUE] : l \in lines} ELSE lines
  /\ UNCHANGED <<kernel, scenario, pids, kmap, reading, accesses, lost>>

\* ApplyState("on"): the first kdamond that does not start ends the call.
SwitchOn(c) ==
  LET failing == WillNotSwitchOn
      new == {k \in ToSwitchOn : \A f \in failing : k < f}
      fresh == CHOOSE f \in NewKdamondPids : TRUE
  IN
  /\ NewKdamondPids # {}
  /\ Proceeds(c, "on", IF failing # {} THEN "idle"
                       ELSE IF ~Debugfs THEN "map" ELSE "connect")
  /\ kpid' = [k \in 1..Kdamonds |-> IF k \in new THEN fresh[k] ELSE kpid[k]]
  /\ broken' = IF failing = {} THEN broken ELSE "apply"
  /\ kmap' = IF failing = {} THEN <<>> ELSE kmap
  /\ UNCHANGED <<alive, ranged, config, reading, lines, accesses, lost>>

\* The second half of ApplyState("on") with sysfs: whose targets are whose.
MapKdamonds(c) ==
  /\ Proceeds(c, "map", "connect")
  /\ kmap' = [kp \in Range(kpid) \ {None} |-> targets[CHOOSE k \in 1..Kdamonds : kpid[k] = kp]]
  /\ UNCHANGED <<kernel, config, reading, lines, accesses, broken, lost>>

\* A mutant for TrackedIsHeard: a reader that runs is left alone.
UpdateConnectionOnce(c) ==
  /\ Proceeds(c, "connect", "idle")
  /\ \/ chan = "nil" /\ chan' = "empty" /\ reader' = "begin"
     \/ chan # "nil" /\ UNCHANGED <<chan, reader>>
  /\ UNCHANGED <<kernel, config, kmap, cmd, signal, lines, accesses, broken, lost>>

\* updateKdamondConnection: start a reader, or have bpftrace's look at the kdamonds again.
\* A full channel keeps the call, and the mutex, waiting.
UpdateConnection(c) ==
  /\ Proceeds(c, "connect", "idle")
  /\ \/ chan = "nil" /\ chan' = "empty" /\ reader' = IF Perf THEN "perf begin" ELSE "begin"
     \/ ~Perf /\ chan = "empty" /\ chan' = "update" /\ UNCHANGED reader
     \/ Perf /\ chan # "nil" /\ UNCHANGED <<chan, reader>>
  /\ UNCHANGED <<kernel, config, kmap, cmd, signal, lines, accesses, broken, lost>>

Start(c) ==
  /\ Locks(c, "start", "start lost pids")
  /\ ApplyOff /\ broken' = "no"
  /\ UNCHANGED <<alive, ranged, config, kmap, reading, lines, accesses, lost>>

StartDropsLostPids(c) ==
  /\ Proceeds(c, "start lost pids", "start targets")
  /\ pids' = LivePids
  /\ UNCHANGED <<kernel, scenario, started, targets, kmap, reading, lines, accesses, broken, lost>>

Stop(c) ==
  /\ Locks(c, "stop", IF chan = "nil" THEN "idle" ELSE "stop")
  /\ ApplyOff /\ started' = FALSE
  /\ UNCHANGED <<alive, ranged, scenario, pids, targets, kmap, reading, lines, accesses, broken, lost>>

StopReader(c) ==
  /\ Proceeds(c, "stop", "idle")
  /\ chan = "empty" /\ chan' = "quit"
  /\ UNCHANGED <<kernel, config, kmap, reader, cmd, signal, lines, accesses, broken, lost>>

ResetCounters(c) ==
  /\ Locks(c, "reset", "idle") /\ accesses' = FALSE
  /\ UNCHANGED <<kernel, config, kmap, reading, lines, broken, lost>>

\* SetConfigJSON, without the mutex: a new interface, which takes over the kdamonds
\* and switches them off with sysfs, and knows no targets.
SetConfigJSON(c) ==
  /\ "configure" \in scenario.ops[c] /\ pc[c] = "idle"
  /\ targets' = NoTargets /\ kmap' = <<>> /\ broken' = "configure"
  /\ IF ~Debugfs THEN ApplyOff ELSE UNCHANGED kpid
  /\ UNCHANGED <<alive, ranged, scenario, pids, started, calls, reading, lines, accesses, lost>>

-----------------------------------------------------------------------------
(* The reader and the parser *)

\* A mutant for CallsReturnUnlessJammed: the reader ends when there is no kdamond.
StartBpftraceOrLeave ==
  /\ reader = "begin" /\ reader' = IF KnownKdamondPids = {} THEN "off" ELSE "wait"
  /\ cmd' = KnownKdamondPids /\ lost' = FALSE
  /\ UNCHANGED <<kernel, config, kmap, calls, chan, signal, lines, accesses, broken>>

\* bpftraceReader starts bpftrace for the kdamonds there are.
StartBpftrace ==
  /\ reader = "begin" /\ reader' = "wait"
  /\ cmd' = KnownKdamondPids /\ lost' = FALSE
  /\ UNCHANGED <<kernel, config, kmap, calls, chan, signal, lines, accesses, broken>>

BpftraceFails ==
  /\ scenario.fails /\ reader = "begin" /\ KnownKdamondPids # {}
  /\ reader' = "close"
  /\ UNCHANGED <<kernel, config, kmap, calls, chan, cmd, signal, lines, accesses, broken, lost>>

\* bpftrace ends by itself: its parser does too, and the reader does not notice.
BpftraceEnds ==
  /\ scenario.fails /\ cmd # {} /\ cmd' = {} /\ lost' = TRUE
  /\ UNCHANGED <<kernel, config, kmap, calls, chan, reader, signal, lines, accesses, broken>>

\* The reader gets a byte and kills bpftrace.  What its parser has read is still
\* parsed, what was in the pipe is not.
Receive ==
  /\ reader = "wait" /\ chan \in {"update", "quit"}
  /\ chan' = "empty" /\ cmd' = {}
  /\ reader' = IF chan = "quit" THEN "close" ELSE "begin"
  /\ lines' \in {lines, {l \in lines : l.pid # None}}
  /\ UNCHANGED <<kernel, config, kmap, calls, signal, accesses, broken, lost>>

\* perfReader starts perf.  If that fails it ends, and leaves its channel behind.
PerfStarts ==
  /\ reader = "perf begin" /\ reader' = "perf" /\ lost' = FALSE
  /\ UNCHANGED <<kernel, config, kmap, calls, chan, cmd, signal, lines, accesses, broken>>

PerfFails ==
  /\ scenario.fails /\ reader = "perf begin" /\ reader' = "perf off" /\ lost' = TRUE
  /\ UNCHANGED <<kernel, config, kmap, calls, chan, cmd, signal, lines, accesses, broken>>

PerfEnds ==
  /\ scenario.fails /\ reader = "perf" /\ reader' = "perf deaf"
  /\ signal' = TRUE /\ lost' = TRUE
  /\ UNCHANGED <<kernel, config, kmap, calls, chan, cmd, lines, accesses, broken>>

\* The goroutine that read from perf tells the reader there is now, if there is one, which
\* may be the next one.  Two that are due at once are taken for one.
PerfSignals ==
  /\ signal /\ chan \in {"nil", "empty"} /\ signal' = FALSE
  /\ chan' = IF chan = "nil" THEN "nil" ELSE "quit"
  /\ UNCHANGED <<kernel, config, kmap, calls, reader, cmd, lines, accesses, broken, lost>>

\* Between two lines perf's reader gets a byte; lines it has not looked at are lost.
PerfReceive ==
  /\ reader \in {"perf", "perf deaf"} /\ chan = "quit" /\ \A l \in lines : l.pid = None
  /\ chan' = "empty" /\ lines' = {}
  /\ reader' = IF reader = "perf" THEN "perf close" ELSE "close"
  /\ UNCHANGED <<kernel, config, kmap, calls, cmd, signal, accesses, broken, lost>>

\* A mutant for TypeOK: the closed channel is still in its field.
CloseReaderOnly ==
  /\ reader = "close" /\ mutex = None
  /\ reader' = "off" /\ lost' = (lost \/ started)
  /\ UNCHANGED <<kernel, config, kmap, calls, chan, cmd, signal, lines, accesses, broken>>

\* The reader closes the channel, with whatever somebody has sent to it meanwhile, and
\* kills perf if that has not ended.
CloseReader ==
  /\ reader \in {"close", "perf close"} /\ mutex = None
  /\ reader' = "off" /\ chan' = "nil"
  /\ signal' = (signal \/ reader = "perf close")
  /\ lost' = (lost \/ started)
  /\ UNCHANGED <<kernel, config, kmap, calls, cmd, lines, accesses, broken>>

\* bpftraceParser looks up whose accesses a line reports, without the mutex.  perf's
\* reader does one line at a time, always of kdamond 0, and drops what is unknown ...
Attribute(l) ==
  LET pid == AggregatedPid(IF Perf THEN 0 ELSE l.kpid, l.tid) IN
  /\ l \in lines /\ l.pid = None
  /\ Perf => \A m \in lines : m.pid = None
  /\ lines' = (lines \ {l}) \cup (IF Perf /\ pid = Unknown THEN {} ELSE {[l EXCEPT !.pid = pid]})
  /\ UNCHANGED <<kernel, config, kmap, calls, reading, accesses, broken, lost>>

\* ... and storeAggregated counts them, with it.
Store(l) ==
  /\ l \in lines /\ l.pid # None /\ mutex = None
  /\ lines' = lines \ {l}
  /\ accesses' = TRUE
  /\ UNCHANGED <<kernel, config, kmap, calls, reading, broken, lost>>

-----------------------------------------------------------------------------
Call(c) ==
  \/ \E p \in Pids : AddPids(c, p) \/ RemovePids(c, p)
  \/ RemoveAllPids(c) \/ Start(c) \/ Stop(c) \/ ResetCounters(c) \/ SetConfigJSON(c)

Step(c) ==
  \/ DropLostPids(c) \/ ApplyTargetIds(c) \/ SwitchOn(c) \/ MapKdamonds(c)
  \/ UpdateConnection(c) \/ StartDropsLostPids(c) \/ StopReader(c)

Read ==
  \/ StartBpftrace \/ BpftraceFails \/ Receive \/ CloseReader
  \/ PerfStarts \/ PerfFails \/ PerfReceive
Parse == \E l \in lines : Attribute(l) \/ Store(l)

Environment ==
  \/ \E p \in Pids : Die(p) \/ Grow(p)
  \/ \E k \in 1..Kdamonds : KdamondEnds(k) \/ \E t \in 1..MaxTracked : Report(k, t)
  \/ BpftraceEnds \/ PerfEnds \/ PerfSignals

Next == (\E c \in Clients : Call(c) \/ Step(c)) \/ Read \/ Parse \/ Environment

Spec == Init /\ [][Next]_vars

\* A call that has begun and the reader take their steps.  Nobody has to call, a
\* process need not exit, and nothing is assumed of bpftrace, perf and the parser; but
\* perf's reader, which is its own parser, gets the mutex and the byte in the end.
FairSpec ==
  /\ Spec
  /\ \A c \in Clients : WF_vars(Step(c))
  /\ WF_vars(StartBpftrace \/ BpftraceFails \/ PerfStarts \/ PerfFails)
  /\ WF_vars(Receive) /\ SF_vars(PerfReceive) /\ SF_vars(CloseReader)
  /\ SF_vars(Perf /\ \E l \in lines : Store(l))

-----------------------------------------------------------------------------
(* Properties *)

ClientPlaces == {"idle", "lost pids", "targets", "on", "map", "connect",
                 "start lost pids", "start targets", "stop"}

LineType == [kpid : KdamondPids, tid : 1..MaxTracked, who : Pids,
             pid : Pids \cup {None, Unknown}, late : BOOLEAN]

\* The values of the variables; exactly the client that is not idle owns the mutex,
\* and there is a channel exactly while there is a reader.
TypeOK ==
  /\ alive \subseteq Pids /\ ranged \subseteq Pids
  /\ scenario \in Scenarios
  /\ kpid \in [1..Kdamonds -> KdamondPids \cup {None}]
  /\ pids \in Seq(Pids) /\ started \in BOOLEAN
  /\ targets \in [1..Kdamonds -> Seq(Pids)]
  /\ DOMAIN kmap \subseteq KdamondPids /\ Range(kmap) \subseteq Seq(Pids)
  /\ pc \in [Clients -> ClientPlaces]
  /\ mutex \in Clients \cup {None}
  /\ \A c \in Clients : pc[c] # "idle" <=> mutex = c
  /\ chan \in {"nil", "empty", "update", "quit"}
  /\ reader \in {"off", "begin", "wait", "close", "perf begin", "perf", "perf deaf",
                "perf close", "perf off"}
  /\ signal \in BOOLEAN
  /\ chan = "nil" <=> reader = "off"
  /\ cmd \subseteq KdamondPids /\ lines \subseteq LineType
  /\ accesses \in BOOLEAN
  /\ broken \in {"no", "apply", "configure"} /\ lost \in BOOLEAN

\* Accesses are attributed to the process that made them or, when its kdamond is no
\* longer known, to pid 0.  With debugfs that is so only if the targets were not
\* replaced while the line was on its way: a line says which target it means by index.
RightProcess ==
  \A l \in lines : l.pid \in {None, l.who, Unknown} \/ (Debugfs /\ l.late)

\* The client that owns the mutex waits for room in the channel, and the reader wants the
\* mutex to close the channel or to store what perf reported, or it is gone.
ReaderJam ==
  /\ mutex \in Clients
  /\ pc[mutex] \in {"connect", "stop"} /\ chan \in {"update", "quit"}
  /\ \/ reader \in {"close", "perf close", "perf off"}
     \/ Perf /\ \E l \in lines : l.pid # None

\* Every call returns, unless the reader had stopped receiving before it closed the
\* channel: Stop followed by Start and AddPids, bpftrace or perf not starting, or two
\* Stops while perf's reader is at a line get there.
CallsReturnUnlessJammed ==
  \A c \in Clients : pc[c] # "idle" ~> pc[c] = "idle" \/ ReaderJam

\* Somebody listens to a kdamond that has p among its targets.
Heard(p) == \E k \in 1..Kdamonds : p \in Range(targets[k]) /\ Listens(k)

\* Why a live tracked process may be monitored in vain: applying the targets failed,
\* for this or for any other process, the tracker was configured anew, RemovePids(nil)
\* has not told the kernel, or bpftrace, perf or their reader are gone.
Excused == broken # "no" \/ lost

\* Once the calls are over, a live process in the list of a started tracker is monitored
\* and heard of, or there is one of the named excuses: a signal to the reader or a
\* kdamond's pid is never missed otherwise.
TrackedIsHeard ==
  <>[](\A c \in Clients : pc[c] = "idle") =>
    \A p \in Pids :
      <>[](started /\ p \in Range(pids) \cap alive => Heard(p) \/ Excused)
=============================================================================
