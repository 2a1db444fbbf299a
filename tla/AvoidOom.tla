------------------------------ MODULE AvoidOom ------------------------------
(***************************************************************************)
(* The avoid-oom policy (pkg/memtier/policy_avoidoom.go).  In every round  *)
(* its loop reads how much memory is available on each node, finds the     *)
(* nodes under pressure, and schedules moves of pages from them to nodes   *)
(* without pressure, processes most likely to be killed first.             *)
(*                                                                         *)
(* The mover works meanwhile on what earlier rounds scheduled, and memory  *)
(* is allocated and released: the round goes on with what it has read.     *)
(* Memory is counted in pages of one size.  The mover is its list of       *)
(* tasks, its command channel, and its handlers, each with the task it has *)
(* in hand: a handler that has been told to quit may still work when the   *)
(* policy is started again.  Module Mover has the rest of it.              *)
(***************************************************************************)
EXTENDS Integers, SequencesExt

CONSTANTS
  Nodes,      \* the NUMA nodes, numbers
  Pids,       \* processes
  Cgroups,    \* cgroups below config.Cgroups
  Group,      \* Group[p]: the cgroup of p
  Segments,   \* memory segments, numbers: the lines of numa_maps
  Owner,      \* Owner[s]: the process that has the segment
  Length,     \* Length[s]: its length
  OomScore,   \* OomScore[p]: its oom_score
  Total,      \* memTotal of a node
  StartFree,  \* startFreeingMemory of a node
  StopFree,   \* stopFreeingMemory of a node
  MinMove,    \* constMinimumPidMoveSize
  Chunk,      \* pages the mover moves at a time
  ChanCap,    \* capacity of the mover's command channel
  Scenarios,  \* where pages are at first and what else uses memory, the nodes each
              \* cgroup may use, a bound on what changes, whether pages fail to move
  None,       \* the node of a page that is not there
  NoTask,     \* the handler has no task in hand
  NoRound     \* the loop is not in a round

PagesOf(s) == {s} \X (1 .. Length[s])
Pages == UNION {PagesOf(s) : s \in Segments}

\* The tasks of this policy.  The pages of one are of one segment, and in its order.
Tasks == [pages : SUBSET Pages, to : Nodes, long : BOOLEAN]
Candidate == [segment : Segments, node : Nodes, size : Nat, resident : Nat,
              near : SUBSET Nodes, allowed : SUBSET Nodes]

\* The handlers there may be at a time: one for each command to quit that the channel can
\* hold, and one that was started since.
Handlers == 1 .. (ChanCap + 1)

Rounds == [avail : [Nodes -> Int], high : SUBSET Nodes, free : SUBSET Nodes,
           sets : SUBSET SUBSET Nodes, cands : SUBSET Candidate,
           toMove : [Nodes -> Int], room : [Nodes -> Int]]

ASSUME ConstantsAssumption ==
  /\ Nodes \subseteq Nat /\ None \notin Nodes
  /\ Group \in [Pids -> Cgroups] /\ Owner \in [Segments -> Pids] /\ Length \in [Segments -> Nat \ {0}]
  /\ OomScore \in [Pids -> Nat]
  /\ 0 < StartFree /\ StartFree <= StopFree /\ StopFree <= Total
  /\ {StartFree, StopFree, Total} \subseteq Nat
  /\ Chunk \in Nat \ {0} /\ ChanCap \in Nat \ {0} /\ MinMove \in Nat
  /\ IsFiniteSet(Pages)
  /\ Scenarios \subseteq [at : [Pages -> Nodes \cup {None}], other : [Nodes -> 0 .. Total],
                          mems : [Cgroups -> SUBSET Nodes], changes : Nat,
                          exits : BOOLEAN, restarts : BOOLEAN, fails : BOOLEAN]
  /\ NoTask \notin Tasks /\ NoRound \notin Rounds

VARIABLES
  scenario,  \* the scenario, which does not change
  alive,     \* processes that run
  at,        \* at[pg]: the node the page is on
  other,     \* memory nobody moves
  changes,   \* allocations and releases so far, up to scenario.changes
  cmdLoop,   \* the policy has been started: there is a channel to the loop
  cpc,       \* where the client is
  pc,        \* where the loop is
  round,     \* what the round of the loop knows
  tasks,     \* the mover's list
  inHand,    \* inHand[h]: the task that handler h has popped
  chan,      \* toTaskHandler
  handler,   \* handler[h]: where handler h is: "off", "waiting" or "busy"
  stale,     \* history: nodes the last round may be wrong about: memory came free on them
             \* since, pages were on their way when it began, or are scheduled twice
  unfinished \* history: the last handler to quit did so while there were tasks

memory == <<scenario, alive, at, other, changes>>
client == <<cmdLoop, cpc>>
loop == <<pc, round>>
mover == <<tasks, inHand, chan, handler, unfinished>>
vars == <<memory, client, loop, mover, stale>>

PagesOn(n) == {pg \in Pages : at[pg] = n}
Avail(n) == Total - other[n] - Cardinality(PagesOn(n))

Init ==
  /\ scenario \in Scenarios /\ alive = Pids
  /\ at = scenario.at /\ other = scenario.other /\ changes = 0
  /\ cmdLoop = FALSE /\ cpc = "idle" /\ pc = "off" /\ round = NoRound
  /\ tasks = <<>> /\ chan = <<>>
  /\ inHand = [h \in Handlers |-> NoTask] /\ handler = [h \in Handlers |-> "off"]
  /\ stale = {} /\ unfinished = FALSE

-----------------------------------------------------------------------------
(* Memory is used and released *)

MayChange == changes < scenario.changes /\ changes' = changes + 1

Allocate(n) ==
  /\ MayChange /\ Avail(n) > 0
  /\ other' = [other EXCEPT ![n] = @ + 1]
  /\ UNCHANGED <<scenario, alive, at, client, loop, mover, stale>>

Release(n) ==
  /\ MayChange /\ other[n] > 0
  /\ other' = [other EXCEPT ![n] = @ - 1] /\ stale' = stale \cup {n}
  /\ UNCHANGED <<scenario, alive, at, client, loop, mover>>

\* A process gives a page back, which leaves a hole in the segment.
Unmap(pg) ==
  /\ MayChange /\ at[pg] # None
  /\ at' = [at EXCEPT ![pg] = None] /\ stale' = stale \cup {at[pg]}
  /\ UNCHANGED <<scenario, alive, other, client, loop, mover>>

Exit(p) ==
  LET its == {pg \in Pages : Owner[pg[1]] = p} IN
  /\ scenario.exits /\ p \in alive /\ alive' = alive \ {p}
  /\ at' = [pg \in Pages |-> IF pg \in its THEN None ELSE at[pg]]
  /\ stale' = stale \cup ({at[pg] : pg \in its} \ {None})
  /\ UNCHANGED <<scenario, other, changes, client, loop, mover>>

-----------------------------------------------------------------------------
(* Start and Stop, which hold the mutex *)

Live == {h \in Handlers : handler[h] # "off"}

\* Mutant: no handler is started while one is there, even one that has been told to quit.
LaunchIfNone ==
  IF Live # {} THEN UNCHANGED handler ELSE handler' = [handler EXCEPT ![1] = "waiting"]

\* Start of the mover, whose flag says that it does not run: another handler, even if
\* the one before it has not read the command to quit.  There is room for it: no more
\* are left than commands to quit on the channel.
Launch ==
  \E h \in Handlers \ Live :
    /\ \A g \in Handlers \ Live : h <= g
    /\ handler' = [handler EXCEPT ![h] = "waiting"]

Start ==
  /\ cpc = "idle" /\ ~cmdLoop
  /\ cmdLoop' = TRUE /\ pc' = "select" /\ Launch
  /\ UNCHANGED <<memory, cpc, round, tasks, inHand, chan, unfinished, stale>>

Stop ==
  /\ scenario.restarts /\ cpc = "idle" /\ cmdLoop /\ cpc' = "send"
  /\ UNCHANGED <<memory, cmdLoop, loop, mover, stale>>

\* The loop takes the command, answers and ends.
LoopQuits ==
  /\ cpc = "send" /\ pc = "select"
  /\ cpc' = "mover" /\ cmdLoop' = FALSE /\ pc' = "off"
  /\ UNCHANGED <<memory, round, mover, stale>>

StopMover ==
  /\ cpc = "mover" /\ cpc' = "idle"
  /\ Len(chan) < ChanCap /\ chan' = Append(chan, "quit")
  /\ UNCHANGED <<memory, cmdLoop, loop, tasks, inHand, handler, unfinished, stale>>

-----------------------------------------------------------------------------
(* A round: who is under pressure *)

SumOver(S, f) == FoldSet(LAMBDA n, sum : f[n] + sum, 0, S)

\* The node sets of cgroups that have processes and nodes, and that of all nodes.
HasProcs(g) == \E p \in alive : Group[p] = g
NodeSets == {Nodes} \cup ({scenario.mems[g] : g \in {g \in Cgroups : HasProcs(g)}} \ {{}})

AvailNow == [n \in Nodes |-> Avail(n)]
IsHigh(S, avail) == SumOver(S, avail) < Cardinality(S) * StartFree
IsMed(S, avail) == ~IsHigh(S, avail) /\ SumOver(S, avail) < Cardinality(S) * StopFree

HighNodes(avail) == UNION {S \in NodeSets : IsHigh(S, avail)}
MedNodes(avail) == UNION {S \in NodeSets : IsMed(S, avail)}
FreeNodes(avail) == (Nodes \ HighNodes(avail)) \ MedNodes(avail)

\* There is something to balance.
Unbalanced(avail) ==
  /\ HighNodes(avail) \notin {{}, Nodes}
  /\ FreeNodes(avail) # {}

\* What is to leave the nodes under pressure, and fits on the nodes without: of a node
\* that is short only together with others it may be less than nothing.
BytesToMove(avail) == [n \in Nodes |-> IF n \in HighNodes(avail) THEN StopFree - avail[n] ELSE 0]
BytesAvail(avail) == [n \in Nodes |-> IF n \in FreeNodes(avail) THEN avail[n] - StopFree ELSE 0]

\* updateNodes, updateCgroups, pressureNodesets and the start of balance.  A task that
\* a handler has in hand is not in the list that TaskCount counts.
BeginRound ==
  /\ pc = "select" /\ tasks = <<>> /\ Unbalanced(AvailNow)
  /\ pc' = "nodesets"
  /\ round' = [avail |-> AvailNow, high |-> HighNodes(AvailNow), free |-> FreeNodes(AvailNow),
               sets |-> NodeSets, cands |-> {},
               toMove |-> BytesToMove(AvailNow), room |-> BytesAvail(AvailNow)]
  /\ stale' = IF \A h \in Handlers : inHand[h] = NoTask THEN {} ELSE Nodes
  /\ UNCHANGED <<memory, client, mover>>

-----------------------------------------------------------------------------
(* A round: what can be moved *)

Positive(f) == {n \in Nodes : f[n] > 0}

\* bytesOnNodes says that nothing is left to be moved, or no room to move it to.
Settled(r) == Positive(r.toMove) = {} \/ Positive(r.room) = {}

\* The round when its candidates have been dealt with as far as r says.
GoOn(r) ==
  /\ pc' = IF Settled(r) \/ (r.cands = {} /\ r.sets = {}) THEN "select"
           ELSE IF r.cands = {} THEN "nodesets" ELSE "candidates"
  /\ round' = IF pc' = "select" THEN NoRound ELSE r

\* What numa_maps says of a segment: its pages on the node.
SizeOn(s, n) == Cardinality(PagesOf(s) \cap PagesOn(n))
SegmentsOf(p) == {s \in Segments : Owner[s] = p}
NodesOf(p) == {n \in Nodes : \E s \in SegmentsOf(p) : SizeOn(s, n) > 0}
Resident(s) == Cardinality({pg \in PagesOf(s) : at[pg] # None})

SizeOnPressure(p) ==
  Cardinality({pg \in Pages : Owner[pg[1]] = p /\ at[pg] \in round.high})

\* findMoveCandidates: each segment of a process of the cgroups of the node set, for
\* each node under pressure that it has memory on.
Candidates(S) ==
  LET its == {s \in Segments : /\ Owner[s] \in alive /\ scenario.mems[Group[Owner[s]]] = S
                               /\ SizeOnPressure(Owner[s]) >= MinMove}
      from(s, n) == [segment |-> s, node |-> n, size |-> SizeOn(s, n), resident |-> Resident(s),
                     near |-> NodesOf(Owner[s]) \cap round.free, allowed |-> S \cap round.free]
  IN {c \in {from(s, n) : s \in its, n \in round.high} : c.size > 0}

\* The node sets come in the order of what is available.
ComesFirst(S) == \A R \in round.sets : SumOver(S, round.avail) <= SumOver(R, round.avail)

NextNodeset(S) ==
  /\ pc = "nodesets" /\ S \in round.sets /\ ComesFirst(S)
  /\ GoOn([round EXCEPT !.sets = @ \ {S},
                        !.cands = IF S \cap round.high = {} \/ S \cap round.free = {} \/ Settled(round)
                                  THEN {} ELSE Candidates(S)])
  /\ UNCHANGED <<memory, client, mover, stale>>

-----------------------------------------------------------------------------
(* A round: a candidate *)

\* Mutant: the size of the candidate does not matter.
FitsAnyway(c, n) == TRUE

\* A quarter of what the candidate has on its node fits.
Fits(c, n) == 4 * round.room[n] >= c.size

\* Mutant: only nodes the process is on already.
TargetsNear(c) ==
  LET near == {n \in c.near : Fits(c, n)} IN IF near # {} THEN {Min(near)} ELSE {}

\* The first node that fits of those the process is on already, or of all that it may
\* use.  The masks with nodes under medium pressure, tried last, add nothing: there is
\* no room on such a node.
Targets(c) ==
  LET near == {n \in c.near : Fits(c, n)}
      allowed == {n \in c.allowed : Fits(c, n)}
  IN IF near # {} THEN {Min(near)} ELSE IF allowed # {} THEN {Min(allowed)} ELSE {}

Score(c) == OomScore[Owner[c.segment]] * c.size

\* Mutant: pages are not counted as they are taken.
AllToMove(c) ==
  {pg \in PagesOf(c.segment) : pg[2] <= c.resident /\ at[pg] \in Positive(round.toMove)}

\* The pages createMoveTask takes.  It looks for as many pages from the start of the
\* segment as are resident anywhere in it, and takes them from any node from which
\* something is to be moved, as long as there is.
ToMove(c) ==
  {pg \in PagesOf(c.segment) :
     /\ pg[2] <= c.resident /\ at[pg] # None
     /\ Cardinality({q \in PagesOf(c.segment) : q[2] < pg[2] /\ at[q] = at[pg]}) < round.toMove[at[pg]]}

\* A segment with memory on two nodes under pressure is two candidates, and may be
\* scheduled for each of them, to different nodes.
Scheduled(pg) ==
  \/ \E i \in DOMAIN tasks : pg \in tasks[i].pages
  \/ \E h \in Handlers : inHand[h] # NoTask /\ pg \in inHand[h].pages

\* AddTask, up to the lock; a handler may have the task before it is told.
Schedule(c, target) ==
  LET taken == ToMove(c)
      later == [round EXCEPT
                  !.cands = @ \ {c},
                  !.toMove = [n \in Nodes |-> @[n] - Cardinality(taken \cap PagesOn(n))],
                  !.room[target] = @ - Cardinality(taken)]
  IN IF taken = {}
     THEN GoOn(later) /\ UNCHANGED <<tasks, stale>>
     ELSE /\ pc' = "wake" /\ round' = later
          /\ tasks' = Append(tasks, [pages |-> taken, to |-> target,
                                     long |-> Cardinality(taken) > Chunk])
          /\ stale' = IF \E pg \in taken : Scheduled(pg) THEN Nodes ELSE stale

NextCandidate(c) ==
  /\ pc = "candidates" /\ c \in round.cands
  /\ \A d \in round.cands : Score(d) <= Score(c)
  /\ IF Targets(c) = {}
     THEN GoOn([round EXCEPT !.cands = @ \ {c}]) /\ UNCHANGED <<tasks, stale>>
     ELSE \E target \in Targets(c) : Schedule(c, target)
  /\ UNCHANGED <<memory, client, inHand, chan, handler, unfinished>>

\* The rest of AddTask, which waits while the channel is full.
Wake ==
  /\ pc = "wake" /\ Len(chan) < ChanCap
  /\ chan' = Append(chan, "continue")
  /\ GoOn(round)
  /\ UNCHANGED <<memory, client, tasks, inHand, handler, unfinished, stale>>

-----------------------------------------------------------------------------
(* The mover's handlers *)

PopTask(h) ==
  /\ handler[h] = "busy" /\ inHand[h] = NoTask
  /\ IF tasks = <<>>
     THEN handler' = [handler EXCEPT ![h] = "waiting"] /\ UNCHANGED <<tasks, inHand>>
     ELSE inHand' = [inHand EXCEPT ![h] = Last(tasks)] /\ tasks' = Front(tasks) /\ UNCHANGED handler
  /\ UNCHANGED <<memory, client, loop, chan, unfinished, stale>>

\* A handler reads a command, if there is one: a command to quit may be read by any.
ReadCommand(h, newTasks) ==
  IF chan = <<>> THEN UNCHANGED <<handler, chan, unfinished>>
  ELSE /\ chan' = Tail(chan)
       /\ handler' = [handler EXCEPT ![h] = IF Head(chan) = "quit" THEN "off" ELSE "busy"]
       /\ unfinished' = IF Head(chan) = "quit" THEN newTasks # <<>> ELSE unfinished

WakeUp(h) ==
  /\ handler[h] = "waiting" /\ chan # <<>> /\ ReadCommand(h, tasks)
  /\ UNCHANGED <<memory, client, loop, tasks, inHand, stale>>

\* MoveTo a node that may get full.
MoveTo(movable, n) ==
  \E moved \in SUBSET movable :
    LET arriving == {pg \in moved : at[pg] # n} IN
    /\ Cardinality(arriving) <= Avail(n)
    /\ scenario.fails \/ moved = movable \/ Cardinality(arriving) = Avail(n)
    /\ at' = [pg \in Pages |-> IF pg \in moved THEN n ELSE at[pg]]

\* The pages of the next chunk that can be moved; a task longer than a chunk comes back
\* until nothing is left of it.
HandleTask(h) ==
  LET task == inHand[h]
      now == {pg \in task.pages : Cardinality({q \in task.pages : q[2] < pg[2]}) < Chunk}
      movable == {pg \in now : at[pg] # None}
      comesBack == task.long /\ \E pg \in task.pages : Owner[pg[1]] \in alive
  IN
  /\ handler[h] = "busy" /\ task # NoTask /\ inHand' = [inHand EXCEPT ![h] = NoTask]
  /\ MoveTo(movable, task.to)
  /\ tasks' = IF comesBack THEN Append(tasks, [task EXCEPT !.pages = @ \ now]) ELSE tasks
  /\ ReadCommand(h, tasks')
  /\ UNCHANGED <<scenario, alive, other, changes, client, loop, stale>>

-----------------------------------------------------------------------------
Environment ==
  \/ \E n \in Nodes : Allocate(n) \/ Release(n)
  \/ \E pg \in Pages : Unmap(pg)
  \/ \E p \in Pids : Exit(p)

StopStep == LoopQuits \/ StopMover
InRound == (\E S \in SUBSET Nodes : NextNodeset(S)) \/ (\E c \in round.cands : NextCandidate(c)) \/ Wake
LoopStep == round # NoRound /\ InRound
HandlerStep(h) == PopTask(h) \/ WakeUp(h) \/ HandleTask(h)
MoverStep == \E h \in Handlers : HandlerStep(h)

Next == Environment \/ Start \/ Stop \/ StopStep \/ BeginRound \/ LoopStep \/ MoverStep

Spec == Init /\ [][Next]_vars

\* Goroutines run and the ticker ticks; the select of the loop takes a Stop in the end.
FairSpec ==
  /\ Spec
  /\ (\A h \in Handlers : WF_vars(HandlerStep(h))) /\ WF_vars(LoopStep) /\ WF_vars(BeginRound)
  /\ SF_vars(LoopQuits) /\ WF_vars(StopMover)

-----------------------------------------------------------------------------
(* Properties *)

\* The commands to quit on the way, and the mover between its Start and its Stop.
Quits(commands) == {i \in DOMAIN commands : commands[i] = "quit"}
MoverRuns == cmdLoop \/ cpc = "mover"

\* The values of the variables: pages are those of processes that run, the loop knows
\* something exactly during a round, and there are as many handlers as have been told to
\* quit and not read it yet, and one more exactly while the mover runs.
TypeOK ==
  /\ scenario \in Scenarios /\ alive \subseteq Pids /\ stale \subseteq Nodes
  /\ at \in [Pages -> Nodes \cup {None}] /\ other \in [Nodes -> 0 .. Total]
  /\ \A pg \in Pages : at[pg] # None => Owner[pg[1]] \in alive
  /\ cpc \in {"idle", "send", "mover"}
  /\ pc \in {"off", "select", "nodesets", "candidates", "wake"}
  /\ cmdLoop <=> pc # "off"
  /\ round = NoRound <=> pc \in {"off", "select"}
  /\ pc = "candidates" => round.cands # {}
  /\ handler \in [Handlers -> {"off", "waiting", "busy"}]
  /\ \A h \in Handlers : inHand[h] # NoTask => handler[h] = "busy"
  /\ Cardinality(Live) = Cardinality(Quits(chan)) + (IF MoverRuns THEN 1 ELSE 0)
  /\ Len(chan) <= ChanCap /\ Range(chan) \subseteq {"continue", "quit"}
  /\ \A i \in DOMAIN tasks : tasks[i].to \in Nodes /\ tasks[i].pages \subseteq Pages

\* Moving pages away makes no more memory available on a node than up to the watermark
\* to stop at, unless memory came free there since the round that scheduled it had read
\* how much there was, a handler was still busy with a task of the round before, or
\* the round schedules a page twice: the same need, or the same page, is then moved again.
RelievesNoFurther ==
  [][\A n \in Nodes :
       (\E pg \in Pages : at[pg] = n /\ at'[pg] \in Nodes \ {n}) =>
         Avail(n)' <= StopFree \/ n \in stale]_vars

\* When nobody allocates or releases memory any more, pages come to rest: what made room
\* on one node does not put another one under pressure that is relieved by moving back.
\* Not so if again and again a round begins with a task in hand: two nodes that are both
\* relieved too far take turns.
PagesComeToRest == scenario.fails \/ <>[][FALSE]_at \/ []<>(stale = Nodes)

\* A page that the policy means to move: its process has enough under pressure, its node
\* is short, and a quarter of its segment there fits on a node without pressure that
\* its cgroup may use.  It is not hidden behind a hole.
Movable(pg) ==
  LET p == Owner[pg[1]]
      S == scenario.mems[Group[p]]
      high == HighNodes(AvailNow)
      its == {q \in Pages : Owner[q[1]] = p /\ at[q] \in high}
  IN /\ at[pg] \in high /\ Avail(at[pg]) < StopFree /\ Cardinality(its) >= MinMove
     /\ pg[2] <= Resident(pg[1])
     /\ \E n \in S \cap FreeNodes(AvailNow) : 4 * (Avail(n) - StopFree) >= SizeOn(pg[1], at[pg])

\* The tasks of an earlier start that nobody will tell a handler about.
Stranded == tasks # <<>> /\ (\A h \in Live : handler[h] = "waiting") /\ chan = <<>> /\ unfinished

\* As long as the policy runs, a page that it means to move does not stay where it is
\* for ever, unless moving it fails or a stop has left tasks behind: those keep the mover
\* busy in the eyes of the loop, and no later command wakes a handler.
NoNeglect ==
  []<>(~cmdLoop \/ Stranded \/ scenario.fails \/ \A pg \in Pages : ~Movable(pg))
=============================================================================
