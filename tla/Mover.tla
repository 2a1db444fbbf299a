------------------------------- MODULE Mover -------------------------------
(***************************************************************************)
(* The memory mover (pkg/memtier/mover.go): clients add movement tasks to  *)
(* a list under a mutex and send commands through a buffered channel to a  *)
(* task handler goroutine, which moves the pages of one task per round.    *)
(*                                                                         *)
(* Every critical section that cannot block is one action guarded by a     *)
(* free mutex.  Stop is the exception, it sends to the channel with the    *)
(* mutex locked, so the mutex has an owner between its two actions.        *)
(***************************************************************************)
EXTENDS Integers, Sequences, SequencesExt, FiniteSets

CONSTANTS
  Clients,      \* goroutines that call the mover: policies, prompts, routines
  Ops,          \* Ops[c]: the operations client c calls
  Tasks,        \* the tasks that clients may add
  PageCount,    \* PageCount[t]: pages in task t
  Rates,        \* pages per round that a configuration allows, 0 included
  DefaultRate,  \* pages per round of the default configuration
  ChanCap,      \* capacity of the command channel (8 in the code)
  Handlers,     \* slots for handler goroutines: a bound on how many are alive
  WaitIds,      \* wait identifiers: a bound on how many are remembered
  WaitSets,     \* the sets of statuses that clients wait for
  None          \* no task, no mutex owner, no configuration

OpNames == {"start", "stop", "pause", "continue", "config", "add", "remove", "wait"}

\* The values of MoverTaskHandlerStatus; "zero" is the initial value of the
\* field, which is none of the declared statuses.
Statuses == {"zero", "notrunning", "paused", "busy", "alldone"}

ASSUME ConstantsAssumption ==
  /\ Ops \in [Clients -> SUBSET OpNames]
  /\ PageCount \in [Tasks -> Nat]
  /\ Rates \subseteq Nat
  /\ DefaultRate \in Nat
  /\ ChanCap \in Nat \ {0}
  /\ WaitSets \subseteq SUBSET Statuses
  /\ None \notin Tasks \cup Clients \cup Nat
  /\ IsFiniteSet(Clients) /\ IsFiniteSet(Handlers)

VARIABLES
  mutex,     \* the client that holds Mover.mutex while it blocks, or None
  running,   \* Mover.running
  tasks,     \* Mover.tasks, a stack: the last task is handled first
  config,    \* Mover.config as pages per round, or None (nil)
  ths,       \* Mover.ths, the task handler status
  waitChan,  \* Mover.waitChan: wait identifier -> the client that receives
  thsWaits,  \* Mover.thsWaits: status -> wait identifiers
  chan,      \* Mover.toTaskHandler
  cpc,       \* where each client is
  hpc,       \* where each handler goroutine is
  cur,       \* the task a handler has popped
  rate,      \* the pages per round it popped with the task
  offset,    \* MoverTask.offset
  outcome,   \* history: how each task ended
  tries      \* history: how often each page was given to the kernel

vars == <<mutex, running, tasks, config, ths, waitChan, thsWaits, chan,
          cpc, hpc, cur, rate, offset, outcome, tries>>

waitVars == <<waitChan, thsWaits>>
taskVars == <<tasks, offset, outcome, tries>>
workVars == <<cur, rate>>

Pages(t) == 1..PageCount[t]
Outcomes == {"new", "open", "done", "dropped", "removed"}
ClientPCs == {"idle", "default", "run", "stopping", "send continue", "send pause", "waiting"}
HandlerPCs == {"off", "start", "receive", "busy", "pop", "alldone", "move",
               "offset", "append", "select", "pause", "exit"}

Init ==
  /\ mutex = None /\ running = FALSE /\ tasks = <<>> /\ config = None
  /\ ths = "zero" /\ chan = <<>>
  /\ waitChan = [w \in {} |-> None] /\ thsWaits = [s \in Statuses |-> {}]
  /\ cpc = [c \in Clients |-> "idle"]
  /\ hpc = [h \in Handlers |-> "off"]
  /\ cur = [h \in Handlers |-> None]
  /\ rate = [h \in Handlers |-> 0]
  /\ offset = [t \in Tasks |-> 0]
  /\ outcome = [t \in Tasks |-> "new"]
  /\ tries = [t \in Tasks |-> [i \in Pages(t) |-> 0]]

Locked == mutex # None

ClientGoes(c, from, to) == cpc[c] = from /\ cpc' = [cpc EXCEPT ![c] = to]
HandlerGoes(h, from, to) == hpc[h] = from /\ hpc' = [hpc EXCEPT ![h] = to]

-----------------------------------------------------------------------------
(* Clients *)

SetConfig(c, r) ==
  /\ "config" \in Ops[c] /\ cpc[c] = "idle" /\ ~Locked
  /\ config' = r
  /\ UNCHANGED <<mutex, running, ths, waitVars, chan, cpc, hpc, workVars, taskVars>>

\* Mutant: Start forgets that the mover runs already.
LaunchAlways == running' = TRUE /\ \E h \in Handlers : HandlerGoes(h, "off", "start")

\* The tail of Start: launch a handler goroutine unless the mover runs.
LaunchHandler ==
  IF running
  THEN UNCHANGED <<running, hpc>>
  ELSE /\ running' = TRUE
       /\ \E h \in Handlers : HandlerGoes(h, "off", "start")

\* Start on a configured mover takes the mutex once.
Start(c) ==
  /\ "start" \in Ops[c] /\ cpc[c] = "idle" /\ ~Locked
  /\ config # None
  /\ LaunchHandler
  /\ UNCHANGED <<mutex, config, ths, waitVars, chan, cpc, workVars, taskVars>>

\* Without a configuration it unlocks the mutex to set the default one.
StartUnconfigured(c) ==
  /\ "start" \in Ops[c] /\ ~Locked
  /\ config = None
  /\ ClientGoes(c, "idle", "default")
  /\ UNCHANGED <<mutex, running, config, ths, waitVars, chan, hpc, workVars, taskVars>>

StartDefault(c) ==
  /\ ~Locked
  /\ ClientGoes(c, "default", "run")
  /\ config' = DefaultRate
  /\ UNCHANGED <<mutex, running, ths, waitVars, chan, hpc, workVars, taskVars>>

StartRun(c) ==
  /\ ~Locked
  /\ ClientGoes(c, "run", "idle")
  /\ LaunchHandler
  /\ UNCHANGED <<mutex, config, ths, waitVars, chan, workVars, taskVars>>

\* Stop does nothing unless the mover runs; it keeps the mutex while it sends.
Stop(c) ==
  /\ "stop" \in Ops[c] /\ ~Locked /\ running
  /\ ClientGoes(c, "idle", "stopping")
  /\ mutex' = c
  /\ running' = FALSE
  /\ UNCHANGED <<config, ths, waitVars, chan, hpc, workVars, taskVars>>

StopSend(c) ==
  /\ Len(chan) < ChanCap
  /\ ClientGoes(c, "stopping", "idle")
  /\ chan' = Append(chan, "quit")
  /\ mutex' = None
  /\ UNCHANGED <<running, config, ths, waitVars, hpc, workVars, taskVars>>

Pause(c) ==
  /\ "pause" \in Ops[c]
  /\ ClientGoes(c, "idle", "send pause")
  /\ UNCHANGED <<mutex, running, config, ths, waitVars, chan, hpc, workVars, taskVars>>

Continue(c) ==
  /\ "continue" \in Ops[c]
  /\ ClientGoes(c, "idle", "send continue")
  /\ UNCHANGED <<mutex, running, config, ths, waitVars, chan, hpc, workVars, taskVars>>

\* Mutant: the new task is put in the list and the handler is not woken.
AddTaskSilently(c, t) ==
  /\ "add" \in Ops[c] /\ ~Locked /\ cpc[c] = "idle"
  /\ outcome[t] = "new"
  /\ tasks' = Append(tasks, t)
  /\ outcome' = [outcome EXCEPT ![t] = "open"]
  /\ UNCHANGED <<mutex, running, config, ths, waitVars, chan, cpc, hpc, workVars, offset, tries>>

\* The task is in the list, and visible to a busy handler, before the command.
AddTask(c, t) ==
  /\ "add" \in Ops[c] /\ ~Locked
  /\ outcome[t] = "new"
  /\ ClientGoes(c, "idle", "send continue")
  /\ tasks' = Append(tasks, t)
  /\ outcome' = [outcome EXCEPT ![t] = "open"]
  /\ UNCHANGED <<mutex, running, config, ths, waitVars, chan, hpc, workVars, offset, tries>>

\* A blocking send outside the mutex, the last step of AddTask, Continue, Pause.
Send(c) ==
  /\ Len(chan) < ChanCap
  /\ \/ ClientGoes(c, "send continue", "idle") /\ chan' = Append(chan, "continue")
     \/ ClientGoes(c, "send pause", "idle") /\ chan' = Append(chan, "pause")
  /\ UNCHANGED <<mutex, running, config, ths, waitVars, hpc, workVars, taskVars>>

RemoveTask(c, i) ==
  /\ "remove" \in Ops[c] /\ cpc[c] = "idle" /\ ~Locked
  /\ i \in DOMAIN tasks
  /\ tasks' = RemoveAt(tasks, i)
  /\ outcome' = [outcome EXCEPT ![tasks[i]] = "removed"]
  /\ UNCHANGED <<mutex, running, config, ths, waitVars, chan, cpc, hpc, workVars, offset, tries>>

\* waitCount never repeats, so a new identifier is one that is nowhere in use.
FreshWaitIds == WaitIds \ (DOMAIN waitChan \cup UNION {thsWaits[s] : s \in Statuses})

RegisterWait(c, thss) ==
  \E w \in FreshWaitIds :
     /\ waitChan' = [v \in DOMAIN waitChan \cup {w} |-> IF v = w THEN c ELSE waitChan[v]]
     /\ thsWaits' = [s \in Statuses |-> thsWaits[s] \cup {x \in {w} : s \in thss}]

\* Mutant: Wait registers for one of the statuses only.
WaitForOne(c, thss) ==
  /\ "wait" \in Ops[c] /\ ~Locked
  /\ ths \notin thss
  /\ ClientGoes(c, "idle", "waiting")
  /\ \E s \in thss : RegisterWait(c, {s})
  /\ UNCHANGED <<mutex, running, config, ths, chan, hpc, workVars, taskVars>>

\* Wait answers at once if the status is right already; that changes nothing.
Wait(c, thss) ==
  /\ "wait" \in Ops[c] /\ ~Locked
  /\ ths \notin thss
  /\ ClientGoes(c, "idle", "waiting")
  /\ RegisterWait(c, thss)
  /\ UNCHANGED <<mutex, running, config, ths, chan, hpc, workVars, taskVars>>

-----------------------------------------------------------------------------
(* The task handler *)

\* setTaskHandlerStatus: tell those who wait for the new status.  A waiter is
\* known to receive, so the sends under the mutex complete; the identifiers a
\* told waiter left under other statuses stay there.
SetTaskHandlerStatus(s) ==
  LET told == thsWaits[s] \cap DOMAIN waitChan
  IN  /\ ~Locked
      /\ ths' = s
      /\ waitChan' = [w \in DOMAIN waitChan \ told |-> waitChan[w]]
      /\ thsWaits' = [thsWaits EXCEPT ![s] = {}]
      /\ cpc' = [c \in Clients |-> IF \E w \in told : waitChan[w] = c THEN "idle" ELSE cpc[c]]

HandlerSets(h, from, s, to) ==
  /\ HandlerGoes(h, from, to)
  /\ SetTaskHandlerStatus(s)
  /\ UNCHANGED <<mutex, running, config, chan, workVars, taskVars>>

\* Mutant: a woken handler starts to work without changing its status.
HandlerBusySilently(h) ==
  /\ HandlerGoes(h, "busy", "pop")
  /\ UNCHANGED <<mutex, running, config, ths, waitVars, chan, cpc, workVars, taskVars>>

HandlerStart(h)   == HandlerSets(h, "start", "paused", "receive")
HandlerBusy(h)    == HandlerSets(h, "busy", "busy", "pop")
HandlerAllDone(h) == HandlerSets(h, "alldone", "alldone", "receive")
HandlerPause(h)   == HandlerSets(h, "pause", "paused", "receive")
HandlerExit(h)    == HandlerSets(h, "exit", "notrunning", "off")

\* Where a command leads a handler that blocks on the channel, and one that polls it.
AfterReceive == [quit |-> "exit", pause |-> "receive", continue |-> "busy"]
AfterSelect  == [quit |-> "exit", pause |-> "pause", continue |-> "pop"]

HandlerReceive(h) ==
  /\ chan # <<>>
  /\ HandlerGoes(h, "receive", AfterReceive[Head(chan)])
  /\ chan' = Tail(chan)
  /\ UNCHANGED <<mutex, running, config, ths, waitVars, cpc, workVars, taskVars>>

\* Mutant: popTask returns the last task and leaves it in the list.
HandlerPeek(h) ==
  /\ ~Locked
  /\ IF config = None \/ tasks = <<>>
     THEN HandlerGoes(h, "pop", "alldone") /\ UNCHANGED workVars
     ELSE /\ HandlerGoes(h, "pop", "move")
          /\ cur' = [cur EXCEPT ![h] = Last(tasks)]
          /\ rate' = [rate EXCEPT ![h] = config]
  /\ UNCHANGED <<mutex, running, config, ths, waitVars, chan, cpc, taskVars>>

\* popTask: the last task of the list with the current configuration.
HandlerPop(h) ==
  /\ ~Locked
  /\ IF config = None \/ tasks = <<>>
     THEN /\ HandlerGoes(h, "pop", "alldone")
          /\ UNCHANGED <<tasks, workVars>>
     ELSE /\ HandlerGoes(h, "pop", "move")
          /\ cur' = [cur EXCEPT ![h] = Last(tasks)]
          /\ rate' = [rate EXCEPT ![h] = config]
          /\ tasks' = Front(tasks)
  /\ UNCHANGED <<mutex, running, config, ths, waitVars, chan, cpc, offset, outcome, tries>>

\* The handler is done with the task it popped: its local variables are dead.
Release(h) == /\ cur' = [cur EXCEPT ![h] = None]
              /\ rate' = [rate EXCEPT ![h] = 0]

\* The task leaves the mover: handleTask returned anything but tsContinue.
Leave(h, from, how) ==
  /\ HandlerGoes(h, from, "select")
  /\ outcome' = [outcome EXCEPT ![cur[h]] = how]
  /\ Release(h)

\* The pages of the task after its offset, at most rate of them.
Chunk(h) == {i \in Pages(cur[h]) : offset[cur[h]] < i /\ i <= offset[cur[h]] + rate[h]}

GiveToKernel(h) ==
  tries' = [tries EXCEPT ![cur[h]] =
              [i \in Pages(cur[h]) |-> IF i \in Chunk(h) THEN @[i] + 1 ELSE @[i]]]

PagesLeft(h) == offset[cur[h]] < PageCount[cur[h]]

HandleTaskEmpty(h) ==
  /\ hpc[h] = "move" /\ ~PagesLeft(h)
  /\ Leave(h, "move", "done")
  /\ UNCHANGED <<mutex, running, config, ths, waitVars, chan, cpc, tasks, offset, tries>>

\* tsBlocked: the configuration allows no pages in a round.
HandleTaskBlocked(h) ==
  /\ hpc[h] = "move" /\ PagesLeft(h) /\ rate[h] = 0
  /\ Leave(h, "move", "dropped")
  /\ UNCHANGED <<mutex, running, config, ths, waitVars, chan, cpc, tasks, offset, tries>>

\* tsError: the process is gone, say; some of the chunk may have been moved.
HandleTaskError(h) ==
  /\ hpc[h] = "move" /\ PagesLeft(h) /\ rate[h] > 0
  /\ GiveToKernel(h)
  /\ Leave(h, "move", "dropped")
  /\ UNCHANGED <<mutex, running, config, ths, waitVars, chan, cpc, tasks, offset>>

HandleTaskMove(h) ==
  /\ hpc[h] = "move" /\ PagesLeft(h) /\ rate[h] > 0
  /\ GiveToKernel(h)
  /\ HandlerGoes(h, "move", "offset")
  /\ UNCHANGED <<mutex, running, config, ths, waitVars, chan, cpc, workVars, tasks, offset, outcome>>

\* Mutant: the offset of the task is not advanced.
HandleTaskNoOffset(h) ==
  LET t == cur[h]
  IN  /\ hpc[h] = "offset" /\ ~Locked
      /\ \/ /\ PageCount[t] > rate[h]
            /\ HandlerGoes(h, "offset", "append")
            /\ UNCHANGED <<workVars, outcome>>
         \/ /\ PageCount[t] <= rate[h]
            /\ Leave(h, "offset", "done")
      /\ UNCHANGED <<mutex, running, config, ths, waitVars, chan, cpc, tasks, offset, tries>>

\* The code asks for more rounds while the task has more pages than one round
\* moves, so a task of several rounds ends in a round that finds no pages.
HandleTaskOffset(h) ==
  LET t == cur[h]
  IN  /\ hpc[h] = "offset" /\ ~Locked
      /\ offset' = [offset EXCEPT ![t] = @ + rate[h]]
      /\ \/ /\ PageCount[t] > rate[h]
            /\ HandlerGoes(h, "offset", "append")
            /\ UNCHANGED <<workVars, outcome>>
         \/ /\ PageCount[t] <= rate[h]
            /\ Leave(h, "offset", "done")
      /\ UNCHANGED <<mutex, running, config, ths, waitVars, chan, cpc, tasks, tries>>

HandlerAppend(h) ==
  /\ ~Locked
  /\ HandlerGoes(h, "append", "select")
  /\ tasks' = Append(tasks, cur[h])
  /\ Release(h)
  /\ UNCHANGED <<mutex, running, config, ths, waitVars, chan, cpc, offset, outcome, tries>>

\* The poll between two rounds; on an empty channel the handler sleeps, then pops.
HandlerSelect(h) ==
  /\ \/ /\ chan # <<>>
        /\ HandlerGoes(h, "select", AfterSelect[Head(chan)])
        /\ chan' = Tail(chan)
     \/ /\ chan = <<>>
        /\ HandlerGoes(h, "select", "pop")
        /\ UNCHANGED chan
  /\ UNCHANGED <<mutex, running, config, ths, waitVars, cpc, workVars, taskVars>>

-----------------------------------------------------------------------------

ClientCall(c) ==
  \/ \E r \in Rates : SetConfig(c, r)
  \/ Start(c) \/ StartUnconfigured(c) \/ Stop(c) \/ Pause(c) \/ Continue(c)
  \/ \E t \in Tasks : AddTask(c, t)
  \/ \E i \in DOMAIN tasks : RemoveTask(c, i)
  \/ \E thss \in WaitSets : Wait(c, thss)

ClientStep(c) == StartDefault(c) \/ StartRun(c) \/ StopSend(c) \/ Send(c)

HandlerStep(h) ==
  \/ HandlerStart(h) \/ HandlerReceive(h) \/ HandlerBusy(h) \/ HandlerPop(h)
  \/ HandlerAllDone(h) \/ HandleTaskEmpty(h) \/ HandleTaskBlocked(h)
  \/ HandleTaskError(h) \/ HandleTaskMove(h) \/ HandleTaskOffset(h)
  \/ HandlerAppend(h) \/ HandlerSelect(h) \/ HandlerPause(h) \/ HandlerExit(h)

Next == \/ \E c \in Clients : ClientCall(c) \/ ClientStep(c)
        \/ \E h \in Handlers : HandlerStep(h)

Spec == Init /\ [][Next]_vars

\* The Go runtime keeps running a goroutine that can take a step.  Clients may
\* call the mover or not, but a call that has begun goes on.
Fairness == /\ \A c \in Clients : WF_vars(ClientStep(c))
            /\ \A h \in Handlers : WF_vars(HandlerStep(h))

FairSpec == Spec /\ Fairness

-----------------------------------------------------------------------------
(* Properties *)

TypeOK ==
  /\ mutex \in Clients \cup {None}
  /\ running \in BOOLEAN
  /\ tasks \in Seq(Tasks)
  /\ config \in Nat \cup {None}
  /\ ths \in Statuses
  /\ DOMAIN waitChan \subseteq WaitIds
  /\ \A w \in DOMAIN waitChan : waitChan[w] \in Clients
  /\ thsWaits \in [Statuses -> SUBSET WaitIds]
  /\ chan \in Seq({"quit", "pause", "continue"}) /\ Len(chan) <= ChanCap
  /\ cpc \in [Clients -> ClientPCs]
  /\ hpc \in [Handlers -> HandlerPCs]
  /\ cur \in [Handlers -> Tasks \cup {None}]
  /\ rate \in [Handlers -> Nat]
  /\ offset \in [Tasks -> Nat]
  /\ outcome \in [Tasks -> Outcomes]
  /\ tries = [t \in Tasks |-> tries[t]]
  /\ \A t \in Tasks : tries[t] \in [Pages(t) -> Nat]

\* Stop cannot leak a handler goroutine, nor can Start lose one: the handlers
\* that will go on reading commands outnumber the quits that are on their way
\* by one while the mover runs, and by none while it does not.
HandlerBalance ==
  LET live     == {h \in Handlers : hpc[h] \notin {"off", "exit"}}
      quits    == {i \in DOMAIN chan : chan[i] = "quit"}
      stopping == {c \in Clients : cpc[c] = "stopping"}
  IN  Cardinality(live) = Cardinality(quits) + Cardinality(stopping)
                            + (IF running THEN 1 ELSE 0)

InFlight == {cur[h] : h \in Handlers} \ {None}

\* A task that was added and has not ended is in exactly one place, the list
\* or one handler, also while two handlers are alive and clients remove tasks.
TaskAccounting ==
  /\ IsInjective(tasks)
  /\ \A g, h \in Handlers : cur[g] = cur[h] /\ cur[g] # None => g = h
  /\ Range(tasks) \cap InFlight = {}
  /\ {t \in Tasks : outcome[t] = "open"} = Range(tasks) \cup InFlight

\* The mover is quiet when it says so: no page of any task is being moved while
\* the status is AllDone or Paused.  For a mover that is never stopped.
QuietStatusIsTrue ==
  ths \in {"alldone", "paused"} => InFlight = {}

\* Whatever the interleaving, the mover keeps the promise of TaskPool: it never
\* gives a page to the kernel twice nor skips one, and no task is done before
\* all its pages were given.
phase ==
  [t \in Tasks |-> IF outcome[t] # "open" THEN outcome[t]
                    ELSE IF t \in InFlight THEN "moving" ELSE "queued"]

Pool == INSTANCE TaskPool

KeepsTaskPromise == Pool!Spec

\* A task that was added to a running mover ends, however the clients and the
\* handler interleave, as long as nobody pauses or stops the mover: the command
\* that wakes the handler is sent after the task is in the list.
EveryTaskEnds ==
  \A t \in Tasks : (outcome[t] = "open" /\ running) ~> (outcome[t] # "open")

\* A client that waits for a running mover to be quiet is told.
WaitIsAnswered ==
  \A c \in Clients : (cpc[c] = "waiting" /\ running) ~> (cpc[c] # "waiting")

=============================================================================
