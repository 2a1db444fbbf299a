# memtierd in TLA+

memtierd watches how processes use their memory and moves pages between NUMA nodes, or swaps
them out. This directory holds the TLA+ models of its components, the instances TLC checks, and
the theorems TLAPS proves. Paths are relative to `src/`; unless another directory is given, a
Go file is in `src/pkg/memtier/`.

    tlc -workers 2 -config MCMover.cfg MCMover.tla     # a run, see "Runs"
    tlapm MoverProofs.tla                              # a module of proofs, see "Theorems"

`PROJECT.json` maps each definition to the lines of the code it models and lists the runs, the
mutated definitions that show that each property can fail, the hazards, the findings and the
theorems.

## 1. The system

A **policy** owns a **pid watcher**, a **tracker** and a **mover**. The watcher finds processes
and tells its listener of them: the tracker, or the policy itself. The tracker counts accesses to
the processes' address ranges. The policy's loop reads the counters on a ticker, decides which
pages to move where, and adds tasks to the mover. An interactive **prompt** and **routines** may
call any operation of any of these at any time, from goroutines of their own. Everything is
shared memory: each component has a mutex, goroutines are stopped through channels or flags.

| component | state | operations and goroutines | what makes it hard | what makes it correct |
|---|---|---|---|---|
| mover (`mover.go`, `page.go`) | stack of tasks, command channel of capacity 8, status and who waits for which, configuration | Start, Stop, Pause, Continue, AddTask, RemoveTask, Wait, SetConfig; handler goroutine | a task is out of the stack while it is handled; commands are sent after unlocking, Stop's while locked; two handlers after a restart | no task lost, doubled or worked on twice; each page given to the kernel once; waits answered; the status is true |
| soft-dirty tracker (`tracker_softdirty.go`) | regions and counters of processes, stop channel | AddPids, RemovePids, ResetCounters, GetCounters, Start, Stop; sampler goroutine | two mutexes in two orders; work on copies; processes exit at any step | one sampler; calls return; a tracked process is counted; a dead one forgotten |
| idle-page tracker (`tracker_idlepage.go`, bitmap in `proc.go`) | regions, counters, channel to the sampler; the kernel's idle bits | same | the map of regions has no lock; `removePid` locks a mutex its caller holds; bits are read ahead and marked 64 at a time; the channel is closed without the mutex | what was removed stays away; no access is lost to a neighbour; calls return |
| DAMON tracker (`tracker_damon.go`) | pids, targets of each kernel thread, the threads' pids, channel to the reader; the kernel's threads | same; reader, parser and `perf`/`bpftrace` processes | sends while locked to a reader that locks; threads switched off, filled and on again one by one; reports that name an index | accesses go to the right process; calls return; tracked processes are monitored |
| finder tracker (`tracker_finder.go`) | ranges, channel | same | as the soft-dirty tracker without counters | as there |
| multi tracker and counters (`tracker_multi.go`, `tracker.go`) | list of trackers; counters are values | GetCounters squashes overlapping counters of all trackers | ranges that start, touch, overlap and end anywhere | no two counters over a page, no accesses lost |
| heatmap (`counters_heatmap.go`) | sorted ranges with heats for each process | UpdateFromCounters, lookups | splitting ranges, cooling by time | ranges sorted, apart and not empty; a page has its own heat |
| pid watchers (`pidwatcher_proc.go`, `_cgroups.go`, `_pidlist.go`, `_filter.go`) | pids reported, pids let through, stop flag | SetPidListener, Start, Stop, Poll; polling goroutine | filter and source lock in opposite orders; reading and reporting are apart; two loops | source, filter and listener agree; staying processes get tracked |
| demote-idle policy (`policy_demoteidle.go`) | pages of interest, stop channel | Start, Stop; listener; loop | works on a copy; marks 64 pages at a time; selects on a field that Stop changes | no page lost; only idle pages demoted, and those in the end; Stop stops |
| age, ratio policies (`policy_age.go`, `policy_ratio.go`) | book of counters with their ages, channel to the loop | Start, Stop; loop | the book outlives the counters; ranges are merged; pages looked at twice; second Stop | only quiet pages demoted, only busy ones promoted, none both; the share is reached |
| heat policy (`policy_heat.go`) | heatmap, book of the node of each address, use of each node | SetConfig, loop | counters read and reset apart; ranges cut differently in each round; sums over nodes; nothing is verified but swaps | notes have a reason, accounts follow them, every range is served, the mover comes to rest |
| avoid-oom policy (`policy_avoidoom.go`) | nodes with watermarks, nodesets of cgroups, channel to the loop | Start, Stop, loop | a round reads memory while tasks of the last are on their way; segments on several nodes | relieves as far as meant and no further; no page neglected; pages come to rest |
| address ranges and data (`addrrange.go`, `addrdata.go`) | lists of ranges | set, flatten, split, intersect | boundaries | what they say of each address |
| page and process access (`proc.go`, `page.go`) | none | page scan with skips | offsets | each page once |
| routines, prompt, statistics, forecasters, configuration | current actions, commands | run policies; parse and print | run next to everything else | none of their own that a model tells apart |

`PROJECT.json` has for each component what is modelled of it, or why it is not.

## 2. The modules

| module | stands for | status |
|---|---|---|
| `TaskPool` | what the mover promises: tasks go from new to queued, moving and done; each page is handed over at most once | checked, proved |
| `Mover` | `mover.go` with clients, channel, mutex and handlers; implements `TaskPool` | checked, proved |
| `SoftDirty` | `tracker_softdirty.go` with both mutexes, clients, samplers and exits | checked, proved |
| `PidWatcher` | the filter composed with each kind of source | checked, proved |
| `DemoteIdle` | the policy's loop composed with processes, kernel flags, watcher and mover | checked, proved |
| `AgingPolicy` | the age and the ratio policy's loop composed with counters, processes, mover and a client | checked, safety proved |
| `IdlePage` | `tracker_idlepage.go` with mutex, unprotected map, sampler, clients, exits and the kernel's bitmap | checked, safety proved |
| `Damon` | `tracker_damon.go` with both interfaces and both readers, clients, kernel threads, exits and failing programs | checked, safety proved |
| `AvoidOom` | the policy's loop composed with memory, the mover's handler and a client | checked, safety proved |
| `TrackerCounters` | `Flattened` and `RegionsMerged` as operators | checked and proved through `HeatTracking` and `AgingPolicy` |
| `Heatmap` | `UpdateFromCounters` as operators | checked and proved through `HeatTracking` |
| `PageHeat` | what a heatmap promises: a heat for each page | checked and proved through `HeatTracking` |
| `HeatTracking` | trackers, the multi tracker and the heat policy's loop up to the heatmap; implements `PageHeat` | checked, proved |
| `AddrDatas` | `addrdata.go`: a list of ranges with data | checked and proved through `HeatMoves` |
| `HeatMoves` | the heat policy's rounds from the heatmap to the mover's tasks, with moving pages and exits | checked, safety proved |
| `*Proofs` | the theorems about a component (`TrackerProofs`: about `IdlePage` and `SoftDirty`), and their lemmas | proved |
| `MC*` | constants for TLC | |

### How state and steps correspond to the code

*Steps.* A critical section that cannot block is one action, guarded by a free mutex. Where the
code blocks while it owns a mutex (`Mover.Stop`, `TrackerSoftDirty.Start` and `Stop`, `addRanges`,
every report of a watcher) the mutex is a variable that names its owner, and the section is
several actions. Between two critical sections of one call there is a program counter (`cpc` and
`hpc`, or `pc`) whose values name the place in the code. A goroutine has a slot in `Handlers`,
`Samplers` or `Loops`, which is "off" while it does not run.

*Mover.* `tasks` is the stack, `chan` the command channel with its capacity, `cur` and `rate`
what a handler holds after `popTask`, `offset` the `MoverTask.offset`. The kernel's answer
to a chunk is a choice: moved, blocked, failed. `outcome` and `tries` are history variables: how
a task ended, and how often each of its pages was given to the kernel. Waits are identifiers in
`thsWaits`; the buffered channel a waiter reads from is the entry in `waitChan`.

*SoftDirty.* `regions` and `accesses` are the processes with an entry in the maps of these names.
Page bits and counts are abstracted away; what is left is which regions of which process have a
counter (`accesses`). A sampler's tick is the code's sequence: refresh the regions, list them, scan
region by region, store, clear. `removePid` is shared by clients and samplers and remembers where it
returns to.

*PidWatcher.* `reported` is `pidsReported`, `added` is `addedPids`, `tracked` what the listener
was told. The proc watcher reads `/proc` before it takes the mutex, the cgroups watcher with it:
`FirstStep` and `PidsFound` have the difference. The filter's criteria are the set `matching`,
which changes with the processes.

*DemoteIdle.* `poi` is the map of that name, or what the directory of page files says; `idle` the
kernel's flags. `Word` says which word of the bitmap a page is in, and `SetIdleAll` marks all pages
of a word. `stop`, `stopping` and `waitsOn` have the channel, the moment between closing it and
setting the field to nil, and the channel a select has evaluated. `recent` and `masked` are history:
the pages accessed since they were last marked for their own process, and those of them that another
one's marking has made look idle.

*AgingPolicy.* `book` is `palt`: an entry has ages, the time from an event to the last round, where
the code has time stamps, and a set of rounds where it has a bitmap; `Round(delta)` is the part of a
round that updates it, `delta` after the one before. `pc` follows the rest of the round: which
counters go to `Move`, which looks at the mover's list once, takes the counters in any order sorted
by address (`SortedByAddr`; the code's sort is not stable), merges them, and for each merged counter
`FindPages` (`PagesMatching`) and `AddTask` (`NotOnNode`), between which the process may exit.
`cgLoop` is the channel: none, open, or closed. `quiet`, `busy` and `accessed` are history: what a
round would have found had it looked at the accesses themselves.

*HeatTracking.* A tracker's counters are a set of ranges with accesses; `Flattened` and
`UpdateFromCounters` are translated walk by walk, not as what they should compute. The counters of
several trackers can have the same range, which the sort leaves in any order (`SortByAddr`).
`HeatedBy` puts what `updateFromPidHeatRange` splits off where it belongs, where the code appends it
and sorts the list in the end; `First` and `Behind` are where `Overlapping` starts and stops. What
`HeatRetention` leaves of a heat is a constant operator, `Cooled`, of which only the type is
assumed. The time of each round is any number up to `MaxTime`, as the wall clock may be set back.

*IdlePage.* `regions` are the processes in the map, `empty` those that `addRanges` has entered and
not yet filled. `todo` is what a loop over the map still comes to: deleting from a map takes a key
out of a loop over it, replacing the map (`RemovePids(nil)`, `replaced`) does not. `cache` and
`cached` are the words of the bitmap `countPages` has read; `ScanRegion` is `ForEachPage` over a
region with its early end, and `SetIdleAll` marks words. `toSampler` is the channel, with the moment
between closing and forgetting it. `MapRace` is the runtime ending a program that uses a map from
two goroutines. `fresh`, `skipped`, `tracked` and `gone` are history: which accesses no scan has
counted, which of them it did not come to, and which processes were removed. In a scenario that
`fails` every open, read and write of the bitmap and the page flags may fail: `CountFails`,
`ScanRegion` and `SetIdleBits` have what the code leaves out then.

*Damon.* `targets` are the lists the kernel was given, `kpid` its threads, `kmap` what the tracker
remembers of both when it switched them on; each is changed by an action of its own, in the order
of the code, so that exits and reports fall in between. `lines` are reports on their way, with
the process that was meant (`who`). `broken` and `lost` are history: why monitoring is not as
asked for. `LivePids` is the loop that takes what has exited out of the list of pids, one at a time.

*AvoidOom.* Memory is pages of segments, on nodes, and memory nobody moves (`other`). A task's pages
are a set: which of them a chunk takes first no property tells apart. `BeginRound`
is a tick up to the sums of `balance`, one reading of memory; the nodesets and candidates follow one
by one while tasks of earlier rounds are being moved. `round` is what the round knows. `stale` is
history: nodes of which that may not be true any more. A start launches a handler even if an older one
has not read its command to quit (`Launch`); which of them reads it is open.

*HeatMoves.* A round is `UpdateHeatmap` (ranges change in any of the given ways),
`UpdatePagedOutLocations`, `StartMoves` and one `PlanRange` for each range, with `Plan` for what a
range does to book, accounts and tasks: `datas` is `pidAddrDatas`, sequences of ranges cut by
`SetData`, `numaUsed` the accounts, with the mistakes of the code (`NoteRun` counts a run for
the node of the next one). The ranges of a heatmap from hot to cold (`HotToCold`) and the runs of pages
of a range (`Runs`) are the lists that are in that order, of which there is one each. What is used of a
node is capped by `MaxUsed` where it is assigned (`Account`).

## 3. Runs

| run | what it asks | result |
|---|---|---|
| `mover` | two clients call everything, two handlers after a stop and a start: `HandlerBalance`, `TaskAccounting`, and `KeepsTaskPromise`, the refinement of `TaskPool` | holds |
| `mover_live` | nobody stops or pauses: `EveryTaskEnds`, `WaitIsAnswered`, `QuietStatusIsTrue` | holds |
| `softdirty` | watcher and policy with two sampler slots and a process that exits, or with two processes of which one stays: `OneSampler`, `CallsReturnUnlessJammed`, `TrackedIsCounted` | holds |
| `idle_page` | an operator and a watcher, two operators that stop, accesses while processes are added and exit, or files of the kernel that fail: `RemovedStaysAway`, `LostOnlyMeanwhile`, `CallsReturnUnlessJammed` | holds |
| `damon` | restarts, reports over either interface, configuration and failing programs: `RightProcess`, `CallsReturnUnlessJammed`, `TrackedIsHeard`, `TypeOK` | holds |
| `watchers` | all sources, filtered or not: `KnownUpstream`, `ListenerMissesNothing`, `CallsReturnUnlessJammed`, `StayingIsTracked` | holds |
| `demote_idle` | pages of two processes in one word: `KeptOrHandedOver`, `StopReachesWaiters`, `OnlyNeighboursMaskAccess`, `IdleIsDemoted` | holds |
| `aging` | both policies over two ranges that touch, or one of a process that exits, with delayed rounds: `NoTugOfWar`, `OnlyLastingAgeMoves`, `GoneLeavesTheBook`, `StopReturnsUnlessCaught` | holds |
| `avoid_oom` | short nodes next to free ones, segments on two nodes, holes, restarts: `RelievesNoFurther`, `NoNeglect`, `PagesComeToRest`, `TypeOK` | holds |
| `heat` | two trackers that are not aligned: `SquashingKeepsAccesses`, `TypeOK` (ranges of the heatmap are sorted and apart), and `ImplementsPageHeat`, the refinement of `PageHeat` | holds |
| `heat_moves` | hot and cold in turn on a full fast node, swap, absent pages, failing moves, new configuration: `NotesHaveAReason`, `AccountsFollowTheBook`, `MoverComesToRest`, `ServedUnlessClassIsFull`, `TypeOK` | holds |
| `heat_panics` | is the list always sorted when `Flattened` asserts it (`FlatteningKeepsOrder`)? | violated |

`TypeOK` is checked where it says more than types (`heat`, `heat_moves`, `damon`, `avoid_oom`); of
the other modules `TypeCorrect` is proved (section 4).

`CallsReturnUnlessJammed` names the deadlocks the code has (`SelfJam`, `OrderJam`, `StopJam` of
`SoftDirty` and `PidWatcher`, `Jammed` of `IdlePage`, `ReaderJam` of `Damon`) and says that they are
all there are; it fails as soon as a new one appears. In the same way `TrackedIsHeard`, `NoNeglect`
and `RelievesNoFurther` name what the code does not do, and claim the rest.

### Findings

`heat_panics`: `Flattened` goes on walking behind the end of the added counter and trips its own
assertion.

More follows from the models without a run of its own:

* `Mover.Stop` sends on a bounded channel with the mutex locked that the handler needs to get to
  its next receive (`mover.go:162`); with the channel full both wait, and a second Stop after the
  handler has left waits too.
* Start of a watcher does not look for a running loop, and the proc watcher reads before it locks
  (`pidwatcher_proc.go:198`), so the reader with the older list reports a live process as gone.
* Stop of the demote-idle policy sets the channel to nil (`policy_demoteidle.go:250`); a loop that
  was in its round selects on nil from then on (269) and never ends, although the comment at 243
  says that Stop stops the policy. One that waits is reached by the next Stop
  (`StopReachesWaiters`).
* The demote-idle policy marks by words of 64 frames (`policy_demoteidle.go:435`) right after it has
  scanned a process. Within a process two passes keep looking and marking apart; between processes
  nothing does, and a page of a process that is scanned later is demoted although it was accessed.
  The comment at 60-61 says that the policy demotes pages that have not been accessed since the
  previous round. That a neighbour of another process is the only way is `OnlyNeighboursMaskAccess`,
  which is checked and proved. The idle-page tracker does not have this, as it counts everything
  before it marks anything.
* The rounds in which a counter was active are 64 bits (`policy_age.go:78`, 356, 391-394): an active
  duration of 64 intervals or more asks for the last 64 rounds only, not for "every check during
  this time" (55-58). `OnlyLastingAgeMoves` promises as many rounds as there are bits, and no more.
* A range that has no room on the nodes of its heat class stays where it is
  (`policy_heat.go:566-575`); the comment at 51-54 and the one at
  `sample-configs/memtierd-heat-idlepage.yaml:25-28` say that it is moved to nodes of lower heats.
  `ServedUnlessClassIsFull` excepts such ranges by name: that it holds says nothing of them.
* The heat policy counts a run of pages for the node of the next run (`policy_heat.go:528`), so that
  `numaUsed` is not the capacity used on each node (70) once ranges straddle nodes.
  `AccountsFollowTheBook` leaves these out.
* The ratio policy counts what has moved, and then picks it again since it is the coldest
  (`policy_ratio.go:379`): once a part of a share has moved, the rest never does.
* The age and ratio policies panic when a process exits between `FindPages` and `AddTask`.
* `countPages` of the soft-dirty tracker creates the counters of a process that was removed after
  it had copied the regions; nothing removes them again.
* The avoid-oom policy looks at the mover's list, which has not the task in hand
  (`policy_avoidoom.go:419`): it then schedules the same need twice and relieves a node beyond the
  watermark, and two nodes can take turns. Pages behind the holes of a segment are never moved, as
  its size is that of its resident pages; a stop that leaves tasks leaves the next start
  with a mover that is busy for ever.
* A Start of the DAMON tracker that comes while an older reader is quitting is started and deaf; one
  process without address ranges keeps all others from being monitored
  (`tracker_damon.go:510`); that bpftrace has ended is not noticed; with debugfs, lines of
  replaced targets go to the wrong process.
* The heat policy subtracts the length of a range twice from the room for it (559, 572), looks for a
  range again in every round, and counts its pages again, if its first page is not there, and
  subtracts nothing for processes that exit: the fast node looks fuller than it is, so that later
  ranges may find no room. `ServedUnlessClassIsFull` is about room by the policy's own account.

### Bounds, and why they are enough

* **Mover.** Two clients are needed for everything that races (two calls between unlock and send);
  a third adds another of the same. Two handlers is what a stop and a start give; two tasks, of 2
  and 1 pages with a rate of 1, have a task of several rounds and one of a single round. Rate 0 is
  the configuration that moves nothing. Capacity 2 instead of 8 (1 in `mover_live`) makes full
  channels cheap. Handlers are interchangeable, so they are a
  symmetry set in `mover`, which has no liveness property.
* **SoftDirty.** Two scenarios. One process that dies in each step there is, with every call and two
  sampler slots, so that a second sampler could start; and two processes, of which one stays while
  the other is added, is removed and exits before, between and after the steps for the first, with
  one sampler that nobody stops. Two regions each, so that a process can die between two of them.
  `TrackedIsCounted` is about rounds that begin to scan: with `TrackReferenced`, page flags that
  cannot be opened end a round before that.
* **IdlePage.** Four scenarios, because clients that do everything at once with accesses are too
  many: an operator next to a watcher with an exiting process, two operators that stop (the second
  Stop is where the channel bites), accesses to a page of a region that has one too many and to one
  that shares its word with another process that exits, and accesses to two regions of one process
  while any file of the kernel fails to be opened, read or written at any time. `MaxCount` 1 and a
  read-ahead of one word make both the early end of a region and a stale word happen.
* **Damon.** Two processes and up to two kernel threads, so that targets are dealt out and one
  thread may be refused when the other is on; seven kernel pids, more than are ever in use or
  remembered, so that a fresh one is always left; one line in flight; two tracked entries, as
  pidlist adds a process twice.
* **PidWatcher.** One process that stays and one that comes and goes, in each of the six
  configurations (three sources, filtered or not), with one loop next to a Poll.
* **DemoteIdle.** Two processes, one with two pages, all in one word, so that each page has a neighbour
  in its process and one in the other; one loop; both kinds of pages of interest. That several loops
  change nothing for the three safety properties is proved (section 4).
* **AgingPolicy.** Two ranges of a page that touch, so that they are merged and a task can be moved
  in part, and nobody exits, or one range of two pages and a process that exits; one process; one
  unit of time per interval, and rounds that come after one or after three of them (`Deltas`), which
  is beyond the two intervals that the book outlives the counters. An idle duration of 2, a swap-out
  time of 3 and an active duration of 1 keep the three phases apart, and `MaxAge` is one more than
  the longest. A counter changes once (`MaxCount` 1) after it was new, which is enough to be active
  and idle again; when the process exits, or comes to need its pages, any place of the round can be
  hit. `LastRoundsBits` is 64 as in the code, which no run reaches: the theorem holds for any number
  of bits.
* **AvoidOom.** Four nodes, so that two can be short while two others have room; segments of four
  and two pages, so that a quarter of a segment is one page and halves of it can be on two nodes;
  tasks are moved a page at a time (`Chunk` 1). Watermarks at 2 and 3 of 12 with one allocation or
  release let each class of pressure begin and end. The channel has room for two commands
  (`ChanCap`), so that `Handlers` are three: no more can be there, which `TypeCorrect` proves. Each
  scenario fixes where pages start.
* **HeatTracking.** Four pages and ranges chosen so that counters start in, touch, overlap and
  span ranges of the other tracker; a second process so that one can be forgotten. `MaxCount` 4,
  `HeatMax` 3 and `MaxTime` 1 let heats reach the maximum, cool to zero, and go back in time.
* **HeatMoves.** Three pages are the fewest in which a range is cut on both sides; two processes
  compete for a fast node of four pages; two heatmaps per scenario, between which heats change
  for ever or settle. One page moves by itself. `MaxUsed` 5 is past the size of the node, where
  the account no longer makes a difference.

### Fairness

Goroutines that can run do run: weak fairness for the steps of clients inside a call, handlers and
loops. In `SoftDirty`, `IdlePage` and `PidWatcher`, and for the readers of `Damon`, where actors
compete for mutexes, it is strong fairness: Go's mutex hands over to a waiter after 1 ms (starvation
mode), so a waiter gets it if it becomes free again and again. `select` draws lots among the ready
cases, hence strong fairness for the stop case next to a ticker. Tickers tick. The loop of
`HeatMoves` can always take a step and no other action changes its variables, so weak fairness of
its rounds is written `[]<><<Round>>_loop`, which TLC checks without evaluating ENABLED. In
`AgingPolicy` the mover works; a tracker need not notice an exit, nor count, and may count for a
process that it has removed. In `AvoidOom` each handler goes on. There is no fairness for calls
(nobody has to call), for the kernel's files (they may fail for ever), for processes (they may exit,
access or not), for the parser of bpftrace's lines, the kernel's reports, or the writer of the page
files. `mover` checks deadlock off since a mover that is jammed in Stop, or never started, stops;
the same holds for the other runs that say so: their systems have the jams named above, or nothing
left to do.

## 4. Theorems

Every theorem holds for all values of the constants that satisfy the module's
`ConstantsAssumption`, which TLC evaluates in the runs.

* **Mover** (`MoverProofs`). `TypeCorrect`, from `TypeInv`: types, and a handler holds a task
  exactly at the places of its code where it works on one. `TasksAccounted` (`TaskAccounting`), from
  `WorkInv`. `TaskAccounting` is not inductive: a pop needs to know that no handler holds a listed
  task, and the end of a task that its pages up to `offset` and no others were tried. These are
  `Accounts` and `TriesMatchOffset`. With `WorkInv`, `PoolSimulation` maps each step to a step of
  `TaskPool` or to a stutter, and `ImplementsTaskPool` is the refinement. `HandlersBalance`
  (`HandlerBalance`), from `BalanceInv`: the three cardinalities change together, for which a stop
  command is sent by a client that stops and by no other (`WaitersWait`: the entries of waiters are
  of distinct clients that wait, so that an answer to a wait does not change who is stopping); it
  needs `Clients` and `Handlers` to be finite, which `ConstantsAssumption` says.
  `QuietUnlessStopped` (`QuietStatusIsTrue`), under the assumption that nobody stops: with one
  handler (`AloneInv`) the status belongs to it.
* **SoftDirty** (`TrackerProofs`, where the tracker is an instance, `Soft`, with constants and
  variables of its own). `SoftTypeCorrect` (`TypeOK`), from `SoftTyped`, which has the return
  addresses of `removePid`: without them a step out of it could go anywhere. `AtMostOneSampler`
  (`OneSampler`), from `Owners`: who owns the mutex at which step of Start and Stop, and what the
  channel holds there.
* **PidWatcher** (`TrackerProofs`, where the watchers are an instance, `W`). `WatchTypeCorrect`, in
  which an actor owns the source's mutex exactly while it reports. `BooksAgree` (`KnownUpstream`),
  from `Books`: it also speaks of the middle of a report (what is tracked is reported or about to be
  removed), and says that nothing is told before a listener is set: reports made without one are
  dropped, so otherwise a removal could be dropped for a process that is tracked.
  `ListenersMissNothing` (`ListenerMissesNothing`), from `Told`: a listener that is set has been
  told what is on the books of the source, but for what the owner of the mutex is about to report,
  or, with the filter, just what the filter wrote down.
* **DemoteIdle** (`DemoteIdleProofs`), for any number of loops. `TypeCorrect`; `NoPageLost`
  (`KeptOrHandedOver`), from `Interest`: what a loop is about to subtract it has handed over;
  `NoOrphanedWaiter` (`StopReachesWaiters`), from `Waiters`; `OnlyASharedWordMasks`
  (`OnlyNeighboursMaskAccess`), for any layout of the bitmap, from `FlagsTrue`: a page with the flag
  has not been accessed since its own process was marked, or is `masked`, and a loop that begins a
  scan has no idle pages from before. This says that marking for another process is the only way an
  access is overlooked.
* **AgingPolicy** (`AgingPolicyProofs`). `TypeCorrect`, with the bound of two intervals on what is
  unseen; and `NoTugOfWarFromTwoIntervals` (`NoTugOfWar`) under the assumption that idleness takes
  two intervals at least, from `BookInv`: an entry that changed in the round it was last seen has
  equal ages (`Truthful`). Bits shift only when a counter is seen and ages grow always, so the two
  disagree about an unseen one, but for two intervals at most, after which it is deleted. Nothing in
  the code asks for that duration; with a shorter one a counter can be both. `OnlyWhatIsDueMoves`
  (`OnlyLastingAgeMoves`) is about what reaches the mover, with the accesses themselves as the
  measure. Its invariant, `LastingInv`, was first checked by TLC on the instance of `aging`.
  `TellsTruth` relates the book to the tracker: an entry differs from its counter just when it has
  been accessed since, was changed no later than it says, and in a row of as many rounds. That is so
  only while the process runs (`TruthfulBook`), as counters that are removed leave no trace, and so
  the property speaks of nobody else. An active range was busy in as many rounds as configured or,
  if that is more, as `LastRounds` has bits, whatever their number (`ActiveRounds`). `MovesAreDue`:
  all pages of the merged ranges are due; they are pages of the counters that were chosen
  (`MergedIsCovered`), whatever was merged. It assumes that time does not go back between rounds
  (the code takes the wall clock, which may) and that the nodes for idle, active and swapped-out
  memory are three.
* **IdlePage** (`TrackerProofs`). `TypeCorrect`, from `Typed`: the places with the mutex are those
  of its owner, and who is about to start a sampler finds none. `RemovedStaysAwayAlways`
  (`RemovedStaysAway`), from `Away`: a removed process is not in the map, not in what the sampler's
  loop still comes to, and nobody is in `addRanges` of it. `NothingElseIsLost`
  (`LostOnlyMeanwhile`), from `Counting`: what the scan has missed so far it still comes to, has not
  read the bits of too early, or has passed over because of an error (`skipped`); so nothing else is
  missed when marking begins. The proof needs that a region belongs to one process, and nothing
  about the layout of words.
* **Damon** (`DamonProofs`). `RightProcessAlways` (`RightProcess`), from three parts: `Wired`, types
  and who is where; `Mapped`, what the tracker remembers of a kernel thread that runs is what the
  kernel has; `Faithful`, the lines on their way. Pids of threads are not reused while the tracker
  remembers them, which is what `NewKdamondPids` says of the kernel. `TypeCorrect`, from
  `ListsTyped`, the lists that are dealt out, filtered and remembered, and `ReaderTyped`: the client
  in a call owns the mutex, and there is a channel exactly as long as there is a reader, or a `perf`
  that did not start.
* **AvoidOom** (`AvoidOomProofs`). `TypeCorrect`, from `Typed`: there are as many handlers as
  commands to quit on the channel, and one more while the mover runs; so a start always finds a
  number that is free for its handler. `NoNodeIsRelievedFurther` (`RelievesNoFurther`), for any
  number of segments, nodes and pages. The property speaks of the moment a page moves; the reason
  for it is the reading of memory many steps before, between which tasks shrink, pages move, and
  processes exit. So it needs two strengthenings. `Enough`: for a node that is not `stale`, what
  tasks will still move away and what the round may still schedule makes no more available than the
  watermark to stop at. `Apart`: no page is in two tasks, unless all nodes are stale; without it a
  sum counts a page once that leaves twice. A candidate takes no more than what is left, as
  `Candidate` has its pages: few are before each (`FewBeforeEach`).
* **HeatTracking** (`HeatTrackingProofs`), for any processes, any finitely many trackers and
  counters, any heats, any cooling and any clock, and for runs in which `Flattened` does not end the
  program: in those the list stays sorted. `HeatInv` is the inductive invariant. It says more than
  `TypeOK` of the counters that were squashed: of any two, not only of neighbours, one ends before
  the other (`Chain`, `Ahead`), and an empty one, as the walk back makes them, comes right behind
  another one (`Flat`). The latter is why no range of the heatmap is ever empty: an empty counter
  inside a range would split off an empty part, but where the counter before it ended, a range ends
  (`NoneAround`). `NoAccessIsLost` (`SquashingKeepsAccesses`) adds counters one by one: `Walked` is
  what the walk over the counters touched by a new one has done so far, to every page. As the
  counters of a list are apart, the sum of the property is the accesses of the one counter over a
  page, if there is one (`Tells`). `TypeCorrect` and `HeatmapIsPageHeat` (`ImplementsPageHeat`) walk
  over the overlapping ranges (`Heating`, with what is left of the new range, and what has been told
  of each page so far), put the front, the walked part, the rest of the new range and the back
  together again (`CutInThree`, `HeatedByIs`), and go on from counter to counter (`HeatsAfter`).
  What a list says of a page (`Tell`) does not depend on how it is cut, which is what the refinement
  compares (`PageUpdated`).
* **HeatMoves** (`HeatMovesProofs`), for any finite sets of processes and pages. What `SetData` does
  to a list of ranges is proved first: `SetDataSets` says that afterwards the pages of the new range
  have its data and all others what they had, and that the list is still one. It needs more of a
  list than that neighbours are in order (`IsProper`): every range ends before all that follow it
  (`Apart`), which the search for the first range that overlaps relies on. `TypeCorrect` is from
  `Typed`, in which every book is such a list; a run of pages, whose length the model takes from the
  number of its pages, has no gaps (`GaplessInterval`), so that it is on one node and inside the
  range that is looked at. `BookChangesForAReason` (`NotesHaveAReason`) is an action property from
  there, which follows a note to the range of the book it is part of. `PlainRangesAreAccounted`
  (`AccountsFollowTheBook`) counts: changing the notes of the pages of a range from one place to
  another (`NotesMoved`) changes the number noted on each by as many, and so `Used` keeps `Follows`,
  that the account of a node changes as the number of pages noted there. Looking and scheduling are
  two such changes, and they compose (`FollowsOn`) as sums that are not capped in between. The proof
  shows why the property is about plain ranges: only those have a single run (`OneRun`), which the
  code counts for its own node.

Only model-checked: everything under fairness (`EveryTaskEnds`, `GoneLeavesTheBook`,
`WaitIsAnswered`, `TrackedIsCounted`, `StayingIsTracked`, `IdleIsDemoted`, `TrackedIsHeard`,
`NoNeglect`, `PagesComeToRest`, `MoverComesToRest`, `ServedUnlessClassIsFull`,
`StopReturnsUnlessCaught`, `CallsReturnUnlessJammed`), as the prover does not do liveness.

Where a theorem needs what a fold returns (the merged ranges of `AgingPolicy`, the lists of `Damon`,
the runs of `HeatMoves`, all of `HeatTracking`), the induction over the list is done without
induction theorems, which take an operator as a parameter: a fold is a function on sets of positions
(`IsFold`), a set on which two of them, or a fold and a claim, disagree has a smallest one
(`SmallestSet`, by well-foundedness), and one position less leads to a contradiction. This proves
that what is folded stays in a set (`FoldStaysIn`), for a step that is given. In
`HeatTrackingProofs` the same argument shows that a fold over a list is a walk (`FoldIsWalk`): a
function from 0 to the length of the list of which each value comes from the one before, about which
facts are then proved from each position to the next (`Upwards`). What such a fold computes is never
stated for all operators, only for the ones at hand.

## 5. Not modelled

* Parsing, printing, logging, statistics, forecasters (pipes to another program), start-up, and the
  routines, which are clients like the prompt.
* The finder tracker: its start, stop and sampler are those of the soft-dirty tracker, without counters.
  A third Stop while the sampler waits for the mutex, to close the channel, jams as there.
* Pure operators that nothing modelled depends on: `SplitLength`, `Intersection` (which drops the
  overlap when the cut starts before the range, `addrrange.go:304`), `ForEachPage` with a skip,
  whose condition is inverted (`proc.go:558`), `AddrDatas.ForEach`, `RangeHeat`.
* In modelled components: reconfiguring a running watcher (the loop of the old source goes on,
  `pidwatcher_filter.go:89`) or idle-page tracker, replacing a running policy from the prompt, the
  reuse of a pid, reading `/proc` in several steps, the arithmetic of ranges in `DemoteIdle` (pages
  are sets), page bits in `SoftDirty`, two clients at once and an exit while bytes are counted in
  `AgingPolicy`, fractions of heats (heats are whole numbers in `Heatmap`), the attributes of DAMON
  and the guess of `legacyTargetIDToPid` in `Damon`, Start and Stop of the heat policy, which are
  those of the age policy, and `startMovesNoLimits`, which has nothing to do whenever it is called.
