----------------------------- MODULE SoftDirty -----------------------------
(***************************************************************************)
(* The soft-dirty tracker (pkg/memtier/tracker_softdirty.go).  A sampler   *)
(* goroutine scans the regions of the tracked processes and counts writes, *)
(* while pid watchers add and remove processes, policies start, stop and   *)
(* reset the tracker, and processes exit at any time.                      *)
(*                                                                         *)
(* Two mutexes protect the state.  A critical section that cannot block is *)
(* one action guarded by free mutexes; the others, Start, Stop and         *)
(* addRanges, own their mutex from one action to the next.  Access counts  *)
(* are abstracted to the set of regions that have a counter.               *)
(***************************************************************************)
EXTENDS Naturals

CONSTANTS
  Clients,      \* goroutines that call the tracker: pid watchers, policies, prompts
  Ops,          \* Ops[c]: the operations client c calls
  Samplers,     \* slots for sampler goroutines: a bound on how many are alive
  Pids,         \* processes
  RegionCount,  \* RegionCount[p]: regions of at least two pages in process p
  None          \* no owner of a mutex, no process

OpNames == {"add", "remove", "remove all", "reset", "start", "stop"}

ASSUME ConstantsAssumption ==
  /\ Ops \in [Clients -> SUBSET OpNames]
  /\ RegionCount \in [Pids -> Nat]
  /\ Clients \cap Samplers = {}
  /\ None \notin Clients \cup Samplers \cup Pids

Actors == Clients \cup Samplers

VARIABLES
  alive,         \* the processes that have not exited
  regions,       \* TrackerSoftDirty.regions: the processes with known regions
  accesses,      \* TrackerSoftDirty.accesses: <<p, i>> if region i of p has a counter
  toSampler,     \* TrackerSoftDirty.toSampler, of capacity 1: "nil", "empty" or "full"
  mutex,         \* the actor that holds TrackerSoftDirty.mutex between actions
  regionsMutex,  \* the same of TrackerSoftDirty.regionsMutex
  pc,            \* where each actor is
  todo,          \* processes left in the loop of an actor
  pid,           \* the process an actor works on
  region,        \* the next region a sampler scans of its process
  back           \* where removePid returns to

locals == <<todo, pid, region, back>>
vars == <<alive, regions, accesses, toSampler, mutex, regionsMutex, pc, locals>>

Init ==
  /\ alive = Pids /\ regions = {} /\ accesses = {} /\ toSampler = "nil"
  /\ mutex = None /\ regionsMutex = None
  /\ pc = [a \in Actors |-> IF a \in Clients THEN "idle" ELSE "off"]
  /\ todo = [a \in Actors |-> {}]
  /\ pid = [a \in Actors |-> None]
  /\ region = [s \in Samplers |-> 1]
  /\ back = [a \in Actors |-> "idle"]

CountersOf(p) == {p} \X (1..RegionCount[p])

Goes(a, from, to) == pc[a] = from /\ pc' = [pc EXCEPT ![a] = to]
Calls(c, op, to) == op \in Ops[c] /\ Goes(c, "idle", to)

\* removePid(p): first from the regions, then from the counters.
GoesToRemove(a, p, from, to) ==
  /\ Goes(a, from, "remove regions")
  /\ pid' = [pid EXCEPT ![a] = p]
  /\ back' = [back EXCEPT ![a] = to]

Die(p) ==
  /\ p \in alive /\ alive' = alive \ {p}
  /\ UNCHANGED <<regions, accesses, toSampler, mutex, regionsMutex, pc, locals>>

-----------------------------------------------------------------------------
(* Adding and removing processes *)

RemoveRegions(a) ==
  /\ regionsMutex = None
  /\ Goes(a, "remove regions", "remove accesses")
  /\ regions' = regions \ {pid[a]}
  /\ UNCHANGED <<alive, accesses, toSampler, mutex, regionsMutex, locals>>

RemoveAccesses(a) ==
  /\ mutex = None
  /\ Goes(a, "remove accesses", back[a])
  /\ accesses' = accesses \ CountersOf(pid[a])
  /\ UNCHANGED <<alive, regions, toSampler, mutex, regionsMutex, locals>>

AddPids(c, p) ==
  /\ Calls(c, "add", "add clear")
  /\ pid' = [pid EXCEPT ![c] = p]
  /\ UNCHANGED <<alive, regions, accesses, toSampler, mutex, regionsMutex, todo, region, back>>

\* clearPageBits removes a process whose clear_refs cannot be written.
AddClear(c) ==
  /\ \/ pid[c] \in alive /\ Goes(c, "add clear", "add ranges") /\ UNCHANGED <<pid, back>>
     \/ pid[c] \notin alive /\ GoesToRemove(c, pid[c], "add clear", "add ranges")
  /\ UNCHANGED <<alive, regions, accesses, toSampler, mutex, regionsMutex, todo, region>>

AddRanges(c) ==
  /\ pid[c] \in alive /\ regionsMutex = None
  /\ Goes(c, "add ranges", "idle")
  /\ regions' = regions \cup {pid[c]}
  /\ UNCHANGED <<alive, accesses, toSampler, mutex, regionsMutex, locals>>

\* The process is gone: addRanges takes the mutex with regionsMutex locked.
AddRangesFails(c) ==
  /\ pid[c] \notin alive /\ regionsMutex = None
  /\ Goes(c, "add ranges", "add dead")
  /\ regions' = regions \ {pid[c]}
  /\ regionsMutex' = c
  /\ UNCHANGED <<alive, accesses, toSampler, mutex, locals>>

AddDead(c) ==
  /\ mutex = None
  /\ Goes(c, "add dead", "idle")
  /\ accesses' = accesses \ CountersOf(pid[c])
  /\ regionsMutex' = None
  /\ UNCHANGED <<alive, regions, toSampler, mutex, locals>>

RemovePids(c, p) ==
  /\ "remove" \in Ops[c]
  /\ GoesToRemove(c, p, "idle", "idle")
  /\ UNCHANGED <<alive, regions, accesses, toSampler, mutex, regionsMutex, todo, region>>

\* RemovePids(nil) forgets the regions of all processes, not their counters.
RemoveAllPids(c) ==
  /\ Calls(c, "remove all", "idle") /\ regionsMutex = None
  /\ regions' = {}
  /\ UNCHANGED <<alive, accesses, toSampler, mutex, regionsMutex, locals>>

ResetCounters(c) ==
  /\ Calls(c, "reset", "idle") /\ mutex = None
  /\ accesses' = {}
  /\ UNCHANGED <<alive, regions, toSampler, mutex, regionsMutex, locals>>

-----------------------------------------------------------------------------
(* Starting and stopping *)

\* clearPageBitsForRegionPids, of Start and of the sampler.
ClearList(a) ==
  /\ regionsMutex = None
  /\ Goes(a, "clear list", "clear")
  /\ todo' = [todo EXCEPT ![a] = regions]
  /\ UNCHANGED <<alive, regions, accesses, toSampler, mutex, regionsMutex, pid, region, back>>

Clear(a) ==
  /\ \E p \in todo[a] :
        /\ todo' = [todo EXCEPT ![a] = @ \ {p}]
        /\ \/ p \in alive /\ Goes(a, "clear", "clear") /\ UNCHANGED <<pid, back>>
           \/ p \notin alive /\ GoesToRemove(a, p, "clear", "clear")
  /\ UNCHANGED <<alive, regions, accesses, toSampler, mutex, regionsMutex, region>>

\* Mutant: Start does not look whether a sampler runs already.
StartAlways(c) ==
  /\ Calls(c, "start", "clear list") /\ mutex = None
  /\ mutex' = c
  /\ toSampler' = "empty"
  /\ UNCHANGED <<alive, regions, accesses, regionsMutex, locals>>

\* Start fails if a sampler runs already.  It keeps the mutex to the end.
Start(c) ==
  /\ Calls(c, "start", "clear list") /\ mutex = None
  /\ toSampler = "nil"
  /\ mutex' = c
  /\ toSampler' = "empty"
  /\ UNCHANGED <<alive, regions, accesses, regionsMutex, locals>>

StartSampler(c) ==
  /\ pc[c] = "clear" /\ todo[c] = {}
  /\ \E s \in Samplers : /\ pc[s] = "off"
                         /\ pc' = [pc EXCEPT ![c] = "idle", ![s] = "select"]
  /\ mutex' = None
  /\ UNCHANGED <<alive, regions, accesses, toSampler, regionsMutex, locals>>

\* Stop sends to the channel with the mutex locked.
Stop(c) ==
  /\ Calls(c, "stop", "stop send") /\ mutex = None
  /\ toSampler # "nil"
  /\ mutex' = c
  /\ UNCHANGED <<alive, regions, accesses, toSampler, regionsMutex, locals>>

StopSend(c) ==
  /\ toSampler = "empty"
  /\ Goes(c, "stop send", "idle")
  /\ toSampler' = "full"
  /\ mutex' = None
  /\ UNCHANGED <<alive, regions, accesses, regionsMutex, locals>>

-----------------------------------------------------------------------------
(* The sampler *)

SamplerReceive(s) ==
  /\ toSampler = "full"
  /\ Goes(s, "select", "quit")
  /\ toSampler' = "empty"
  /\ UNCHANGED <<alive, regions, accesses, mutex, regionsMutex, locals>>

SamplerQuit(s) ==
  /\ mutex = None
  /\ Goes(s, "quit", "off")
  /\ toSampler' = "nil"
  /\ UNCHANGED <<alive, regions, accesses, mutex, regionsMutex, locals>>

\* A tick of the scan interval, with or without an update of the regions.
SamplerTick(s) ==
  /\ \E to \in {"update list", "count"} : Goes(s, "select", to)
  /\ UNCHANGED <<alive, regions, accesses, toSampler, mutex, regionsMutex, locals>>

UpdateList(s) ==
  /\ regionsMutex = None
  /\ Goes(s, "update list", "update")
  /\ regionsMutex' = s
  /\ todo' = [todo EXCEPT ![s] = regions]
  /\ UNCHANGED <<alive, regions, accesses, toSampler, mutex, pid, region, back>>

\* addRanges of the next process; the regions of one that lives are read anew.
Update(s) ==
  /\ \E p \in todo[s] :
        /\ todo' = [todo EXCEPT ![s] = @ \ {p}]
        /\ pid' = [pid EXCEPT ![s] = p]
        /\ \/ p \in alive /\ Goes(s, "update", "update") /\ UNCHANGED regions
           \/ p \notin alive /\ Goes(s, "update", "update dead") /\ regions' = regions \ {p}
  /\ UNCHANGED <<alive, accesses, toSampler, mutex, regionsMutex, region, back>>

UpdateDead(s) ==
  /\ mutex = None
  /\ Goes(s, "update dead", "update")
  /\ accesses' = accesses \ CountersOf(pid[s])
  /\ UNCHANGED <<alive, regions, toSampler, mutex, regionsMutex, locals>>

\* Mutant: regionsMutex is not unlocked when the update has no process left.
UpdateEndLocked(s) ==
  /\ todo[s] = {}
  /\ Goes(s, "update", "count")
  /\ UNCHANGED <<alive, regions, accesses, toSampler, mutex, regionsMutex, locals>>

UpdateEnd(s) ==
  /\ todo[s] = {}
  /\ Goes(s, "update", "count")
  /\ regionsMutex' = None
  /\ UNCHANGED <<alive, regions, accesses, toSampler, mutex, locals>>

\* countPages: read the configuration, then list the processes to scan.
Count(s) ==
  /\ mutex = None
  /\ Goes(s, "count", "scan list")
  /\ UNCHANGED <<alive, regions, accesses, toSampler, mutex, regionsMutex, locals>>

\* With TrackReferenced countPages needs /proc/kpageflags: nothing is counted in
\* a round in which it cannot be opened.
CountFails(s) ==
  /\ mutex = None
  /\ Goes(s, "count", "clear list")
  /\ UNCHANGED <<alive, regions, accesses, toSampler, mutex, regionsMutex, locals>>

\* Mutant: the list of processes to scan is left as the last loop ended it.
ScanOldList(s) ==
  /\ regionsMutex = None
  /\ Goes(s, "scan list", "scan")
  /\ UNCHANGED <<alive, regions, accesses, toSampler, mutex, regionsMutex, locals>>

ScanList(s) ==
  /\ regionsMutex = None
  /\ Goes(s, "scan list", "scan")
  /\ todo' = [todo EXCEPT ![s] = regions]
  /\ UNCHANGED <<alive, regions, accesses, toSampler, mutex, regionsMutex, pid, region, back>>

ScanPid(s) ==
  /\ \E p \in todo[s] :
        /\ todo' = [todo EXCEPT ![s] = @ \ {p}]
        /\ \/ /\ p \in alive
              /\ Goes(s, "scan", "scan region")
              /\ pid' = [pid EXCEPT ![s] = p]
              /\ region' = [region EXCEPT ![s] = 1]
              /\ UNCHANGED back
           \/ /\ p \notin alive
              /\ GoesToRemove(s, p, "scan", "scan")
              /\ UNCHANGED region
  /\ UNCHANGED <<alive, regions, accesses, toSampler, mutex, regionsMutex>>

ScanEnd(s) ==
  /\ todo[s] = {}
  /\ Goes(s, "scan", "clear list")
  /\ UNCHANGED <<alive, regions, accesses, toSampler, mutex, regionsMutex, locals>>

RegionLeft(s) == region[s] <= RegionCount[pid[s]]

\* A pagemap that cannot be read any more, as that of a process that has exited
\* since it was opened, ends the region early and is no error.
ScanRegion(s) ==
  /\ Goes(s, "scan region", "store")
  /\ RegionLeft(s)
  /\ UNCHANGED <<alive, regions, accesses, toSampler, mutex, regionsMutex, locals>>

ScanRegionsEnd(s) ==
  /\ Goes(s, "scan region", "scan")
  /\ ~RegionLeft(s)
  /\ UNCHANGED <<alive, regions, accesses, toSampler, mutex, regionsMutex, locals>>

\* The counts of a region are stored, without a look at the tracked processes:
\* zeros for a process that is gone, and for one that was removed meanwhile.
Store(s) ==
  /\ mutex = None
  /\ Goes(s, "store", "scan region")
  /\ accesses' = accesses \cup {<<pid[s], region[s]>>}
  /\ region' = [region EXCEPT ![s] = @ + 1]
  /\ UNCHANGED <<alive, regions, toSampler, mutex, regionsMutex, todo, pid, back>>

SamplerCleared(s) ==
  /\ todo[s] = {}
  /\ Goes(s, "clear", "select")
  /\ UNCHANGED <<alive, regions, accesses, toSampler, mutex, regionsMutex, locals>>

-----------------------------------------------------------------------------

ClientCall(c) ==
  \/ \E p \in Pids : AddPids(c, p) \/ RemovePids(c, p)
  \/ RemoveAllPids(c) \/ ResetCounters(c) \/ Start(c) \/ Stop(c)

ClientStep(c) ==
  \/ AddClear(c) \/ AddRanges(c) \/ AddRangesFails(c) \/ AddDead(c)
  \/ StartSampler(c) \/ StopSend(c)
  \/ RemoveRegions(c) \/ RemoveAccesses(c) \/ ClearList(c) \/ Clear(c)

SamplerStep(s) ==
  \/ SamplerReceive(s) \/ SamplerQuit(s) \/ SamplerTick(s)
  \/ UpdateList(s) \/ Update(s) \/ UpdateDead(s) \/ UpdateEnd(s)
  \/ Count(s) \/ CountFails(s) \/ ScanList(s) \/ ScanPid(s) \/ ScanEnd(s)
  \/ ScanRegion(s) \/ ScanRegionsEnd(s) \/ Store(s) \/ SamplerCleared(s)
  \/ RemoveRegions(s) \/ RemoveAccesses(s) \/ ClearList(s) \/ Clear(s)

Next == \/ \E p \in Pids : Die(p)
        \/ \E c \in Clients : ClientCall(c) \/ ClientStep(c)
        \/ \E s \in Samplers : SamplerStep(s)

Spec == Init /\ [][Next]_vars

\* A goroutine that waits for a Go mutex gets it in the end (its starvation
\* mode), and select takes each ready case in the end (it draws lots): hence
\* strong fairness.  Clients may call or not, and no process has to exit.
Fairness == /\ \A c \in Clients : SF_vars(ClientStep(c))
            /\ \A s \in Samplers : SF_vars(SamplerStep(s)) /\ SF_vars(SamplerReceive(s))

FairSpec == Spec /\ Fairness

-----------------------------------------------------------------------------
(* Properties *)

TypeOK ==
  /\ alive \subseteq Pids /\ regions \subseteq Pids /\ accesses \subseteq Pids \X (Nat \ {0})
  /\ toSampler \in {"nil", "empty", "full"}
  /\ mutex \in Clients \cup {None} /\ regionsMutex \in Actors \cup {None}
  /\ \A c \in Clients : pc[c] \in {"idle", "add clear", "add ranges", "add dead",
        "remove regions", "remove accesses", "clear list", "clear", "stop send"}
  /\ \A s \in Samplers : pc[s] \in {"off", "select", "quit", "update list", "update",
        "update dead", "count", "scan list", "scan", "scan region", "store",
        "remove regions", "remove accesses", "clear list", "clear"}
  /\ todo \in [Actors -> SUBSET Pids] /\ pid \in [Actors -> Pids \cup {None}]
  /\ \A s \in Samplers : region[s] \in Nat \ {0}

Live == {s \in Samplers : pc[s] # "off"}

\* While Start clears page bits it owns the mutex and has no sampler yet.
Starting == \E c \in Clients : mutex = c /\ pc[c] # "stop send"

\* However starts, stops and scans interleave there is one sampler exactly when
\* toSampler is not nil: Start never launches a second one beside a sampler
\* that has not yet seen its stop, and never refuses while none is left.
OneSampler ==
  /\ \A s, t \in Live : s = t
  /\ Live = {} <=> (toSampler = "nil" \/ Starting)

\* Start owns the mutex and meets a process that is gone: removePid wants it too.
SelfJam == \E c \in Clients : mutex = c /\ pc[c] = "remove accesses"

\* Start owns the mutex and wants regionsMutex, addRanges the other way round.
OrderJam == \E c, d \in Clients : /\ mutex = c /\ regionsMutex = d
                                  /\ pc[c] \in {"clear list", "remove regions"}
                                  /\ pc[d] = "add dead"

\* A second Stop owns the mutex and waits for the sampler to take the first one.
StopJam == \E c \in Clients : mutex = c /\ pc[c] = "stop send" /\ toSampler = "full"
               /\ \A s \in Live : \/ pc[s] \in {"quit", "count", "store", "update dead",
                                               "remove accesses"}
                                  \/ /\ pc[s] \in {"scan list", "update list", "clear list",
                                                   "remove regions"}
                                     /\ regionsMutex # None

Jammed == SelfJam \/ OrderJam \/ StopJam

\* Every call returns, unless the tracker has run into one of three deadlocks.
\* So these three are all the deadlocks there are.
CallsReturnUnlessJammed ==
  \A c \in Clients : pc[c] # "idle" ~> (pc[c] = "idle" \/ Jammed)

\* A round that begins to scan gives every single region of a process that stays
\* tracked a counter: in whatever order the processes are scanned, and whichever
\* of the others exit or are removed between two steps of the round.
TrackedIsCounted ==
  \A p \in Pids : \A i \in 1..RegionCount[p] :
     (p \in regions /\ \E s \in Samplers : pc[s] = "scan list")
        ~> (<<p, i>> \in accesses \/ p \notin regions \/ Jammed)
=============================================================================
