------------------------------ MODULE IdlePage ------------------------------
(***************************************************************************)
(* The idle-page tracker (pkg/memtier/tracker_idlepage.go) and the kernel's *)
(* idle page bitmap (pkg/memtier/proc.go).  In every scan the sampler      *)
(* counts the pages whose idle bit the hardware has cleared, and then      *)
(* marks pages idle again, 64 at a time.                                   *)
(*                                                                         *)
(* The counters are protected by a mutex.  The regions are not: clients    *)
(* that add processes write the map while the sampler goes through it.     *)
(* Numbers of accesses are abstracted to which processes have counters;    *)
(* which pages a scan has seen is kept, because properties are about it.   *)
(* The bitmap and the page flags may fail to be opened, read or written.   *)
(***************************************************************************)
EXTENDS Naturals, FiniteSets

CONSTANTS
  Clients,    \* goroutines that call the tracker
  Pids,       \* processes
  Pages,      \* present pages, numbers in the order of their addresses
  Owner,      \* Owner[pg]: the process that has the page
  Region,     \* Region[pg]: the region of at most PagesInRegion pages it is in
  Word,       \* Word[pg]: the number of the word of the bitmap for its frame
  Tails,      \* pages that are the tail of a compound page
  MaxCount,   \* config.MaxCountPerRegion
  Readahead,  \* config.BitmapReadahead, words
  Scenarios,  \* what each client calls, which processes are reported to them and exit,
              \* which pages are accessed, and whether the kernel's files may fail
  Sampler,    \* the sampler goroutine
  None        \* nobody owns the mutex, no process

OpNames == {"add", "remove", "remove all", "reset", "start", "stop"}

ASSUME ConstantsAssumption ==
  /\ Pages \subseteq Nat /\ Owner \in [Pages -> Pids] /\ Word \in [Pages -> Nat]
  /\ DOMAIN Region = Pages
  /\ \A a, b \in Pages : Region[a] = Region[b] => Owner[a] = Owner[b]
  /\ Tails \subseteq Pages /\ MaxCount \in Nat \ {0} /\ Readahead \in Nat
  /\ Scenarios \subseteq [ops : [Clients -> SUBSET OpNames], reported : SUBSET Pids,
                    mortal : SUBSET Pids, touched : SUBSET Pages,
                    fails : BOOLEAN]
  /\ Sampler \notin Clients /\ None \notin Clients \cup {Sampler} \cup Pids

Actors == Clients \cup {Sampler}

VARIABLES
  scenario,   \* the scenario, which does not change
  alive,      \* the processes that have not exited
  idle,       \* pages whose idle bit is set
  regions,    \* TrackerIdlePage.regions: the processes in the map ...
  empty,      \* ... and those of them that have no regions there yet
  accesses,   \* TrackerIdlePage.accesses: the processes with counters
  toSampler,  \* of capacity 1: "nil", "empty", "full" or "closed"
  mutex,      \* who holds it from one action to the next
  pc,         \* where each actor is
  pid,        \* the process an actor works on
  todo,       \* processes that are left in the loop of an actor
  replaced,   \* the sampler goes through a map that is not in its field any more
  left,       \* regions of its process that are left to the sampler
  cache,      \* words the scan has read or read ahead, and ...
  cached,     \* ... the pages with an idle bit in them
  alreadyIdle,  \* words that this run of setIdleBits has marked
  crashed,    \* the daemon is gone
  fresh,      \* history: pages accessed since they were marked, that no scan has counted or, as
              \* it had counted enough of their region, passed over
  skipped,    \* history: those that the scan of this round does not come to: first accessed
              \* after it had begun, or behind a failure to read
  tracked,    \* history: processes with regions since before that
  gone        \* history: processes removed while nobody was about to add them

tracking == <<regions, empty, accesses>>
kernel == <<scenario, alive, idle>>
history == <<fresh, skipped, tracked>>
scanning == <<left, cache, cached, alreadyIdle>>
vars == <<kernel, tracking, toSampler, mutex, pc, pid, todo, replaced, scanning, crashed, history, gone>>

Init ==
  /\ scenario \in Scenarios /\ alive = Pids /\ idle = {}
  /\ regions = {} /\ empty = {} /\ accesses = {} /\ toSampler = "nil" /\ mutex = None
  /\ pc = [a \in Actors |-> IF a = Sampler THEN "off" ELSE "idle"]
  /\ pid = [a \in Actors |-> None] /\ todo = [a \in Actors |-> {}] /\ replaced = FALSE
  /\ left = {} /\ cache = {} /\ cached = {} /\ alreadyIdle = {} /\ crashed = FALSE
  /\ fresh = {} /\ skipped = {} /\ tracked = {} /\ gone = {}

Goes(a, from, to) == pc[a] = from /\ pc' = [pc EXCEPT ![a] = to]
Calls(c, op, to) == op \in scenario.ops[c] /\ Goes(c, "idle", to)

-----------------------------------------------------------------------------
(* Processes *)

Die(p) ==
  /\ p \in alive \cap scenario.mortal /\ alive' = alive \ {p}
  /\ UNCHANGED <<scenario, idle, tracking, toSampler, mutex, pc, pid, todo, replaced, scanning,
                 crashed, history, gone>>

InRound == pc[Sampler] \in {"scan", "scan regions", "mark"}

\* Compound tail pages never get an idle bit cleared that anyone looks at.
Access(pg) ==
  /\ Owner[pg] \in alive /\ pg \in scenario.touched
  /\ idle' = idle \ {pg}
  /\ IF pg \in Tails \cup fresh THEN UNCHANGED <<fresh, skipped>>
     ELSE fresh' = fresh \cup {pg} /\ skipped' = IF InRound THEN skipped \cup {pg} ELSE skipped
  /\ UNCHANGED <<scenario, alive, tracking, toSampler, mutex, pc, pid, todo, replaced, scanning,
                 crashed, tracked, gone>>

-----------------------------------------------------------------------------
(* addRanges, of AddPids and of the sampler, without the mutex *)

\* A loop over the map does not come to what is deleted meanwhile, unless the map is
\* not in its field any more.
NotInLoops(p) == todo' = IF replaced THEN todo ELSE [a \in Actors |-> todo[a] \ {p}]

\* A process that is in the map has no regions for a moment.
AddRangesBegin(a, p) ==
  /\ regions' = regions \cup {p} /\ empty' = empty \cup {p}
  /\ pid' = [pid EXCEPT ![a] = p]
  /\ tracked' = tracked \ {p}
  /\ UNCHANGED <<kernel, accesses, toSampler, mutex, replaced, scanning, crashed, fresh, skipped>>

\* Whoever has removed the process meanwhile is not asked.
AddRangesEnd(a, from, to) ==
  /\ pid[a] \in alive /\ Goes(a, from, to)
  /\ regions' = regions \cup {pid[a]} /\ empty' = empty \ {pid[a]}
  /\ UNCHANGED <<kernel, accesses, toSampler, mutex, pid, todo, replaced, scanning, crashed, history, gone>>

AddRangesFails(a, from, to) ==
  /\ pid[a] \notin alive /\ Goes(a, from, to)
  /\ regions' = regions \ {pid[a]} /\ empty' = empty \ {pid[a]}
  /\ NotInLoops(pid[a])
  /\ UNCHANGED <<kernel, accesses, toSampler, mutex, pid, replaced, scanning, crashed, history, gone>>

ForgetDead(a, from, to) ==
  /\ mutex = None /\ Goes(a, from, to)
  /\ accesses' = accesses \ {pid[a]}
  /\ UNCHANGED <<kernel, regions, empty, toSampler, mutex, pid, todo, replaced, scanning, crashed, history,
                 gone>>

-----------------------------------------------------------------------------
(* Calls *)

\* setIdleBits begins to go through the regions, if the bitmap can be opened.
SetIdleBits(a) ==
  /\ \/ todo' = [todo EXCEPT ![a] = regions]
     \/ scenario.fails /\ todo' = [todo EXCEPT ![a] = {}]
  /\ replaced' = FALSE

AddPids(c, p) ==
  /\ p \in scenario.reported /\ Calls(c, "add", "add ranges") /\ AddRangesBegin(c, p)
  /\ gone' = gone \ {p} /\ UNCHANGED todo

\* Somebody is in the middle of addRanges of p.
Adding(p) == \E a \in Actors : pid[a] = p /\ pc[a] \in {"add ranges", "update ranges"}

\* removePid
RemovePid(p) ==
  /\ regions' = regions \ {p} /\ empty' = empty \ {p} /\ accesses' = accesses \ {p}
  /\ tracked' = tracked \ {p}
  /\ gone' = IF Adding(p) \/ (replaced /\ p \in todo[Sampler]) THEN gone ELSE gone \cup {p}

\* Mutant: the sampler goes through a copy of the keys.
RemovePidsFromMapOnly(c, p) ==
  /\ Calls(c, "remove", "idle") /\ mutex = None /\ RemovePid(p) /\ UNCHANGED todo
  /\ UNCHANGED <<kernel, toSampler, mutex, pid, replaced, scanning, crashed, fresh, skipped>>

RemovePids(c, p) ==
  /\ Calls(c, "remove", "idle") /\ mutex = None /\ RemovePid(p) /\ NotInLoops(p)
  /\ UNCHANGED <<kernel, toSampler, mutex, pid, replaced, scanning, crashed, fresh, skipped>>

\* RemovePids(nil) puts a new map in the place of the one the sampler goes through.
RemoveAllPids(c) ==
  /\ Calls(c, "remove all", "idle")
  /\ regions' = {} /\ empty' = {} /\ tracked' = {}
  /\ gone' = gone \cup {p \in Pids : ~Adding(p) /\ p \notin todo[Sampler]}
  /\ replaced' = (\E a \in Actors : todo[a] # {})
  /\ UNCHANGED <<kernel, accesses, toSampler, mutex, pid, todo, scanning, crashed, fresh, skipped>>

ResetCounters(c) ==
  /\ Calls(c, "reset", "idle") /\ mutex = None /\ accesses' = {}
  /\ UNCHANGED <<kernel, regions, empty, toSampler, mutex, pid, todo, replaced, scanning, crashed, history,
                 gone>>

\* Start fails as long as there is a channel, and marks pages with the mutex locked.
Start(c) ==
  /\ Calls(c, "start", "mark") /\ mutex = None /\ toSampler = "nil"
  /\ mutex' = c /\ toSampler' = "empty"
  /\ SetIdleBits(c)
  /\ UNCHANGED <<kernel, tracking, pid, scanning, crashed, history, gone>>

\* Mutant: Start returns without unlocking.
StartSamplerLocked(c) ==
  /\ pc[c] = "mark" /\ todo[c] = {}
  /\ pc' = [pc EXCEPT ![c] = "idle", ![Sampler] = "select"] /\ alreadyIdle' = {}
  /\ UNCHANGED <<kernel, tracking, toSampler, mutex, pid, todo, replaced, left, cache, cached, crashed,
                 history, gone>>

StartSampler(c) ==
  /\ pc[c] = "mark" /\ todo[c] = {}
  /\ mutex' = None /\ pc' = [pc EXCEPT ![c] = "idle", ![Sampler] = "select"]
  /\ alreadyIdle' = {}
  /\ UNCHANGED <<kernel, tracking, toSampler, pid, todo, replaced, left, cache, cached, crashed, history,
                 gone>>

Stop(c) ==
  /\ Calls(c, "stop", "stop send") /\ mutex = None /\ toSampler # "nil" /\ mutex' = c
  /\ UNCHANGED <<kernel, tracking, toSampler, pid, todo, replaced, scanning, crashed, history, gone>>

\* The channel may have been closed, or be gone, since Stop looked.
StopSend(c) ==
  /\ toSampler \in {"empty", "closed"} /\ Goes(c, "stop send", "idle")
  /\ mutex' = None
  /\ crashed' = (toSampler = "closed")
  /\ toSampler' = IF toSampler = "empty" THEN "full" ELSE toSampler
  /\ UNCHANGED <<kernel, tracking, pid, todo, replaced, scanning, history, gone>>

-----------------------------------------------------------------------------
(* The sampler *)

Receive ==
  /\ toSampler = "full" /\ Goes(Sampler, "select", "close") /\ toSampler' = "empty"
  /\ UNCHANGED <<kernel, tracking, mutex, pid, todo, replaced, scanning, crashed, history, gone>>

Close ==
  /\ Goes(Sampler, "close", "forget") /\ toSampler' = "closed"
  /\ UNCHANGED <<kernel, tracking, mutex, pid, todo, replaced, scanning, crashed, history, gone>>

ForgetChannel ==
  /\ Goes(Sampler, "forget", "off") /\ toSampler' = "nil"
  /\ UNCHANGED <<kernel, tracking, mutex, pid, todo, replaced, scanning, crashed, history, gone>>

\* A tick of the scan interval, with or without an update of the regions.
Tick ==
  /\ \/ Goes(Sampler, "select", "count") /\ UNCHANGED todo
     \/ Goes(Sampler, "select", "update") /\ todo' = [todo EXCEPT ![Sampler] = regions]
  /\ replaced' = FALSE
  /\ UNCHANGED <<kernel, tracking, toSampler, mutex, pid, scanning, crashed, history, gone>>

Update(p) ==
  /\ p \in todo[Sampler] /\ Goes(Sampler, "update", "update ranges")
  /\ todo' = [todo EXCEPT ![Sampler] = @ \ {p}]
  /\ AddRangesBegin(Sampler, p) /\ UNCHANGED gone

UpdateEnd ==
  /\ todo[Sampler] = {} /\ Goes(Sampler, "update", "count")
  /\ UNCHANGED <<kernel, tracking, toSampler, mutex, pid, todo, replaced, scanning, crashed, history, gone>>

\* countPages, which reads the bitmap anew.
Count ==
  /\ mutex = None /\ Goes(Sampler, "count", "scan") /\ mutex' = Sampler
  /\ todo' = [todo EXCEPT ![Sampler] = regions] /\ replaced' = FALSE
  /\ skipped' = {} /\ tracked' = regions \ empty
  /\ UNCHANGED <<kernel, tracking, toSampler, pid, scanning, crashed, fresh, gone>>

\* The page flags or the bitmap cannot be opened: nothing is counted in this round.
CountFails ==
  /\ scenario.fails /\ mutex = None /\ Goes(Sampler, "count", "mark")
  /\ SetIdleBits(Sampler)
  /\ skipped' = fresh /\ tracked' = regions \ empty
  /\ UNCHANGED <<kernel, tracking, toSampler, mutex, pid, scanning, crashed, fresh, gone>>

RegionsOf(p) == {Region[pg] : pg \in {pg \in Pages : Owner[pg] = p}}

\* A process that cannot be read is removed: with the mutex, which the sampler holds.
Scan(p) ==
  /\ p \in todo[Sampler]
  /\ Goes(Sampler, "scan", IF p \in alive THEN "scan regions" ELSE "jammed")
  /\ todo' = [todo EXCEPT ![Sampler] = @ \ {p}]
  /\ pid' = [pid EXCEPT ![Sampler] = p]
  /\ left' = IF p \in empty /\ ~replaced THEN {} ELSE RegionsOf(p)
  /\ UNCHANGED <<kernel, tracking, toSampler, mutex, replaced, cache, cached, alreadyIdle, crashed, history,
                 gone>>

\* The idle bit as the scan knows it.
IsIdle(pg) == pg \in IF Word[pg] \in cache THEN cached ELSE idle

IsCounted(pg) == ~IsIdle(pg) /\ pg \notin Tails

\* GetIdle of these pages of a region.
ReadBits(pages) ==
  LET words == IF Readahead = 0 THEN {}
               ELSE UNION {Word[pg] .. (Word[pg] + Readahead) : pg \in {q \in pages : Word[q] \notin cache}}
  IN /\ cache' = cache \cup words
     /\ cached' = {pg \in cached : Word[pg] \notin words} \cup {pg \in idle : Word[pg] \in words}

\* ForEachPage over a region, up to the page that is one too many.  Of a process that
\* has exited nothing can be read, which is not an error.  If GetIdle or ReadFlags fails
\* for a page, nothing more of the region is read, and that is not an error, either.
ScanRegion(r) ==
  LET pages == {pg \in Pages : Region[pg] = r /\ pid[Sampler] \in alive}
      before(pg) == {q \in pages : q < pg}
      counted(qs) == {q \in qs : IsCounted(q)}
      visited == {pg \in pages : Cardinality(counted(before(pg))) < MaxCount}
  IN
  /\ pc[Sampler] = "scan regions" /\ r \in left /\ left' = left \ {r}
  /\ accesses' = accesses \cup {pid[Sampler]}
  /\ \/ /\ ReadBits(visited)
        /\ fresh' = fresh \ (counted(visited) \cup (pages \ visited))
        /\ skipped' = skipped \cap fresh'
     \/ \E pg \in visited :
          /\ scenario.fails
          /\ \/ ReadBits(before(pg)) /\ Word[pg] \notin cache'
             \/ ReadBits(before(pg) \cup {pg}) /\ ~IsIdle(pg)
          /\ fresh' = fresh \ counted(before(pg))
          /\ skipped' = fresh' \cap (skipped \cup (pages \ before(pg)))
  /\ UNCHANGED <<kernel, regions, empty, toSampler, mutex, pc, pid, todo, replaced, alreadyIdle, crashed,
                 tracked, gone>>

ScanRegionsEnd ==
  /\ left = {} /\ Goes(Sampler, "scan regions", "scan")
  /\ UNCHANGED <<kernel, tracking, toSampler, mutex, pid, todo, replaced, scanning, crashed, history, gone>>

\* Mutant: what was read of the bitmap is kept for the next scan.
ScanEndKeepsCache ==
  /\ todo[Sampler] = {} /\ Goes(Sampler, "scan", "mark")
  /\ mutex' = None
  /\ SetIdleBits(Sampler)
  /\ UNCHANGED <<kernel, tracking, toSampler, pid, scanning, crashed, history, gone>>

\* The end of countPages, which closes the bitmap; setIdleBits follows without the mutex.
ScanEnd ==
  /\ todo[Sampler] = {} /\ Goes(Sampler, "scan", "mark")
  /\ mutex' = None
  /\ SetIdleBits(Sampler)
  /\ cache' = {} /\ cached' = {}
  /\ UNCHANGED <<kernel, tracking, toSampler, pid, left, alreadyIdle, crashed, history, gone>>

\* SetIdleAll marks whole words: the pages of others, too.
SetIdleAll(words) == {pg \in Pages : Word[pg] \in words}

\* What ForEachPage may come to, if marking one page ends the region it is in.
Reached(pages) ==
  {reached \in SUBSET pages :
     \A pg \in reached, q \in pages : Region[q] = Region[pg] /\ q < pg => q \in reached}

\* setIdleBits of a process; a word is marked once in a run.
Mark(a, p) ==
  LET pages == {pg \in Pages : Owner[pg] = p /\ ~(p \in empty /\ ~replaced)} IN
  /\ pc[a] = "mark" /\ p \in todo[a] \cap alive
  /\ todo' = [todo EXCEPT ![a] = @ \ {p}]
  /\ \E reached \in Reached(pages) :
       LET words == {Word[pg] : pg \in reached}
           marked == SetIdleAll(words \ alreadyIdle)
       IN /\ scenario.fails \/ reached = pages
          /\ alreadyIdle' = alreadyIdle \cup words
          /\ idle' = idle \cup marked /\ fresh' = fresh \ marked /\ skipped' = skipped \ marked
  /\ UNCHANGED <<scenario, alive, tracking, toSampler, mutex, pc, pid, replaced, left, cache, cached,
                 crashed, tracked, gone>>

\* A dead process is removed: Start holds the mutex already.
MarkDead(a, p) ==
  /\ p \in todo[a] \ alive
  /\ todo' = [todo EXCEPT ![a] = @ \ {p}]
  /\ IF mutex = a
     THEN /\ Goes(a, "mark", "jammed")
          /\ UNCHANGED <<tracking, tracked, gone>>
     ELSE /\ mutex = None /\ Goes(a, "mark", "mark")
          /\ RemovePid(p)
  /\ UNCHANGED <<kernel, toSampler, mutex, pid, replaced, scanning, crashed, fresh, skipped>>

MarkEnd ==
  /\ todo[Sampler] = {} /\ Goes(Sampler, "mark", "select")
  /\ skipped' = {} /\ tracked' = {} /\ alreadyIdle' = {}
  /\ UNCHANGED <<kernel, tracking, toSampler, mutex, pid, todo, replaced, left, cache, cached, crashed,
                 fresh, gone>>

\* Two goroutines use the map at the same time and one of them writes it: the runtime
\* may notice, and end the program.
MapRace ==
  /\ \E c \in Clients, a \in Actors :
       a # c /\ pc[c] = "add ranges" /\ pc[a] \in {"add ranges", "update", "update ranges", "scan", "mark"}
  /\ crashed' = TRUE
  /\ UNCHANGED <<kernel, tracking, toSampler, mutex, pc, pid, todo, replaced, scanning, history, gone>>

-----------------------------------------------------------------------------
Call(c) ==
  \/ \E p \in Pids : AddPids(c, p) \/ RemovePids(c, p)
  \/ RemoveAllPids(c) \/ ResetCounters(c) \/ Start(c) \/ Stop(c)

Marking(a) == \E p \in Pids : Mark(a, p) \/ MarkDead(a, p)

CallStep(c) ==
  \/ AddRangesEnd(c, "add ranges", "idle") \/ AddRangesFails(c, "add ranges", "add dead")
  \/ ForgetDead(c, "add dead", "idle")
  \/ Marking(c) \/ StartSampler(c) \/ StopSend(c)

SamplerStep ==
  \/ Close \/ ForgetChannel \/ UpdateEnd \/ Count \/ CountFails \/ ScanRegionsEnd \/ ScanEnd \/ MarkEnd
  \/ \E p \in Pids : Update(p) \/ Scan(p)
  \/ AddRangesEnd(Sampler, "update ranges", "update")
  \/ AddRangesFails(Sampler, "update ranges", "update dead")
  \/ ForgetDead(Sampler, "update dead", "update")
  \/ \E pg \in Pages : ScanRegion(Region[pg])
  \/ Marking(Sampler)

Environment == (\E p \in Pids : Die(p)) \/ \E pg \in Pages : Access(pg)

Next ==
  /\ ~crashed
  /\ \/ Environment \/ Receive \/ Tick \/ SamplerStep \/ MapRace
     \/ \E c \in Clients : Call(c) \/ CallStep(c)

Spec == Init /\ [][Next]_vars

\* Goroutines run and the ticker ticks.  A goroutine that waits for the mutex gets it in
\* the end, and the select takes what is in the channel in the end.
FairSpec ==
  /\ Spec
  /\ \A c \in Clients : SF_vars(~crashed /\ CallStep(c))
  /\ SF_vars(~crashed /\ SamplerStep) /\ WF_vars(~crashed /\ Tick) /\ SF_vars(~crashed /\ Receive)

-----------------------------------------------------------------------------
(* Properties *)

ClientPlaces == {"idle", "add ranges", "add dead", "mark", "stop send", "jammed"}
SamplerPlaces == {"off", "select", "close", "forget", "update", "update ranges", "update dead", "count",
                  "scan", "scan regions", "mark", "jammed"}

\* The values of the variables.  There is a channel exactly while there is a sampler or
\* somebody is about to start it, and the actors that are in a place with the mutex are
\* its owner.
TypeOK ==
  /\ scenario \in Scenarios /\ alive \subseteq Pids /\ idle \subseteq Pages
  /\ empty \subseteq regions /\ regions \subseteq Pids /\ accesses \subseteq Pids
  /\ toSampler \in {"nil", "empty", "full", "closed"}
  /\ pc[Sampler] \in SamplerPlaces /\ \A c \in Clients : pc[c] \in ClientPlaces
  /\ \A c \in Clients : pc[c] \in {"mark", "stop send", "jammed"} <=> mutex = c
  /\ pc[Sampler] \in {"scan", "scan regions"} => mutex = Sampler
  /\ (toSampler = "nil") <=> (pc[Sampler] = "off" /\ \A c \in Clients : pc[c] \notin {"mark", "jammed"})
  /\ skipped \subseteq fresh /\ tracked \subseteq Pids

\* An access to a page of a process that runs and is tracked throughout the round is counted,
\* or its region has had as many as are counted, or the scan did not come to it: because it
\* came after the scan had begun, or is behind a page of its region where reading failed.
\* Marking whole words loses nothing else, not even to neighbours of other processes,
\* because everything is counted before anything is marked.
LostOnlyMeanwhile ==
  [][pc[Sampler] = "mark" =>
       \A pg \in fresh \ fresh' : pg \in skipped \/ Owner[pg] \notin tracked \cap alive]_vars

\* A process that was removed while nobody was about to add it stays away, until somebody
\* adds it again: neither an update of the regions nor a scan brings it back.
RemovedStaysAway == gone \cap regions = {}

\* Somebody waits for a mutex that its owner will never unlock: removePid was called with
\* the mutex locked, or Stop sends to a channel nobody will read.
Jammed ==
  \/ \E a \in Actors : pc[a] = "jammed"
  \/ \E c \in Clients :
       /\ pc[c] = "stop send"
       /\ \/ toSampler = "nil"
          \/ /\ toSampler = "full"
             /\ pc[Sampler] \in {"count", "update dead"} \/ (pc[Sampler] = "mark" /\ todo[Sampler] \ alive # {})

\* Whoever has the mutex unlocks it, so that calls that wait for it begin, and every
\* process that was to be added is added or forgotten, unless a process exited at the
\* wrong moment, or two stops came too quickly one after the other.
CallsReturnUnlessJammed ==
  /\ mutex # None ~> mutex = None \/ Jammed \/ crashed
  /\ \A c \in Clients :
       pc[c] \in {"add ranges", "add dead"} ~> pc[c] = "idle" \/ Jammed \/ crashed
=============================================================================
