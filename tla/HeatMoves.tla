----------------------------- MODULE HeatMoves -----------------------------
(***************************************************************************)
(* How the heat policy moves memory (pkg/memtier/policy_heat.go): in every *)
(* round of its loop it takes the ranges of the heatmap, from hot to cold, *)
(* and schedules those that are on a node their heat is not meant for.     *)
(*                                                                         *)
(* The policy looks where pages are only once and keeps a book of it       *)
(* (pidAddrDatas), in which a range that is scheduled has arrived already. *)
(* From the book it keeps account of how much of each node is used.        *)
(* Meanwhile the mover works, memory is swapped in and allocated, and      *)
(* processes exit.  The heatmap itself is in modules Heatmap and           *)
(* HeatTracking, the mover in Mover: here the one takes any of a few       *)
(* values, and the other moves a task at once.                             *)
(***************************************************************************)
EXTENDS AddrDatas, Integers

CONSTANTS
  Pids,       \* processes
  AllPages,   \* the pages of a process, numbers from 1
  Nodes,      \* NUMA nodes
  Swap,       \* NodeSwap
  Absent,     \* the place of a page that is not there
  MaxUsed,    \* bound on what the account of a node is told apart to
  Scenarios,  \* where pages are at first, heatmaps and HeatNumas that may come, NumaSize,
              \* a bound on the pages that come and go, whether processes exit, and
              \* whether moves fail
  NoTask      \* the handler has no task in hand

Places == Nodes \cup {Swap}

ASSUME ConstantsAssumption ==
  /\ IsFiniteSet(Pids) /\ IsFiniteSet(AllPages) /\ AllPages \subseteq Nat \ {0} /\ MaxUsed \in Nat
  /\ Swap \notin Nodes /\ {Absent, Undefined} \cap Places = {}
  /\ \A s \in Scenarios :
       /\ s.at \in [Pids -> [AllPages -> Places \cup {Absent}]]
       /\ \A m \in s.heatmaps, p \in Pids :
            /\ m[p] \in Seq([addr : Nat, length : Nat, heat : Nat]) /\ IsProper(m[p])
            /\ \A i \in DOMAIN m[p] : PagesIn(m[p][i]) \subseteq AllPages
            /\ \A c \in s.configs, i \in DOMAIN m[p] : m[p][i].heat \in DOMAIN c
       /\ \A c \in s.configs : Range(c) \subseteq Seq(Places)
       /\ DOMAIN s.numaSize \subseteq Nodes /\ Range(s.numaSize) \subseteq Nat

VARIABLES
  scenario,   \* the scenario, which does not change
  alive,      \* the processes that have not exited
  at,         \* at[p][pg]: where the page is
  changes,    \* pages that have come and gone so far, up to scenario.changes
  pidHrs,     \* the heatmap: lists of ranges with a heat
  heatNumas,  \* config.HeatNumas: the nodes for each heat class, a sequence
  datas,      \* PolicyHeat.pidAddrDatas: the book
  numaUsed,   \* PolicyHeat.numaUsed of the nodes with a limit: nothing reads the others
  pc,         \* where the loop is
  pid,        \* the process the loop plans for
  pids,       \* processes that are left in this round
  ranges,     \* ranges that are left of the process, from hot to cold
  tasks,      \* the mover's list
  inHand      \* the task its handler has popped

memory == <<scenario, alive, at, changes>>
config == <<pidHrs, heatNumas>>
book == <<datas, numaUsed>>
loop == <<pc, pid, pids, ranges>>
mover == <<tasks, inHand>>
vars == <<memory, config, book, loop, mover>>

Limited == DOMAIN scenario.numaSize

Init ==
  /\ scenario \in Scenarios /\ alive = Pids /\ at = scenario.at /\ changes = 0
  /\ pidHrs = [p \in Pids |-> <<>>] /\ heatNumas \in scenario.configs
  /\ datas = [p \in Pids |-> <<>>] /\ numaUsed = [n \in Limited |-> 0]
  /\ pc = "update" /\ pid \in Pids /\ pids = {} /\ ranges = <<>>
  /\ tasks = <<>> /\ inHand = NoTask

-----------------------------------------------------------------------------
(* Memory *)

\* A page is swapped in, allocated, or given back.
PageMoves(p, pg, place) ==
  /\ p \in alive /\ changes < scenario.changes /\ changes' = changes + 1
  /\ \/ at[p][pg] \in {Swap, Absent} /\ place \in Nodes
     \/ at[p][pg] \in Nodes /\ place = Absent
  /\ at' = [at EXCEPT ![p][pg] = place]
  /\ UNCHANGED <<scenario, alive, config, book, loop, mover>>

Exit(p) ==
  /\ scenario.exits /\ p \in alive /\ alive' = alive \ {p}
  /\ at' = [at EXCEPT ![p] = [pg \in AllPages |-> Absent]]
  /\ UNCHANGED <<scenario, changes, config, book, loop, mover>>

\* The bits of the page in pagemap have it present and exclusive.
BitsSatisfied(p, pg) == at[p][pg] \in Nodes

\* What can be moved of a range: its pages that are in memory.
PagesMatching(p, r) == {pg \in PagesIn(r) : BitsSatisfied(p, pg)}

-----------------------------------------------------------------------------
(* The loop *)

\* A new configuration of a policy that may be running: nothing is known to be used on
\* any node, while the book is kept.
SetConfig(numas) ==
  /\ numas \in scenario.configs /\ numas # heatNumas
  /\ heatNumas' = numas /\ numaUsed' = [n \in Limited |-> 0]
  /\ UNCHANGED <<memory, pidHrs, datas, loop, mover>>

\* Counters are read, the heatmap is updated, and maybe replaced by a forecast.
UpdateHeatmap(heatmap) ==
  /\ pc = "update" /\ pc' = "paged out"
  /\ pidHrs' = heatmap
  /\ UNCHANGED <<memory, heatNumas, book, pid, pids, ranges, mover>>

\* Mutant: one page that came back brings all ranges of the process back.
SwappedInAnywhere(p, r) ==
  r.data = Swap /\ \E i \in DOMAIN datas[p] : /\ datas[p][i].data = Swap
                                              /\ \E pg \in PagesIn(datas[p][i]) : at[p][pg] # Swap

SwappedIn(p, r) == r.data = Swap /\ \E pg \in PagesIn(r) : at[p][pg] # Swap

\* updatePagedOutLocations: nothing is known of a range of which one page is not, or no
\* longer, swapped out.
UpdatePagedOutLocations ==
  /\ pc = "paged out" /\ pc' = "start"
  /\ datas' = [p \in Pids |->
       IF p \notin alive THEN datas[p]
       ELSE [i \in DOMAIN datas[p] |->
               IF SwappedIn(p, datas[p][i]) THEN [datas[p][i] EXCEPT !.data = Undefined]
               ELSE datas[p][i]]]
  /\ UNCHANGED <<memory, config, numaUsed, pid, pids, ranges, mover>>

\* startMoves, unless the mover has tasks.  The one it has in hand is not in the list.
StartMoves ==
  /\ pc = "start"
  /\ IF tasks = <<>> THEN pc' = "moves" /\ pids' = {p \in Pids : pidHrs[p] # <<>>}
     ELSE pc' = "update" /\ UNCHANGED pids
  /\ UNCHANGED <<memory, config, book, pid, ranges, mover>>

Hotter(x, y) == x.heat > y.heat \/ (x.heat = y.heat /\ x.addr < y.addr)

\* The ranges of a heatmap in the order of Sorted, which is one.
HotToCold(hrs) ==
  {s \in [DOMAIN hrs -> Range(hrs)] : \A i, j \in DOMAIN s : i < j => Hotter(s[i], s[j])}

NextProcess(p) ==
  /\ pc = "moves" /\ ranges = <<>> /\ p \in pids
  /\ pid' = p /\ pids' = pids \ {p} /\ ranges' \in HotToCold(pidHrs[p])
  /\ UNCHANGED <<memory, config, book, pc, mover>>

EndMoves ==
  /\ pc = "moves" /\ ranges = <<>> /\ pids = {} /\ pc' = "update"
  /\ UNCHANGED <<memory, config, book, pid, pids, ranges, mover>>

-----------------------------------------------------------------------------
(* A range *)

\* The contiguous pages from pg on that are on one node.
RunFrom(p, pages, pg) ==
  LET run == {q \in pages : q >= pg /\ \A i \in pg .. q : i \in pages /\ at[p][i] = at[p][pg]}
  IN [addr |-> pg, length |-> Cardinality(run), data |-> at[p][pg]]

Ascending(S) ==
  {s \in [1 .. Cardinality(S) -> S] : \A i, j \in DOMAIN s : i < j => s[i] < s[j]}

\* What startMoves finds where nothing was known of the first page: one list.
Runs(p, r) ==
  LET pages == PagesMatching(p, r)
      starts == {pg \in pages : pg - 1 \notin pages \/ at[p][pg - 1] # at[p][pg]}
  IN {[i \in DOMAIN first |-> RunFrom(p, pages, first[i])] : first \in Ascending(starts)}

Used(used, node, pages) == IF node \in Limited THEN [used EXCEPT ![node] = @ + pages] ELSE used

\* The i-th run is noted.  It is noticed to have ended at the first page of the next one,
\* and is counted on the node of that.
NoteRun(look, runs, i) ==
  [node |-> look.node, noted |-> SetData(look.noted, runs[i]),
   used |-> Used(look.used, runs[IF i = Len(runs) THEN i ELSE i + 1].data, runs[i].length)]

NoteRuns(p, runs) ==
  LET note(look, i) == NoteRun(look, runs, i)
  IN FoldLeft(note, [node |-> runs[Len(runs)].data, noted |-> datas[p], used |-> numaUsed],
              [i \in DOMAIN runs |-> i])

\* The length of the range counts twice, here and where it is compared with.
Free(n, r, used) ==
  IF n \in Limited THEN scenario.numaSize[n] - used[n] - r.length ELSE 0

\* The first of the nodes with most free space, if the range fits there.
Destinations(r, used) ==
  LET numas == heatNumas[r.heat]
      free(i) == Free(numas[i], r, used)
      best == {i \in DOMAIN numas : free(i) >= 0 /\ \A j \in DOMAIN numas : free(j) <= free(i)}
      fits(n) == n \in Limited => Free(n, r, used) >= r.length
  IN {n \in {numas[Min(best)] : i \in best} : fits(n)}

\* Where the start of a range is and, if it had to be looked for, what is noted then: the
\* last page counts as the start.
Look(p, r) ==
  LET known == Data(datas[p], r.addr) IN
  IF known # Undefined \/ PagesMatching(p, r) = {}
  THEN {[node |-> known, noted |-> datas[p], used |-> numaUsed]}
  ELSE {NoteRuns(p, runs) : runs \in Runs(p, r)}

\* Numbers larger than MaxUsed are not told apart.
Bounded(n) == IF n > MaxUsed THEN MaxUsed ELSE IF n < -MaxUsed THEN -MaxUsed ELSE n
Account(used) == [n \in Limited |-> Bounded(used[n])]

\* Mutant: what is scheduled is not noted.
PlanForgetful(p, r) ==
  \E look \in Look(p, r) :
    LET dests == IF look.node \in Range(heatNumas[r.heat]) \cup {Undefined} THEN {}
                 ELSE Destinations(r, look.used)
    IN
    \/ /\ dests = {} \/ PagesMatching(p, r) = {}
       /\ datas' = [datas EXCEPT ![p] = look.noted] /\ numaUsed' = Account(look.used)
       /\ UNCHANGED mover
    \/ /\ PagesMatching(p, r) # {}
       /\ \E dest \in dests :
            /\ tasks' = Append(tasks, [pid |-> p, pages |-> PagesMatching(p, r), to |-> dest])
            /\ datas' = [datas EXCEPT ![p] = look.noted]
            /\ numaUsed' = Account(look.used)
       /\ UNCHANGED inHand

\* Mutant: pages are not taken off the account of the node they leave.
PlanCountingOnly(p, r) ==
  \E look \in Look(p, r) :
    LET dests == IF look.node \in Range(heatNumas[r.heat]) \cup {Undefined} THEN {}
                 ELSE Destinations(r, look.used)
    IN
    \/ /\ dests = {} \/ PagesMatching(p, r) = {}
       /\ datas' = [datas EXCEPT ![p] = look.noted] /\ numaUsed' = Account(look.used)
       /\ UNCHANGED mover
    \/ /\ PagesMatching(p, r) # {}
       /\ \E dest \in dests :
            /\ tasks' = Append(tasks, [pid |-> p, pages |-> PagesMatching(p, r), to |-> dest])
            /\ datas' = [datas EXCEPT ![p] =
                           SetData(look.noted, [addr |-> r.addr, length |-> r.length, data |-> dest])]
            /\ numaUsed' = Account(Used(look.used, dest, r.length))
       /\ UNCHANGED inHand

\* A range that is not on a node meant for it is scheduled.  Where the rest of it is does
\* not matter.
Plan(p, r) ==
  \E look \in Look(p, r) :
    LET dests == IF look.node \in Range(heatNumas[r.heat]) \cup {Undefined} THEN {}
                 ELSE Destinations(r, look.used)
    IN
    \/ /\ dests = {} \/ PagesMatching(p, r) = {}
       /\ datas' = [datas EXCEPT ![p] = look.noted] /\ numaUsed' = Account(look.used)
       /\ UNCHANGED mover
    \/ /\ PagesMatching(p, r) # {}
       /\ \E dest \in dests :
            /\ tasks' = Append(tasks, [pid |-> p, pages |-> PagesMatching(p, r), to |-> dest])
            /\ datas' = [datas EXCEPT ![p] =
                           SetData(look.noted, [addr |-> r.addr, length |-> r.length, data |-> dest])]
            /\ numaUsed' = Account(Used(Used(look.used, dest, r.length), look.node, -r.length))
       /\ UNCHANGED inHand

\* Mutant: a range that is not scheduled is the last one, a return instead of a continue.
PlanRangeOrGiveUp ==
  /\ pc = "moves" /\ ranges # <<>>
  /\ IF pid \notin alive \/ heatNumas[Head(ranges).heat] = <<>> THEN UNCHANGED <<book, mover>>
     ELSE Plan(pid, Head(ranges))
  /\ ranges' = IF tasks' = tasks THEN <<>> ELSE Tail(ranges)
  /\ UNCHANGED <<memory, config, pc, pid, pids>>

\* Nothing is done for a heat that is not mapped to nodes, or if the process has exited.
PlanRange ==
  /\ pc = "moves" /\ ranges # <<>> /\ ranges' = Tail(ranges)
  /\ IF pid \notin alive \/ heatNumas[Head(ranges).heat] = <<>> THEN UNCHANGED <<book, mover>>
     ELSE Plan(pid, Head(ranges))
  /\ UNCHANGED <<memory, config, pc, pid, pids>>

-----------------------------------------------------------------------------
(* The mover *)

PopTask ==
  /\ tasks # <<>> /\ inHand = NoTask
  /\ inHand' = Last(tasks) /\ tasks' = Front(tasks)
  /\ UNCHANGED <<memory, config, book, loop>>

MoveTask ==
  LET movable == {pg \in inHand.pages : at[inHand.pid][pg] \in Nodes} IN
  /\ inHand # NoTask /\ inHand' = NoTask
  /\ \E moved \in SUBSET movable :
       /\ scenario.fails \/ moved = movable
       /\ at' = [at EXCEPT ![inHand.pid] =
                   [pg \in AllPages |-> IF pg \in moved THEN inHand.to ELSE @[pg]]]
  /\ UNCHANGED <<scenario, alive, changes, config, book, loop, tasks>>

-----------------------------------------------------------------------------
Environment ==
  \/ \E p \in Pids : Exit(p) \/ \E pg \in AllPages, place \in Nodes \cup {Absent} : PageMoves(p, pg, place)
  \/ \E numas \in scenario.configs : SetConfig(numas)

Round ==
  \/ \E heatmap \in scenario.heatmaps : UpdateHeatmap(heatmap)
  \/ UpdatePagedOutLocations \/ StartMoves \/ EndMoves
  \/ \E p \in Pids : NextProcess(p)
  \/ PlanRange

Move == PopTask \/ MoveTask

Next == Environment \/ Round \/ Move

Spec == Init /\ [][Next]_vars

\* The ticker ticks and goroutines run.  The loop can always take a step, and only Round
\* changes its state: that it goes on is WF_vars(Round), without an ENABLED to evaluate.
FairSpec == Spec /\ []<><<Round>>_loop /\ WF_vars(PopTask) /\ WF_vars(MoveTask)

-----------------------------------------------------------------------------
(* Properties *)

\* The values of the variables; the book of each process is sorted, without overlaps,
\* and says of no page more than one thing.
TypeOK ==
  /\ scenario \in Scenarios /\ alive \subseteq Pids
  /\ at \in [Pids -> [AllPages -> Places \cup {Absent}]]
  /\ \A p \in Pids : IsProper(datas[p])
  /\ \A p \in Pids : \A i \in DOMAIN datas[p] :
        datas[p][i].data \in Places \cup {Undefined} /\ PagesIn(datas[p][i]) \subseteq AllPages
  /\ numaUsed \in [Limited -> -MaxUsed .. MaxUsed]
  /\ pc \in {"update", "paged out", "start", "moves"}
  /\ ranges # <<>> \/ pids # {} => pc = "moves"
  /\ \A i \in DOMAIN tasks : tasks[i].to \in Places /\ tasks[i].pages # {}

Noted(p, pg) == Data(datas[p], pg)

\* The book changes its mind about a page only when the policy has just seen the page
\* there, when a task that it has just scheduled takes the range of the page there, or
\* when the range it is noted with was believed to be swapped out and a page of that range
\* is found not to be.  However ranges of the heatmap and of the book cut each other, other
\* pages keep their notes.
NotesHaveAReason ==
  [][\A p \in Pids, pg \in AllPages :
       Noted(p, pg)' # Noted(p, pg) =>
         \/ pc = "moves" /\ p = pid /\ pg \in PagesIn(Head(ranges))
            /\ \/ Noted(p, pg)' = at[p][pg]
               \/ Len(tasks') > Len(tasks) /\ Noted(p, pg)' = Last(tasks').to
         \/ /\ pc = "paged out" /\ Noted(p, pg)' = Undefined
            /\ \E i \in DOMAIN datas[p] :
                 /\ datas[p][i].data = Swap /\ pg \in PagesIn(datas[p][i])
                 /\ \E q \in PagesIn(datas[p][i]) : at[p][q] # Swap]_vars

NotedOn(n) == Cardinality({x \in Pids \X AllPages : Noted(x[1], x[2]) = n})

\* All the range is known to be on one node, or nothing is known of it and it is there.
Plain(p, r) ==
  \E n \in Places :
    \/ \A pg \in PagesIn(r) : Noted(p, pg) = n
    \/ \A pg \in PagesIn(r) : Noted(p, pg) = Undefined /\ at[p][pg] = n

\* The account of a node follows the book: planning a plain range changes what is used
\* on a limited node by the pages the book moves to or from it.  For ranges that straddle
\* nodes, have pages that are not there, or are known in part the code's account is wrong
\* (policy_heat.go:528): these are left out.
AccountsFollowTheBook ==
  [][ranges # <<>> /\ ranges' = Tail(ranges) /\ Plain(pid, Head(ranges)) =>
       \A n \in Limited : \/ numaUsed[n]' - numaUsed[n] = NotedOn(n)' - NotedOn(n)
                          \/ numaUsed[n]' \in {-MaxUsed, MaxUsed}]_vars

HeatSettles == <>[][UNCHANGED <<pidHrs, heatNumas>>]_vars

\* Once heats stay as they are the mover comes to rest: no range is scheduled again and
\* again, as it would be if the policy did not note what it has scheduled.  Swapping out
\* is tried again as long as it fails.
MoverComesToRest ==
  HeatSettles => scenario.fails \/ <>[](tasks = <<>> /\ inHand = NoTask)

\* Where the policy takes a range to be.
Believed(p, r) ==
  IF Noted(p, r.addr) # Undefined THEN Noted(p, r.addr)
  ELSE IF PagesMatching(p, r) = {} THEN Undefined ELSE at[p][Max(PagesMatching(p, r))]

Movable(p, r) == p \in alive /\ PagesMatching(p, r) # {} /\ heatNumas[r.heat] # <<>>

\* By the policy's own account no node of the class of the range has room for it.
ClassIsFull(r) == Destinations(r, numaUsed) = {}

\* Nothing is left to be done for a range: it is not to be moved, nothing of it can be,
\* or it is where it is meant to be, as far as the policy knows.
Served(p, r) == Movable(p, r) => Believed(p, r) \in Range(heatNumas[r.heat])

\* Once heats stay as they are every range gets to a node of its class, unless its class
\* is full: such a range does not keep those after it from being served.  It stays where
\* it is itself, for ever, as the code looks at no other class (policy_heat.go:566-575).
\* policy_heat.go:51-54 says that it is moved to NUMA nodes of lower heats instead: that
\* is not so, and no part of this property.
ServedUnlessClassIsFull ==
  HeatSettles => \A p \in Pids :
    []<>(\/ scenario.fails
         \/ \A i \in DOMAIN pidHrs[p] : LET r == pidHrs[p][i] IN Served(p, r) \/ ClassIsFull(r))
=============================================================================
