----------------------------- MODULE PidWatcher -----------------------------
(***************************************************************************)
(* The pid watchers (pkg/memtier/pidwatcher_*.go): a source that polls for *)
(* processes (proc, cgroups) or knows a fixed list of them (pidlist), with *)
(* the filter between it and the listener, or without.                     *)
(*                                                                         *)
(* A source reports with its mutex held, and the filter takes its own      *)
(* mutex in the report; the filter's Start and Stop take the two mutexes   *)
(* in the opposite order.  Everything else that happens under one mutex    *)
(* is one action.  The listener is a tracker whose AddPids and RemovePids  *)
(* return; a file under /proc or in a cgroup is read in one step.          *)
(***************************************************************************)
EXTENDS Naturals

CONSTANTS
  Pids,      \* processes that may exist; also the list of pidlist
  Staying,   \* those that never exit once they run
  Clients,   \* goroutines that operate the watcher
  Loops,     \* slots for polling goroutines: a bound on how many are alive
  Ops,       \* operations the clients call
  Configs,   \* <<source, filtered>> pairs the watcher may be configured with
  None       \* no owner of a mutex

ASSUME ConstantsAssumption ==
  /\ Staying \subseteq Pids
  /\ Ops \subseteq {"listen", "start", "stop", "poll"}
  /\ Configs \subseteq {"proc", "cgroups", "pidlist"} \X BOOLEAN
  /\ Clients \cap Loops = {} /\ None \notin Clients \cup Loops

Actors == Clients \cup Loops

VARIABLES
  config,       \* the source's kind and whether the filter is used
  alive,        \* the processes the source can see
  matching,     \* those the filters match
  listening,    \* the listener has been set
  stop,         \* the source's stop flag
  mutex,        \* the actor that holds the source's mutex
  filterMutex,  \* the client that holds the filter's mutex
  reported,     \* pidsReported of the source
  added,        \* addedPids of the filter
  tracked,      \* what the listener has been told
  pc, found,    \* where each actor is; what it has read
  news, olds    \* what it is about to report

source == config[1]
filtered == config[2]
processes == <<alive, matching>>
mutexes == <<mutex, filterMutex>>
told == <<added, tracked>>
reads == <<found, news, olds>>
vars == <<config, processes, listening, stop, mutexes, reported, told, pc, reads>>

Init ==
  /\ config \in Configs /\ alive = {} /\ matching = {}
  /\ listening \in BOOLEAN /\ stop = FALSE /\ mutex = None /\ filterMutex = None
  /\ reported = {} /\ added = {} /\ tracked = {}
  /\ pc = [a \in Actors |-> IF a \in Clients THEN "idle" ELSE "off"]
  /\ found = [a \in Actors |-> {}]
  /\ news = [a \in Actors |-> {}]
  /\ olds = [a \in Actors |-> {}]

Goes(a, from, to) == pc[a] = from /\ pc' = [pc EXCEPT ![a] = to]
Calls(c, op, to) == op \in Ops /\ Goes(c, "idle", to)

-----------------------------------------------------------------------------
(* Processes *)

Appear(p) ==
  /\ p \notin alive
  /\ alive' = alive \cup {p} /\ matching' \in {matching, matching \cup {p}}
  /\ UNCHANGED <<config, listening, stop, mutexes, reported, told, pc, reads>>

Vanish(p) ==
  /\ p \in alive \ Staying
  /\ alive' = alive \ {p} /\ matching' = matching \ {p}
  /\ UNCHANGED <<config, listening, stop, mutexes, reported, told, pc, reads>>

\* A process grows or shrinks past a limit, or runs another program.
Change(p) ==
  /\ p \in alive
  /\ matching' = IF p \in matching THEN matching \ {p} ELSE matching \cup {p}
  /\ UNCHANGED <<config, alive, listening, stop, mutexes, reported, told, pc, reads>>

-----------------------------------------------------------------------------
(* Operations *)

SetPidListener(c) ==
  /\ Calls(c, "listen", "idle")
  /\ IF filtered THEN filterMutex = None ELSE mutex = None
  /\ listening' = TRUE
  /\ UNCHANGED <<config, processes, stop, mutexes, reported, told, reads>>

\* The filter's Start and Stop keep its mutex while they call the source's.
Enter(c, op) ==
  /\ Calls(c, op, op)
  /\ IF filtered THEN filterMutex = None /\ filterMutex' = c ELSE UNCHANGED filterMutex
  /\ UNCHANGED <<config, processes, listening, stop, mutex, reported, told, reads>>

\* Bound: Start always launches a loop, so it needs a free slot here.
Start(c) == /\ \E l \in Loops : pc[l] = "off"
            /\ \A d \in Clients : pc[d] # "start"
            /\ Enter(c, "start")
Stop(c) == Enter(c, "stop")

\* The filter's Poll lets its mutex go before it calls the source's.
Poll(c) ==
  /\ Calls(c, "poll", "poll")
  /\ filtered => filterMutex = None
  /\ UNCHANGED <<config, processes, listening, stop, mutexes, reported, told, reads>>

Leaves == filterMutex' = None

\* The proc watcher reads /proc before it takes the mutex, cgroups after.
FirstStep == IF source = "proc" THEN "read" ELSE "lock"

SourceStart(c) ==
  /\ source # "pidlist" /\ mutex = None /\ pc[c] = "start"
  /\ stop' = FALSE /\ Leaves
  /\ \E l \in Loops : /\ pc[l] = "off"
                      /\ pc' = [pc EXCEPT ![c] = "idle", ![l] = FirstStep]
  /\ UNCHANGED <<config, processes, listening, mutex, reported, told, reads>>

SourcePoll(c) ==
  /\ source # "pidlist" /\ mutex = None /\ Goes(c, "poll", FirstStep)
  /\ stop' = FALSE
  /\ UNCHANGED <<config, processes, listening, mutexes, reported, told, reads>>

SourceStop(c) ==
  /\ Goes(c, "stop", "idle") /\ Leaves
  /\ IF source = "pidlist" THEN UNCHANGED stop ELSE mutex = None /\ stop' = TRUE
  /\ UNCHANGED <<config, processes, listening, mutex, reported, told, reads>>

\* pidlist: both Start and Poll report the whole list.
ReportList(c) ==
  /\ source = "pidlist" /\ mutex = None
  /\ \E op \in {"start", "poll"} : Goes(c, op, "add")
  /\ mutex' = c /\ news' = [news EXCEPT ![c] = Pids]
  /\ UNCHANGED <<config, processes, listening, stop, filterMutex, reported, told, found, olds>>

-----------------------------------------------------------------------------
(* The loop, run by its goroutine or, for a single round, by Poll *)

Done(a, from) == Goes(a, from, IF a \in Clients THEN "idle" ELSE "tick")

ReadPids(a) ==
  /\ Goes(a, "read", "lock") /\ found' = [found EXCEPT ![a] = alive]
  /\ UNCHANGED <<config, processes, listening, stop, mutexes, reported, told, news, olds>>

\* Mutant: stops without unlocking.
QuitLocked(a) ==
  /\ mutex = None /\ stop
  /\ Goes(a, "lock", IF a \in Clients THEN "idle" ELSE "off")
  /\ found' = [found EXCEPT ![a] = {}] /\ mutex' = a
  /\ UNCHANGED <<config, processes, listening, stop, filterMutex, reported, told, news, olds>>

Quit(a) ==
  /\ mutex = None /\ stop
  /\ Goes(a, "lock", IF a \in Clients THEN "idle" ELSE "off")
  /\ found' = [found EXCEPT ![a] = {}]
  /\ UNCHANGED <<config, processes, listening, stop, mutexes, reported, told, news, olds>>

\* What a round works with: cgroups looks for pids with the mutex held.
PidsFound(a) == IF source = "cgroups" THEN alive ELSE found[a]

\* Mutant: reads the pids again for pidsReported.
CalculateReread(a) ==
  LET now == PidsFound(a) IN
  /\ mutex = None /\ ~stop /\ Goes(a, "lock", "add")
  /\ mutex' = a
  /\ news' = [news EXCEPT ![a] = now \ reported]
  /\ olds' = [olds EXCEPT ![a] = reported \ now]
  /\ reported' = alive
  /\ found' = [found EXCEPT ![a] = {}]
  /\ UNCHANGED <<config, processes, listening, stop, filterMutex, told>>

CalculateNewAndOldPids(a) ==
  LET now == PidsFound(a) IN
  /\ mutex = None /\ ~stop /\ Goes(a, "lock", "add")
  /\ mutex' = a
  /\ news' = [news EXCEPT ![a] = now \ reported]
  /\ olds' = [olds EXCEPT ![a] = reported \ now]
  /\ reported' = now
  /\ found' = [found EXCEPT ![a] = {}]
  /\ UNCHANGED <<config, processes, listening, stop, filterMutex, told>>

\* The criteria of the filters, evaluated when they are asked for.
PidsMatchingFilter(pids) == pids \cap matching

Tell(pids) == tracked' = IF listening THEN pids ELSE tracked

\* Mutant: reports old pids only when there are no new ones.
AddPidsInstead(a) ==
  /\ ~filtered /\ Goes(a, "add", "remove")
  /\ Tell(tracked \cup news[a]) /\ news' = [news EXCEPT ![a] = {}]
  /\ olds' = IF news[a] # {} THEN [olds EXCEPT ![a] = {}] ELSE olds
  /\ UNCHANGED <<config, processes, listening, stop, mutexes, reported, added, found>>

AddPids(a) ==
  /\ ~filtered /\ Goes(a, "add", "remove")
  /\ Tell(tracked \cup news[a]) /\ news' = [news EXCEPT ![a] = {}]
  /\ UNCHANGED <<config, processes, listening, stop, mutexes, reported, added, found, olds>>

FilteredAddPids(a) ==
  LET matchingPids == PidsMatchingFilter(news[a]) IN
  /\ filtered /\ (news[a] = {} \/ filterMutex = None) /\ Goes(a, "add", "remove")
  /\ added' = added \cup matchingPids /\ Tell(tracked \cup matchingPids)
  /\ news' = [news EXCEPT ![a] = {}]
  /\ UNCHANGED <<config, processes, listening, stop, mutexes, reported, found, olds>>

RemovePids(a) ==
  /\ ~filtered /\ Done(a, "remove")
  /\ Tell(tracked \ olds[a]) /\ olds' = [olds EXCEPT ![a] = {}] /\ mutex' = None
  /\ UNCHANGED <<config, processes, listening, stop, filterMutex, reported, added, found, news>>

\* Mutant: only the pids that match now are dropped from the filter's set.
FilteredRemoveMatching(a) ==
  LET matchingPids == PidsMatchingFilter(olds[a] \cap added) IN
  /\ filtered /\ (olds[a] = {} \/ filterMutex = None) /\ Done(a, "remove")
  /\ added' = added \ matchingPids /\ Tell(tracked \ matchingPids)
  /\ olds' = [olds EXCEPT ![a] = {}] /\ mutex' = None
  /\ UNCHANGED <<config, processes, listening, stop, filterMutex, reported, found, news>>

FilteredRemovePids(a) ==
  LET matchingPids == olds[a] \cap added IN
  /\ filtered /\ (olds[a] = {} \/ filterMutex = None) /\ Done(a, "remove")
  /\ added' = added \ matchingPids /\ Tell(tracked \ matchingPids)
  /\ olds' = [olds EXCEPT ![a] = {}] /\ mutex' = None
  /\ UNCHANGED <<config, processes, listening, stop, filterMutex, reported, found, news>>

Tick(l) ==
  /\ Goes(l, "tick", FirstStep)
  /\ UNCHANGED <<config, processes, listening, stop, mutexes, reported, told, reads>>

-----------------------------------------------------------------------------
Process(p) == Appear(p) \/ Vanish(p) \/ Change(p)
ClientCall(c) == SetPidListener(c) \/ Start(c) \/ Stop(c) \/ Poll(c)
SourceCall(c) == SourceStart(c) \/ SourcePoll(c) \/ SourceStop(c) \/ ReportList(c)
Round(a) == \/ ReadPids(a) \/ Quit(a) \/ CalculateNewAndOldPids(a) \/ AddPids(a)
            \/ FilteredAddPids(a) \/ RemovePids(a) \/ FilteredRemovePids(a)

Next == \/ \E p \in Pids : Process(p)
        \/ \E c \in Clients : ClientCall(c) \/ SourceCall(c)
        \/ \E a \in Actors : Round(a)
        \/ \E l \in Loops : Tick(l)

Spec == Init /\ [][Next]_vars

\* Go mutexes hand over to a waiter in the end: strong fairness for the steps
\* that take one.  Tickers tick.  Nobody has to call, and processes do as they like.
Fairness == /\ \A c \in Clients : SF_vars(SourceCall(c))
            /\ \A a \in Actors : SF_vars(Round(a))
            /\ \A l \in Loops : WF_vars(Tick(l))

FairSpec == Spec /\ Fairness

-----------------------------------------------------------------------------
(* Properties *)

TypeOK ==
  /\ config \in Configs /\ listening \in BOOLEAN /\ stop \in BOOLEAN
  /\ matching \subseteq alive /\ alive \subseteq Pids
  /\ mutex \in Actors \cup {None} /\ filterMutex \in Clients \cup {None}
  /\ reported \subseteq Pids /\ added \subseteq Pids /\ tracked \subseteq Pids
  /\ pc \in [Actors -> {"idle", "off", "start", "stop", "poll", "read", "lock", "add",
                        "remove", "tick"}]
  /\ {found, news, olds} \subseteq [Actors -> SUBSET Pids]
  /\ \A a \in Actors : pc[a] \in {"add", "remove"} <=> mutex = a

\* Between reports the listener, the filter and the source agree: what the
\* listener has been told of is known to the filter, and what the filter let
\* through is still among the reported pids, so it will be removed in the end.
KnownUpstream ==
  source # "pidlist" /\ mutex = None =>
    /\ tracked \subseteq reported
    /\ filtered => tracked \subseteq added /\ added \subseteq reported

\* A listener that was set in time has been told, between reports, of exactly
\* the processes the source (or the filter) has on its books.
ListenerMissesNothing ==
  []listening => [](mutex = None /\ source # "pidlist" =>
                      tracked = IF filtered THEN added ELSE reported)

\* The filter's Start and Stop hold its mutex and want the source's, whose
\* owner is about to report through the filter.
OrderJam == /\ \E c \in Clients : filterMutex = c /\ pc[c] \in {"start", "stop"}
            /\ \E a \in Actors : \/ (pc[a] = "add" /\ news[a] # {})
                               \/ (pc[a] = "remove" /\ olds[a] # {})
\* The filter's Start reports pidlist's pids to itself.
SelfJam == \E c \in Clients : filterMutex = c /\ pc[c] = "add" /\ news[c] # {}
Jammed == filtered /\ (OrderJam \/ SelfJam)

\* Start, Stop and Poll return unless one of these two jams catches them; in
\* particular nothing jams an unfiltered watcher.
CallsReturnUnlessJammed ==
  \A c \in Clients : pc[c] # "idle" ~> pc[c] = "idle" \/ Jammed

Polling == ~stop /\ \E l \in Loops : pc[l] # "off"

\* A process that stays once it has appeared, and matches all that time, ends
\* up tracked for good, also while a Poll runs next to the loop.
StayingIsTracked ==
  \A p \in Staying :
    /\ source # "pidlist" /\ []listening /\ <>[](p \in alive /\ Polling)
    /\ filtered => [](p \in alive => p \in matching)
    => <>[](p \in tracked) \/ <>[]Jammed

=============================================================================
