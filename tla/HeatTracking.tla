---------------------------- MODULE HeatTracking ----------------------------
(***************************************************************************)
(* Trackers, the multi tracker that combines them (tracker_multi.go) and   *)
(* the part of the heat policy's loop that keeps the heatmap               *)
(* (policy_heat.go): read the counters, reset them, update the heatmap.    *)
(* Trackers count on their own schedule and change the ranges they count   *)
(* for when the address space of a process changes.                        *)
(***************************************************************************)
EXTENDS Heatmap, FiniteSets

CONSTANTS
  Pids,        \* processes, numbers
  AllPages,    \* the pages of a process
  Trackers,    \* trackers of the multi tracker, in their order: a sequence
  Regions,     \* Regions[i]: the ranges tracker i counts for, as counters
               \* with the accesses it finds in one scan
  MaxCount,    \* a bound on the accesses of a counter
  MaxTime,     \* a bound on the clock
  Cold         \* nothing is known of a page

ASSUME ConstantsAssumption ==
  /\ Pids \subseteq Nat /\ AllPages \subseteq Nat /\ MaxCount \in Nat /\ MaxTime \in Nat
  /\ IsFiniteSet(DOMAIN Trackers)
  /\ \A i \in DOMAIN Trackers :
        /\ IsFiniteSet(Regions[i])
        /\ Regions[i] \subseteq [pid : Pids, addr : Nat, length : Nat \ {0}, accesses : Nat]
        /\ \A r \in Regions[i] : PagesIn(r) \subseteq AllPages
  /\ \A h \in 0 .. HeatMax, seconds \in 0 .. MaxTime : Cooled(h, seconds) \in Nat
  /\ Cold \notin [heat : 0 .. HeatMax, updated : 0 .. MaxTime]

VARIABLES
  counters,   \* counters[i]: the counters of tracker i, a set
  pc,         \* where the loop is, or that the daemon has panicked
  timestamp,  \* when the counters were read
  tcs,        \* what GetCounters returned
  pidHrs      \* the heatmap: lists of ranges, empty for a process not in it

vars == <<counters, pc, timestamp, tcs, pidHrs>>

Init ==
  /\ counters = [i \in DOMAIN Trackers |-> {}]
  /\ timestamp = 0
  /\ pc = "get" /\ tcs = <<>>
  /\ pidHrs = [pid \in Pids |-> <<>>]

SameRange(r, s) == r.pid = s.pid /\ r.addr = s.addr /\ r.length = s.length

\* Tracker i adds what it has found in a range to the counter of the range.
Scan(i, r) ==
  LET old == {tc \in counters[i] : SameRange(tc, r)}
      new == IF old = {} THEN r ELSE Union(CHOOSE tc \in old : TRUE, r) IN
  /\ pc # "panic" /\ r \in Regions[i] /\ new.accesses <= MaxCount
  /\ counters' = [counters EXCEPT ![i] = (@ \ old) \cup {new}]
  /\ UNCHANGED <<pc, timestamp, tcs, pidHrs>>

\* What GetCounters of the multi tracker finds, with the tracker it comes from.
AllCounters == UNION {{i} \X counters[i] : i \in DOMAIN Trackers}

\* The time is that of the wall clock, which may have been set back.
GetCounters ==
  \E list \in SortByAddr(AllCounters) :
    LET flat == Flattened([k \in DOMAIN list |-> list[k][2]]) IN
    /\ pc = "get" /\ pc' = IF flat.panics THEN "panic" ELSE "reset"
    /\ timestamp' \in 0 .. MaxTime
    /\ tcs' = IF flat.panics THEN <<>> ELSE flat.tcs
    /\ UNCHANGED <<counters, pidHrs>>

\* What was counted since the counters were read is lost.
ResetCounters ==
  /\ pc = "reset" /\ pc' = "update"
  /\ counters' = [i \in DOMAIN Trackers |-> {}]
  /\ UNCHANGED <<timestamp, tcs, pidHrs>>

UpdateHeatmap ==
  /\ pc = "update" /\ pc' = "get"
  /\ pidHrs' = UpdateFromCounters(pidHrs, tcs, timestamp)
  /\ tcs' = <<>>
  /\ UNCHANGED <<counters, timestamp>>

Next ==
  \/ \E i \in DOMAIN Trackers : \E r \in Regions[i] : Scan(i, r)
  \/ GetCounters \/ ResetCounters \/ UpdateHeatmap

Spec == Init /\ [][Next]_vars

-----------------------------------------------------------------------------
(* Properties *)

\* The values of the variables.  tracker.go:205 "with overlapping parts squashed": no
\* page is under two counters that GetCounters returned.  counters_heatmap.go:54: the
\* ranges are sorted and never overlap; none is empty either, although the squashed
\* counters include empty ones, whose heat is infinite.
TypeOK ==
  /\ \A i \in DOMAIN Trackers : \A tc \in counters[i] :
        tc.pid \in Pids /\ PagesIn(tc) \subseteq AllPages /\ tc.accesses \in 0 .. MaxCount
  /\ \A i \in DOMAIN tcs :
        /\ tcs[i].pid \in Pids /\ tcs[i].length >= 0 /\ PagesIn(tcs[i]) \subseteq AllPages
        /\ tcs[i].accesses \in Nat
        /\ \A j \in DOMAIN tcs : i # j /\ tcs[i].pid = tcs[j].pid => ~Overlap(tcs[i], tcs[j])
  /\ \A pid \in Pids : \A i \in DOMAIN pidHrs[pid] :
        /\ PagesIn(pidHrs[pid][i]) \subseteq AllPages
        /\ pidHrs[pid][i].heat \in 0 .. HeatMax /\ pidHrs[pid][i].updated \in 0 .. MaxTime
        /\ pidHrs[pid][i].length > 0
        /\ i > 1 => EndAddr(pidHrs[pid][i - 1]) <= pidHrs[pid][i].addr
  /\ timestamp \in 0 .. MaxTime
  /\ pc \in {"get", "reset", "update", "panic"}

Covers(tc, pid, pg) == tc.pid = pid /\ pg \in PagesIn(tc)

\* The accesses of a page that a list of counters tells of, and those the trackers counted.
AccessesTold(list, pid, pg) ==
  MapThenSumSet(LAMBDA i : list[i].accesses, {i \in DOMAIN list : Covers(list[i], pid, pg)})
AccessesCounted(pid, pg) ==
  MapThenSumSet(LAMBDA c : c[2].accesses, {c \in AllCounters : Covers(c[2], pid, pg)})

\* Squashing neither loses nor invents accesses: of every page, the counters
\* GetCounters returns have the accesses of all the trackers' counters over it.
SquashingKeepsAccesses ==
  [][pc = "get" /\ pc' = "reset" =>
       \A pid \in Pids, pg \in AllPages : AccessesTold(tcs', pid, pg) = AccessesCounted(pid, pg)]_vars

HeatAt(pid, pg) ==
  LET hrs == {i \in DOMAIN pidHrs[pid] : pg \in PagesIn(pidHrs[pid][i])} IN
  IF hrs = {} THEN Cold
  ELSE LET hr == pidHrs[pid][CHOOSE i \in hrs : TRUE] IN [heat |-> hr.heat, updated |-> hr.updated]

Pages == INSTANCE PageHeat WITH
  now <- timestamp, heat <- [pid \in Pids |-> [pg \in AllPages |-> HeatAt(pid, pg)]]

\* However counters split and join its ranges, the heatmap gives each page the
\* heat that the counters over it alone account for.
ImplementsPageHeat == Pages!Spec

\* tracker.go:268 asserts that the flat list stays sorted by addresses.
FlatteningKeepsOrder == pc # "panic"
=============================================================================
