------------------------------- MODULE Heatmap -------------------------------
(***************************************************************************)
(* The heatmap (pkg/memtier/counters_heatmap.go): for each process a list  *)
(* of address ranges with a heat, sorted and without overlaps.  Counters   *)
(* split and heat the ranges they overlap with, and add ranges elsewhere.  *)
(*                                                                         *)
(* Heats are numbers up to HeatMax, fractions are cut off.  When a range   *)
(* was created is left out: nothing depends on it.                         *)
(***************************************************************************)
EXTENDS TrackerCounters

CONSTANTS
  HeatMax,       \* the heat no range exceeds
  Cooled(_, _)   \* what HeatRetention leaves of a heat after a number of seconds

ASSUME HeatMaxAssumption == HeatMax \in Nat

AtMost(max, n) == IF n > max THEN max ELSE n

\* No time passes if the clock was set back.
Seconds(from, to) == IF to < from THEN 0 ELSE to - from

\* Accesses per page.  A counter without pages is infinitely hot (or NaN).
HeatOf(tc) == IF tc.length = 0 THEN HeatMax ELSE AtMost(HeatMax, tc.accesses \div tc.length)

HeatRange(tc, timestamp) ==
  [addr |-> tc.addr, length |-> tc.length, heat |-> HeatOf(tc), updated |-> timestamp]

\* Overlapping, in a sorted list: the first range that ends behind the start of thr, and
\* the first one from there on that starts at the end of thr or behind it.
First(hrs, thr) == Min({i \in DOMAIN hrs : EndAddr(hrs[i]) > thr.addr} \cup {Len(hrs) + 1})
Behind(hrs, thr) ==
  Min({i \in DOMAIN hrs : i >= First(hrs, thr) /\ hrs[i].addr >= EndAddr(thr)} \cup {Len(hrs) + 1})

Heated(hr, thr) ==
  [hr EXCEPT !.heat = AtMost(HeatMax, thr.heat + Cooled(hr.heat, Seconds(hr.updated, thr.updated))),
             !.updated = thr.updated]

Later(a, b) == IF a < b THEN b ELSE a

Earlier(a, b) == IF a < b THEN a ELSE b

\* The part of a range between two addresses, if it is not empty.
Part(r, from, to) ==
  IF from < to THEN <<[r EXCEPT !.addr = from, !.length = to - from]>> ELSE <<>>

\* The part of a range that a later one covers.
Common(hr, thr) ==
  LET start == Later(hr.addr, thr.addr) IN
  [hr EXCEPT !.addr = start, !.length = Earlier(EndAddr(hr), EndAddr(thr)) - start]

Past(thr, hr) ==
  LET end == Earlier(EndAddr(hr), EndAddr(thr)) IN
  [thr EXCEPT !.addr = end, !.length = EndAddr(thr) - end]

\* Mutant: the part of a range past the end of thr is not kept.
HeatOneShort(walk, hr) ==
  LET thr == walk.thr IN
  [hrs |-> walk.hrs \o Part(hr, hr.addr, thr.addr) \o Part(thr, thr.addr, hr.addr)
           \o <<Heated(Common(hr, thr), thr)>>,
   thr |-> Past(thr, hr)]

\* Mutant: a range whose head is split off keeps its length.
HeatOneUncut(walk, hr) ==
  LET thr == walk.thr IN
  [hrs |-> walk.hrs \o Part(hr, hr.addr, thr.addr) \o Part(thr, thr.addr, hr.addr)
           \o <<Heated([hr EXCEPT !.addr = Later(@, thr.addr)], thr)>>
           \o Part(hr, EndAddr(thr), EndAddr(hr)),
   thr |-> Past(thr, hr)]

\* One overlapping range: what is before thr is split off, a gap before the
\* range gets the heat of thr, what is after thr is split off; the common part
\* is heated and thr goes on behind it.
HeatOne(walk, hr) ==
  LET thr == walk.thr IN
  [hrs |-> walk.hrs \o Part(hr, hr.addr, thr.addr) \o Part(thr, thr.addr, hr.addr)
           \o <<Heated(Common(hr, thr), thr)>> \o Part(hr, EndAddr(thr), EndAddr(hr)),
   thr |-> Past(thr, hr)]

\* updateFromPidHeatRange.  The code appends what it splits off and sorts the list in the
\* end; here every part is put where it belongs.
HeatedBy(hrs, thr) ==
  LET first == First(hrs, thr)
      behind == Behind(hrs, thr)
      walk == FoldLeft(HeatOne, [hrs |-> <<>>, thr |-> thr], SubSeq(hrs, first, behind - 1)) IN
  SubSeq(hrs, 1, first - 1) \o walk.hrs \o Part(walk.thr, walk.thr.addr, EndAddr(walk.thr))
    \o SubSeq(hrs, behind, Len(hrs))

UpdateFromCounter(pidHrs, tc, timestamp) ==
  [pidHrs EXCEPT ![tc.pid] = HeatedBy(@, HeatRange(tc, timestamp))]

Forgotten(pidHrs, pids) == [pid \in DOMAIN pidHrs |-> IF pid \in pids THEN <<>> ELSE pidHrs[pid]]

\* All the counters in their order; processes without a counter are forgotten.
UpdateFromCounters(pidHrs, tcs, timestamp) ==
  LET heated == FoldLeft(LAMBDA hm, tc : UpdateFromCounter(hm, tc, timestamp), pidHrs, tcs)
      tracked == {tcs[i].pid : i \in DOMAIN tcs} IN
  Forgotten(heated, DOMAIN pidHrs \ tracked)
=============================================================================
