--------------------------- MODULE TrackerCounters ---------------------------
(***************************************************************************)
(* Access counters of address ranges (pkg/memtier/tracker.go) and how      *)
(* counters of several trackers are squashed into one list.                *)
(*                                                                         *)
(* A counter is a record [pid, addr, length, accesses].  Addresses count   *)
(* pages.  Reads, writes and accesses are added up wherever a counter is   *)
(* used here, so the model keeps their sum.                                *)
(***************************************************************************)
EXTENDS Integers, SequencesExt

EndAddr(r) == r.addr + r.length

PagesIn(r) == r.addr .. EndAddr(r) - 1

Overlap(r, s) == PagesIn(r) \cap PagesIn(s) # {}

\* SortByAddr: by process, then by start, then by length; of ranges that differ there is
\* one order.
ComesBefore(x, y) ==
  \/ x.pid < y.pid
  \/ x.pid = y.pid /\ x.addr < y.addr
  \/ x.pid = y.pid /\ x.addr = y.addr /\ x.length < y.length

SortedByAddr(S) ==
  {tcs \in [1 .. Cardinality(S) -> S] :
     \A i, j \in 1 .. Cardinality(S) : i < j => ComesBefore(tcs[i], tcs[j])}

\* Of counters of several trackers, pairs of a tracker and a counter: the sort is not
\* stable, ranges that do not differ come in any order.
SortByAddr(S) ==
  {list \in [1 .. Cardinality(S) -> S] :
     \A i, j \in 1 .. Cardinality(S) :
        i < j => list[i] # list[j] /\ ~ComesBefore(list[j][2], list[i][2])}

\* The part of a counter from one address to another.  It keeps all accesses.
Cut(tc, from, to) ==
  LET start == IF from > tc.addr THEN from ELSE tc.addr
      stop == IF to < EndAddr(tc) THEN to ELSE EndAddr(tc) IN
  [tc EXCEPT !.addr = start, !.length = stop - start]

Union(tc0, tc1) == [tc0 EXCEPT !.accesses = @ + tc1.accesses]

-----------------------------------------------------------------------------
(* Flattened adds the sorted counters one by one to a flat list.  walk.tc is *)
(* what is left of the added counter, walk.tail the new end of the list.     *)

\* The pieces of one counter of the list that overlaps with, or touches, the
\* added counter: before it, shared with it, and after it.
Pieces(walk, oltc, shared, end) ==
  (IF oltc.addr < walk.start THEN <<Cut(oltc, oltc.addr, walk.start)>> ELSE <<>>)
    \o <<shared>> \o (IF EndAddr(oltc) > end THEN <<Cut(oltc, end, EndAddr(oltc))>> ELSE <<>>)

WalkEnd(oltc, tcEnd) == IF EndAddr(oltc) < tcEnd THEN EndAddr(oltc) ELSE tcEnd

\* Mutant: the accesses of a part that two counters share are counted once.
WalkOverUncounted(walk, oltc, tcEnd) ==
  LET end == WalkEnd(oltc, tcEnd) IN
  [tail |-> walk.tail \o Pieces(walk, oltc, Cut(oltc, walk.start, end), end),
   tc |-> Cut(walk.tc, end, tcEnd), start |-> end,
   panics |-> walk.panics \/ oltc.addr > walk.start]

WalkOver(walk, oltc, tcEnd) ==
  LET end == WalkEnd(oltc, tcEnd)
      shared == Union(Cut(oltc, walk.start, end), Cut(walk.tc, walk.start, end)) IN
  [tail |-> walk.tail \o Pieces(walk, oltc, shared, end),
   tc |-> Cut(walk.tc, end, tcEnd), start |-> end,
   panics |-> walk.panics \/ oltc.addr > walk.start]

\* The walk back stops at another process or a counter that ends before tc.
FirstOverlapping(tcs, tc) ==
  LET apart == {i \in DOMAIN tcs : tcs[i].pid # tc.pid \/ EndAddr(tcs[i]) < tc.addr} IN
  CHOOSE i \in 1 .. Len(tcs) : /\ \A j \in i .. Len(tcs) : j \notin apart
                               /\ i = 1 \/ i - 1 \in apart

AddFlat(flat, tc) ==
  LET tcs == flat.tcs
      first == FirstOverlapping(tcs, tc)
      walk == FoldLeft(LAMBDA w, oltc : WalkOver(w, oltc, EndAddr(tc)),
                       [tail |-> <<>>, tc |-> tc, start |-> tc.addr, panics |-> FALSE],
                       SubSeq(tcs, first, Len(tcs)))
      left == IF walk.start < EndAddr(tc) THEN <<walk.tc>> ELSE <<>> IN
  IF tcs = <<>> \/ Last(tcs).pid # tc.pid \/ EndAddr(Last(tcs)) <= tc.addr
  THEN [flat EXCEPT !.tcs = Append(@, tc)]
  ELSE [tcs |-> SubSeq(tcs, 1, first - 1) \o walk.tail \o left,
        panics |-> flat.panics \/ walk.panics]

\* Of counters that are sorted: the flat list, and whether the assertion on the order
\* has failed on the way.
Flattened(tcs) == FoldLeft(AddFlat, [tcs |-> <<>>, panics |-> FALSE], tcs)
-----------------------------------------------------------------------------
\* RegionsMerged: ranges that touch become one, with the accesses of the first.
Touches(merged, tc) ==
  merged # <<>> /\ Last(merged).pid = tc.pid /\ EndAddr(Last(merged)) = tc.addr

Joined(merged, tc) ==
  IF Touches(merged, tc) THEN [merged EXCEPT ![Len(merged)].length = @ + tc.length]
  ELSE Append(merged, tc)

\* Of counters that are sorted.
RegionsMerged(tcs) == FoldLeft(Joined, <<>>, tcs)
=============================================================================
