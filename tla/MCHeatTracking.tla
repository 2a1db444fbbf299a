--------------------------- MODULE MCHeatTracking ---------------------------
(* Small instances of the trackers and the heatmap for TLC. *)
EXTENDS HeatTracking

CONSTANTS t1, t2

\* A HeatRetention of 1/2.
Halved(h, seconds) == h \div 2 ^ seconds

Counts(pid, addr, length, accesses) ==
  [pid |-> pid, addr |-> addr, length |-> length, accesses |-> accesses]

TwoTrackers == <<t1, t2>>
OneTracker == <<t1>>

\* Two trackers whose ranges are not aligned, and a second process.
Apart == <<{Counts(1, 0, 2, 3), Counts(1, 2, 2, 4), Counts(2, 0, 1, 4)},
           {Counts(1, 1, 2, 4)}>>

\* One tracker, while the only mapping of a process grows and then shrinks.
Changing == <<{Counts(1, 0, 3, 3), Counts(1, 0, 4, 4), Counts(1, 1, 1, 1)}>>
=============================================================================
