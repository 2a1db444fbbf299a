------------------------------ MODULE MCDamon ------------------------------
(* Small instances of the DAMON tracker for TLC. *)
EXTENDS Damon, TLC

CONSTANTS c1, c2, p1, p2

\* A pid watcher and an operator who restarts the tracker, while one process exits
\* and the other has no memory yet.
Restarted ==
  [iface |-> "sysfs", kdamonds |-> 2, conn |-> "bpftrace",
   ops |-> c1 :> {"add", "remove"} @@ c2 :> {"start", "stop"},
   twice |-> FALSE, mortal |-> {p1}, rangeless |-> {p2}, fails |-> FALSE, lines |-> 0]

\* bpftrace reports while processes come and go, with either interface.
Reported ==
  [Restarted EXCEPT !.kdamonds = 1, !.ops = c1 :> {"add", "start"} @@ c2 :> {},
                    !.rangeless = {}, !.lines = 1]

Older == [Reported EXCEPT !.iface = "debugfs", !.ops[c2] = {"reset"}]

\* The operator configures the tracker, or puts one process in the place of all, and bpftrace
\* fails.
Configured ==
  [Reported EXCEPT !.ops = c1 :> {"add"} @@ c2 :> {"start", "configure", "remove all"},
                   !.kdamonds = 2, !.twice = TRUE, !.mortal = {}, !.fails = TRUE, !.lines = 0]

\* perf reports over the older interface, ends, or does not start.
OverPerf ==
  [Older EXCEPT !.conn = "perf", !.ops = c1 :> {"add", "remove"} @@ c2 :> {"start", "stop"},
                !.mortal = {}, !.fails = TRUE]

AllScenarios == {OverPerf, Restarted, Reported, Older, Configured}
=============================================================================
