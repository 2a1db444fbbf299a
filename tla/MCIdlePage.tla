----------------------------- MODULE MCIdlePage -----------------------------
(* Small instances of the idle-page tracker for TLC. *)
EXTENDS IdlePage, TLC

CONSTANTS c1, c2, p1, p2

\* p1 has two regions, the first one with two pages; the other one shares a word of the
\* bitmap with p2.
Owners == 1 :> p1 @@ 2 :> p1 @@ 3 :> p1 @@ 4 :> p2
Regions == 1 :> "a" @@ 2 :> "a" @@ 3 :> "b" @@ 4 :> "c"
Words == 1 :> 1 @@ 2 :> 1 @@ 3 :> 2 @@ 4 :> 2

\* A pid watcher, and an operator; the process exits.
Operated ==
  [ops |-> c1 :> {"add", "remove"} @@ c2 :> {"remove all", "reset", "start", "stop"},
   reported |-> {p1}, mortal |-> {p1}, touched |-> {}, fails |-> FALSE]

\* Two operators stop the tracker.
Stopped ==
  [ops |-> c1 :> {"add", "stop"} @@ c2 :> {"remove all", "start", "stop"},
   reported |-> {p2}, mortal |-> {}, touched |-> {}, fails |-> FALSE]

\* Pages are accessed while a watcher adds and removes.
Accessed ==
  [ops |-> c1 :> {"add", "remove", "start"} @@ c2 :> {},
   reported |-> Pids, mortal |-> {p2}, touched |-> {1, 4}, fails |-> FALSE]

\* Files of the kernel fail while pages of both regions of a process are accessed.
Failing ==
  [ops |-> c1 :> {"add", "start"} @@ c2 :> {},
   reported |-> {p1}, mortal |-> {}, touched |-> {2, 3}, fails |-> TRUE]

AllScenarios == {Operated, Stopped, Accessed, Failing}
=============================================================================
