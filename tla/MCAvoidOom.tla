----------------------------- MODULE MCAvoidOom -----------------------------
(* Small instances of the avoid-oom policy for TLC. *)
EXTENDS AvoidOom, TLC

CONSTANTS p1, p2, p3, g1, g2, g3

Groups == p1 :> g1 @@ p2 :> g2 @@ p3 :> g3
Owners == 1 :> p1 @@ 2 :> p2
Lengths == 1 :> 4 @@ 2 :> 2
Scores == p1 :> 1 @@ p2 :> 2 @@ p3 :> 0

Placed(n1, n2) ==
  [pg \in Pages |-> IF pg[1] = 1 THEN n1 ELSE n2]

\* Memory used by others such that so much is available.
Used(place, avail) ==
  [n \in Nodes |-> Total - avail[n + 1] - Cardinality({pg \in Pages : place[pg] = n})]

\* Node 0 is short for p3, that may use no other; two nodes have room, and memory
\* changes meanwhile.
Changing ==
  [at |-> Placed(0, 0), other |-> Used(Placed(0, 0), <<0, 6, 5, 3>>),
   mems |-> g1 :> {0, 1} @@ g2 :> {0, 1, 2} @@ g3 :> {0}, changes |-> 1, exits |-> FALSE,
   restarts |-> FALSE, fails |-> FALSE]

\* There is hardly room on any other node, and a process is bound to one of them.
Tight ==
  [Changing EXCEPT !.other = Used(Placed(0, 0), <<0, 4, 4, 4>>),
                   !.mems = g1 :> Nodes @@ g2 :> {1} @@ g3 :> {0}]

\* Two nodes are short together, for the process that may use both of them; processes
\* exit and pages fail to move.
Together ==
  [Changing EXCEPT !.at = Placed(0, 1), !.other = Used(Placed(0, 1), <<0, 3, 6, 3>>),
                   !.mems = g1 :> {0, 2} @@ g2 :> {1, 2} @@ g3 :> {0, 1},
                   !.changes = 0, !.exits = TRUE, !.fails = TRUE]

\* A segment is on two nodes that are both short, with more to be moved than it has.
Spread ==
  LET place == [Placed(0, 0) EXCEPT ![<<1, 2>>] = 1] IN
  [Changing EXCEPT !.at = place, !.other = Used(place, <<0, 0, 6, 6>>),
                   !.mems = g1 :> {0, 1, 2, 3} @@ g2 :> {0, 1} @@ g3 :> {0, 1}, !.changes = 0]

\* The first half of a segment has never been used.
Holed ==
  LET place == [Placed(0, 2) EXCEPT ![<<1, 1>>] = None, ![<<1, 2>>] = None] IN
  [Changing EXCEPT !.at = place, !.other = Used(place, <<0, 6, 5, 3>>)]

\* The policy is stopped and started again.
Restarting == [Changing EXCEPT !.restarts = TRUE, !.changes = 0]

AllScenarios == {Changing, Tight, Together, Spread, Holed, Restarting}
=============================================================================
