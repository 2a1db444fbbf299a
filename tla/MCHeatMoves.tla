---------------------------- MODULE MCHeatMoves ----------------------------
(* Small instances of the heat policy's moves for TLC. *)
EXTENDS HeatMoves, TLC

CONSTANTS p1, p2

Hot == 1
Cold == 0

Ranged(addr, length, heat) == [addr |-> addr, length |-> length, heat |-> heat]

\* Node 0 is fast, node 1 is slow.
FastAndSlow == Hot :> <<0>> @@ Cold :> <<1>>
Swapping == Hot :> <<1, 0>> @@ Cold :> <<Swap>>

\* Two processes get hot and cold in turn, and do not fit on the fast node together.
Crowded ==
  [at |-> p1 :> <<1, 1, 0>> @@ p2 :> <<1, 1, 1>>,
   heatmaps |-> {p1 :> <<Ranged(1, 2, Hot), Ranged(3, 1, Cold)>> @@ p2 :> <<Ranged(1, 1, Hot)>>,
                 p1 :> <<Ranged(1, 1, Cold), Ranged(2, 2, Hot)>> @@ p2 :> <<Ranged(1, 1, Cold)>>},
   configs |-> {FastAndSlow}, numaSize |-> 0 :> 4,
   changes |-> 1, exits |-> TRUE, fails |-> FALSE]

\* Memory is swapped out and in again; of two ranges of a process one comes back.
Swapped ==
  [Crowded EXCEPT !.at = p1 :> <<0, Absent, 1>> @@ p2 :> <<1, 1, 1>>,
                  !.heatmaps = {p1 :> <<Ranged(1, 2, Cold), Ranged(3, 1, Hot)>> @@
                                p2 :> <<Ranged(1, 1, Cold), Ranged(2, 2, Cold)>>,
                                p1 :> <<Ranged(1, 3, Hot)>> @@ p2 :> <<>>},
                  !.configs = {Swapping}, !.exits = FALSE]

\* Ranges change, pages are not there, and moves fail.
Patchy ==
  [Crowded EXCEPT !.at = p1 :> <<1, 0, 1>> @@ p2 :> <<1, Absent, Absent>>,
                  !.heatmaps = {p1 :> <<Ranged(1, 3, Hot)>> @@ p2 :> <<>>,
                                p1 :> <<Ranged(2, 1, Cold)>> @@ p2 :> <<Ranged(1, 1, Hot)>>},
                  !.exits = FALSE, !.fails = TRUE]

\* The policy is configured anew.
Reconfigured ==
  [Patchy EXCEPT !.configs = {FastAndSlow, Swapping}, !.fails = FALSE]

AllScenarios == {Crowded, Swapped, Patchy, Reconfigured}
=============================================================================
