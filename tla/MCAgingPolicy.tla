---------------------------- MODULE MCAgingPolicy ----------------------------
(* Small instances of the age and ratio policies for TLC. *)
EXTENDS AgingPolicy

Range1(addr, length) == [pid |-> 1, addr |-> addr, length |-> length, accesses |-> 0]

\* Two ranges that touch, and are merged when both are to be moved.
Touching == {Range1(0, 1), Range1(1, 1)}

\* One range, of two pages, somewhere else.
OneRange == {Range1(4, 2)}

AllRanges == Touching \cup OneRange

\* The ranges that a tracker counts for, and the processes that may exit: either two
\* ranges are merged, or processes go while a range of theirs is in the book.
VARIABLE scenario

Scenarios == {[ranges |-> Touching, exits |-> {}], [ranges |-> OneRange, exits |-> Pids]}

ScenarioInit == Init /\ scenario \in Scenarios

ScenarioNext ==
  /\ Next /\ UNCHANGED scenario
  /\ DOMAIN counts' \subseteq scenario.ranges
  /\ alive \ alive' \subseteq scenario.exits

\* Only scans and exits are kept away, and no scan or exit is fair.
ScenarioSpec == ScenarioInit /\ [][ScenarioNext]_<<vars, scenario>> /\ Fairness
=============================================================================
