---------------------------- MODULE MCSoftDirty ----------------------------
(* Small instances of the soft-dirty tracker for TLC. *)
EXTENDS SoftDirty, TLC

CONSTANTS c1, c2, p1, p2, s1, s2

\* A pid watcher, and a policy or an operator who does everything else.
WatcherAndPolicy == c1 :> {"add", "remove"} @@ c2 :> OpNames \ {"add", "remove"}

TwoRegions == p1 :> 2 @@ p2 :> 2

\* What a behaviour may contain beside the sampler's own steps.
VARIABLE scenario

\* Every call there is, and one process.
OneProcess ==
  /\ p2 \in alive'
  /\ \A a \in Actors : pid'[a] # p2

\* Two processes.  p1 stays once it is added, and a sampler once it is started,
\* while p2 is added, is removed and exits at any moment.
OneStays ==
  /\ p1 \in alive'
  /\ \A c \in Clients : ~Stop(c) /\ ~RemoveAllPids(c) /\ ~RemovePids(c, p1)
  /\ pc'[s2] = "off"

\* The slots of samplers are alike: s1 is taken first.
FirstSlotFirst == pc[s1] = "off" /\ pc[s2] = "off" => pc'[s2] = "off"

ScenarioInit == Init /\ scenario \in {"one process", "one stays"}

ScenarioNext ==
  /\ Next /\ UNCHANGED scenario
  /\ FirstSlotFirst
  /\ scenario = "one process" => OneProcess
  /\ scenario = "one stays" => OneStays

\* Only calls and exits are kept away, and no call or exit is fair.
ScenarioSpec == ScenarioInit /\ [][ScenarioNext]_<<vars, scenario>> /\ Fairness
=============================================================================
