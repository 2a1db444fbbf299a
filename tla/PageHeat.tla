------------------------------ MODULE PageHeat ------------------------------
(***************************************************************************)
(* What a heatmap stands for: a heat of every page.  In one step it takes  *)
(* the counters of a moment: a page under a counter cools down for the     *)
(* time since its last counter and warms up by the accesses of the new     *)
(* one, other pages stay as they are, and processes without counters are   *)
(* forgotten.                                                              *)
(***************************************************************************)
EXTENDS Heatmap

CONSTANTS
  Pids,
  AllPages,   \* the pages of a process
  Cold        \* nothing is known of a page

VARIABLES
  now,        \* the time the counters were read
  tcs,        \* the counters
  heat        \* heat[pid][pg]: a heat and the time it was updated, or Cold

Init == heat = [pid \in Pids |-> [pg \in AllPages |-> Cold]]

Warmed(old, tc) ==
  LET before == IF old = Cold THEN 0 ELSE Cooled(old.heat, Seconds(old.updated, now)) IN
  [heat |-> AtMost(HeatMax, before + HeatOf(tc)), updated |-> now]

Covering(pid, pg) == {i \in DOMAIN tcs : tcs[i].pid = pid /\ pg \in PagesIn(tcs[i])}

Update ==
  heat' = [pid \in Pids |-> [pg \in AllPages |->
             IF \A i \in DOMAIN tcs : tcs[i].pid # pid THEN Cold
             ELSE IF Covering(pid, pg) = {} THEN heat[pid][pg]
             ELSE Warmed(heat[pid][pg], tcs[CHOOSE i \in Covering(pid, pg) : TRUE])]]

Spec == Init /\ [][Update]_heat
=============================================================================
