------------------------------ MODULE TaskPool ------------------------------
(***************************************************************************)
(* What the Mover promises about the tasks it is given, with neither       *)
(* goroutines nor channels nor locks: a task is submitted once, it is      *)
(* worked on by one worker at a time, a page of it is handed to the kernel *)
(* at most once, and the task counts as done only when every page has been *)
(* handed over.  Mover.tla is shown to implement this module.              *)
(***************************************************************************)
EXTENDS Integers

CONSTANTS Tasks,       \* the tasks that clients may submit
          PageCount    \* PageCount[t]: the number of pages of task t

VARIABLES phase,       \* phase[t]: where task t is
          tries        \* tries[t][i]: how often page i of t was handed over

Pages(t) == 1..PageCount[t]

Phases == {"new", "queued", "moving", "done", "dropped", "removed"}

Init == /\ phase = [t \in Tasks |-> "new"]
        /\ tries = [t \in Tasks |-> [i \in Pages(t) |-> 0]]

Goes(t, from, to) == /\ phase[t] = from
                     /\ phase' = [phase EXCEPT ![t] = to]

HandOver(t, chunk) ==
  /\ \A i \in chunk : tries[t][i] = 0
  /\ tries' = [tries EXCEPT ![t] = [i \in Pages(t) |-> IF i \in chunk THEN 1 ELSE @[i]]]

Submit(t)  == Goes(t, "new", "queued") /\ UNCHANGED tries
Take(t)    == Goes(t, "queued", "moving") /\ UNCHANGED tries
Requeue(t) == Goes(t, "moving", "queued") /\ UNCHANGED tries
Remove(t)  == Goes(t, "queued", "removed") /\ UNCHANGED tries

\* Hand over pages that follow the ones already handed over.
Move(t, lo, hi) ==
  /\ phase[t] = "moving"
  /\ \A i \in Pages(t) : tries[t][i] = 0 <=> i >= lo
  /\ HandOver(t, lo..hi)
  /\ UNCHANGED phase

\* A worker that fails, or may move no pages at all, gives the task up.
Drop(t) ==
  /\ Goes(t, "moving", "dropped")
  /\ \/ UNCHANGED tries
     \/ \E chunk \in SUBSET Pages(t) : HandOver(t, chunk)

Finish(t) ==
  /\ Goes(t, "moving", "done")
  /\ \A i \in Pages(t) : tries[t][i] = 1
  /\ UNCHANGED tries

Next == \E t \in Tasks :
           \/ Submit(t) \/ Take(t) \/ Requeue(t) \/ Remove(t)
           \/ Drop(t) \/ Finish(t)
           \/ \E lo, hi \in Pages(t) : Move(t, lo, hi)

Spec == Init /\ [][Next]_<<phase, tries>>
=============================================================================
