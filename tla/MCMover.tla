------------------------------ MODULE MCMover ------------------------------
(* Small instances of the mover for TLC. *)
EXTENDS Mover, TLC

CONSTANTS c1, c2, t1, t2, h1, h2

\* A policy that adds tasks and an operator who does everything else.
AllOps == c1 :> {"add"} @@ c2 :> OpNames \ {"add"}

\* One client adds tasks and starts the mover; nobody pauses or stops it.
NoStopOps == c1 :> {"add", "start"} @@ c2 :> {"config", "start", "wait", "continue", "remove"}

\* t1 needs two rounds at rate 1, t2 one round.
TwoSizes == t1 :> 2 @@ t2 :> 1

\* The only set of statuses the code waits for (prompt.go, mover -wait).
PromptWaits == {{"paused", "alldone"}}

\* Handler slots are interchangeable.
HandlerSymmetry == Permutations({h1, h2})
=============================================================================
