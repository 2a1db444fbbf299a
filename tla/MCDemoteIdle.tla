---------------------------- MODULE MCDemoteIdle ----------------------------
(* Small instances of the demote-idle policy for TLC. *)
EXTENDS DemoteIdle, TLC

CONSTANTS p1, p2, l1

\* A process with two pages and one with a single page.
ThreePages == {<<p1, 1>>, <<p1, 2>>, <<p2, 1>>}

\* The directory, once it has been written.
AllPages == {Pages}

\* All pages, whosever they are, share a word of the bitmap.
OneWord == [pg \in Pages |-> 1]
=============================================================================
