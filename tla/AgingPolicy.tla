----------------------------- MODULE AgingPolicy -----------------------------
(***************************************************************************)
(* The age policy (pkg/memtier/policy_age.go) and the ratio policy         *)
(* (policy_ratio.go).  In every round the loop of either brings a book of  *)
(* the tracker's counters up to date: when a counter was last seen, when   *)
(* it last changed, and in which of the last rounds it did.  The age       *)
(* policy swaps out or moves what has not changed for a while, and moves   *)
(* what has changed in every round; the ratio policy moves what was        *)
(* accessed least until a share of the memory of a process has moved.      *)
(*                                                                         *)
(* Times in the book are ages: the time from an event to the last round.   *)
(* The mover is the list of tasks that TaskCount counts, and pages move in *)
(* one step; module Mover has the rest.  The tracker may be any.           *)
(***************************************************************************)
EXTENDS TrackerCounters, FiniteSets

CONSTANTS
  Policies,        \* the policies the model is about: "age", "ratio"
  Pids,            \* processes, numbers; all of them run at first
  Ranges,          \* ranges that trackers may count for, with 0 accesses; some
                   \* overlap, as when a mapping grows
  MaxCount,        \* a bound on the accesses of a counter
  Deltas,          \* the times that may pass from one round to the next
  MaxAge,          \* a bound on ages: whatever is older is that old
  Interval,        \* config.IntervalMs
  LastRoundsBits,  \* the width of tcAge.LastRounds, 64 in the code
  SwapOut,         \* config.SwapOutMs, 0 if there is no swapping out
  IdleDuration,    \* config.IdleDurationMs, 0 if idle pages are not moved
  ActiveDuration,  \* config.ActiveDurationMs, the same for active pages
  SwapNode, IdleNode, ActiveNode,  \* NodeSwap, IdleNumas[0], ActiveNumas[0]
  Target,          \* config.RatioTargets[0]
  Percent,         \* config.Ratio in percent
  MinPages         \* a task has more pages than this, 100 in the code

ASSUME ConstantsAssumption ==
  /\ Policies \subseteq {"age", "ratio"} /\ Pids \subseteq Int
  /\ Ranges \subseteq [pid : Pids, addr : Int, length : Nat \ {0}, accesses : {0}]
  /\ IsFiniteSet(Ranges)
  /\ Deltas \subseteq Int /\ {Interval, LastRoundsBits} \subseteq Nat \ {0}
  /\ {MaxCount, MaxAge, SwapOut, IdleDuration, ActiveDuration, Percent, MinPages} \subseteq Nat
  /\ MaxAge > SwapOut /\ MaxAge > IdleDuration /\ MaxAge > 2 * Interval

VARIABLES
  policy,     \* the policy that runs
  alive,      \* processes that run
  counts,     \* the counters of the tracker: range -> accesses
  book,       \* the book (palt): range -> entry
  on,         \* the node each page is on
  tasks,      \* tasks in the mover's list
  trackerOn,  \* the tracker runs
  moverOn,    \* the mover runs
  cgLoop,     \* the channel to the loop: "nil", "open" or "closed"
  cpc,        \* where the client is
  pc,         \* where the loop is
  todo,       \* counters whose pages are left to be moved
  dest,       \* where to
  pages,      \* pages found of the first of them
  panicked,   \* the daemon is gone
  accessed,   \* history: ranges counted since the last round
  quiet,      \* history: time since the last round that found a range accessed
  busy        \* history: number of last rounds that all found it accessed

tracking == <<alive, counts, trackerOn, accessed>>
moving == <<on, tasks, moverOn>>
locals == <<todo, dest, pages>>
history == <<quiet, busy>>
vars == <<policy, tracking, book, moving, cgLoop, cpc, pc, locals, panicked, history>>

Pages == UNION {{r.pid} \X PagesIn(r) : r \in Ranges}
PagesOf(r) == {r.pid} \X PagesIn(r)
Known(p) == {r \in DOMAIN book : r.pid = p}
Counted(p) == \E r \in DOMAIN counts : r.pid = p
Without(f, S) == [r \in DOMAIN f \ S |-> f[r]]

Zeros == [r \in Ranges |-> 0]

Init ==
  /\ policy \in Policies /\ alive = Pids
  /\ counts = <<>> /\ book = <<>> /\ accessed = {} /\ quiet = Zeros /\ busy = Zeros
  /\ on = [pg \in Pages |-> ActiveNode] /\ tasks = {}
  /\ trackerOn = FALSE /\ moverOn = FALSE /\ cgLoop = "nil" /\ panicked = FALSE
  /\ cpc = "idle" /\ pc = "off" /\ todo = <<>> /\ dest = IdleNode /\ pages = {}

-----------------------------------------------------------------------------
(* Processes, the tracker and the mover *)

\* The tracker has scanned a range, and found it accessed or not.  A scan that is
\* under way when a process exits still counts its ranges, with 0.
Scan(r, n) ==
  LET old == IF r \in DOMAIN counts THEN counts[r] ELSE 0 IN
  /\ trackerOn /\ (r.pid \in alive \/ n = 0) /\ old + n <= MaxCount
  /\ counts' = [q \in DOMAIN counts \cup {r} |-> IF q = r THEN old + n ELSE counts[q]]
  /\ accessed' = IF n > 0 THEN accessed \cup {r} ELSE accessed
  /\ UNCHANGED <<policy, alive, trackerOn, book, moving, cgLoop, cpc, pc, locals, panicked, history>>

Exit(p) ==
  /\ p \in alive /\ alive' = alive \ {p}
  /\ UNCHANGED <<policy, counts, trackerOn, accessed, book, moving, cgLoop, cpc, pc, locals, panicked, history>>

\* The tracker, or the pid watcher for it, notices that a process is gone.
RemovePid(p) ==
  /\ p \notin alive /\ Counted(p)
  /\ counts' = Without(counts, {r \in Ranges : r.pid = p})
  /\ UNCHANGED <<policy, alive, trackerOn, accessed, book, moving, cgLoop, cpc, pc, locals, panicked, history>>

\* A process needs a page that was swapped out.
SwapIn(pg) ==
  /\ pg[1] \in alive /\ on[pg] = SwapNode
  /\ on' = [on EXCEPT ![pg] = ActiveNode]
  /\ UNCHANGED <<policy, tracking, book, tasks, moverOn, cgLoop, cpc, pc, locals, panicked, history>>

\* The mover moves what it can of a task; pages may be busy, and processes go.
MoverMoves(task) ==
  /\ moverOn /\ tasks' = tasks \ {task}
  /\ \E moved \in SUBSET {pg \in task.pages : pg[1] \in alive} :
        on' = [pg \in Pages |-> IF pg \in moved THEN task.dest ELSE on[pg]]
  /\ UNCHANGED <<policy, tracking, book, moverOn, cgLoop, cpc, pc, locals, panicked, history>>

-----------------------------------------------------------------------------
(* Start and Stop, of one client at a time *)

\* Start refuses as long as the channel is there.
Start ==
  /\ cpc = "idle" /\ cgLoop = "nil"
  /\ trackerOn' = TRUE /\ moverOn' = TRUE /\ cgLoop' = "open"
  /\ pc' = "round"
  /\ UNCHANGED <<policy, alive, counts, accessed, book, on, tasks, cpc, locals, panicked, history>>

\* Stop looks at the field, and again to send.
Stop ==
  /\ cpc = "idle"
  /\ trackerOn' = FALSE
  /\ cpc' = IF cgLoop = "nil" THEN "mover" ELSE "send"
  /\ UNCHANGED <<policy, alive, counts, accessed, book, moving, cgLoop, pc, locals, panicked, history>>

\* Sending to a nil channel blocks for ever, to a closed one it panics.
StopSend ==
  /\ cpc = "send"
  /\ cpc' = IF cgLoop = "open" THEN "sending" ELSE "hung"
  /\ panicked' = (cgLoop = "closed")
  /\ UNCHANGED <<policy, tracking, book, moving, cgLoop, pc, locals, history>>

StopMover ==
  /\ cpc = "mover" /\ cpc' = "idle" /\ moverOn' = FALSE
  /\ UNCHANGED <<policy, tracking, book, on, tasks, cgLoop, pc, locals, panicked, history>>

-----------------------------------------------------------------------------
(* A round of the loop: the book *)

Later(age, delta) == IF age + delta > MaxAge THEN MaxAge ELSE age + delta

\* The rounds of the active duration, and the highest bit of activeRoundMask: it
\* has one bit more than these rounds, and never more than LastRounds has.
AskedRounds == ActiveDuration \div Interval
ActiveRounds == IF AskedRounds < LastRoundsBits THEN AskedRounds ELSE LastRoundsBits - 1

\* Bits of LastRounds as a set: the i-th bit is for i rounds ago.  Only as many
\* bits are kept as are looked at.
Shifted(rounds) == {i \in 1 .. ActiveRounds : i - 1 \in rounds}

NewEntry(accesses) == [seen |-> 0, changed |-> 0, rounds |-> {0}, accesses |-> accesses]

\* Mutant: a changed counter is not marked as changed now.
UpdateCounterLate(entry, accesses, delta) ==
  IF accesses # entry.accesses
  THEN [seen |-> 0, changed |-> Later(entry.changed, delta), rounds |-> Shifted(entry.rounds) \cup {0},
        accesses |-> accesses]
  ELSE [seen |-> 0, changed |-> Later(entry.changed, delta), rounds |-> Shifted(entry.rounds),
        accesses |-> accesses]

UpdateCounter(entry, accesses, delta) ==
  IF accesses # entry.accesses
  THEN [seen |-> 0, changed |-> 0, rounds |-> Shifted(entry.rounds) \cup {0}, accesses |-> accesses]
  ELSE [seen |-> 0, changed |-> Later(entry.changed, delta), rounds |-> Shifted(entry.rounds),
        accesses |-> accesses]

\* A counter the tracker does not have now just gets older.
Unseen(entry, delta) ==
  [entry EXCEPT !.seen = Later(@, delta), !.changed = Later(@, delta)]

UpdatedBook(delta) ==
  [r \in DOMAIN book \cup DOMAIN counts |->
     IF r \notin DOMAIN book THEN NewEntry(counts[r])
     ELSE IF r \in DOMAIN counts THEN UpdateCounter(book[r], counts[r], delta)
     ELSE Unseen(book[r], delta)]

\* Mutant: counters of the dead are kept.
NoDeadCounters(entries) == {}
DeadCounters(entries) == {r \in DOMAIN entries : entries[r].seen > 2 * Interval}

FirstPhase == IF policy = "age" THEN "swapout" ELSE "ratio"

Round(delta) ==
  LET updated == UpdatedBook(delta) IN
  /\ pc = "round" /\ pc' = FirstPhase
  /\ book' = Without(updated, DeadCounters(updated))
  /\ quiet' = [r \in Ranges |-> IF r \in accessed THEN 0 ELSE Later(quiet[r], delta)]
  /\ busy' = [r \in Ranges |-> IF r \notin accessed THEN 0
                              ELSE IF busy[r] < AskedRounds THEN busy[r] + 1 ELSE AskedRounds]
  /\ accessed' = {}
  /\ UNCHANGED <<policy, alive, counts, trackerOn, moving, cgLoop, cpc, locals, panicked>>

-----------------------------------------------------------------------------
(* What to move *)

Counters(ranges) ==
  [i \in DOMAIN ranges |-> [ranges[i] EXCEPT !.accesses = book[ranges[i]].accesses]]

\* Move looks at the mover's list once, before the first counter.
Move(S, node) ==
  /\ pc' = "move" /\ dest' = node
  /\ \E ranges \in SortedByAddr(S) :
       todo' = IF tasks = {} THEN RegionsMerged(Counters(ranges)) ELSE <<>>
  /\ UNCHANGED <<policy, tracking, book, moving, cgLoop, cpc, pages, panicked, history>>

\* Mutant: idle a round too early.
IsIdleEarly(r, duration) == book[r].changed >= duration
IsIdle(r, duration) == book[r].changed > duration

IsActive(r) == 0 .. ActiveRounds \subseteq book[r].rounds

IdleCounters(duration) == {r \in DOMAIN book : duration > 0 /\ IsIdle(r, duration)}
ActiveCounters == {r \in DOMAIN book : ActiveDuration > 0 /\ IsActive(r)}

MoveSwapOut == pc = "swapout" /\ Move(IdleCounters(SwapOut), SwapNode)
MoveIdle == pc = "idle" /\ Move(IdleCounters(IdleDuration), IdleNode)
MoveActive == pc = "active" /\ Move(ActiveCounters, ActiveNode)

\* The pages of a process that are at the target, and its size by the book.
InTarget(p) == {pg \in Pages : pg[1] = p /\ on[pg] = Target}
Size(S) == FoldSet(LAMBDA r, n : n + r.length, 0, S)
Share(p) == (Percent * Size(Known(p))) \div 100

\* A prefix of the counters of p sorted by accesses, in any order of equals:
\* one more counter is taken as long as the share has not been reached.
IsLeastActive(p, S) ==
  LET moved == Cardinality(InTarget(p)) IN
  /\ \A r \in S, q \in Known(p) \ S : book[r].accesses <= book[q].accesses
  /\ S # {} => \E last \in S : /\ \A r \in S : book[r].accesses <= book[last].accesses
                               /\ moved + Size(S \ {last}) < Share(p)
  /\ S # Known(p) => moved + Size(S) >= Share(p)

\* Counting what is at the target and choosing are one step; processes whose
\* pages cannot be counted any more are skipped.
MoveRatio ==
  /\ pc = "ratio"
  /\ \E S \in SUBSET DOMAIN book :
       /\ \A p \in Pids : IF p \in alive THEN IsLeastActive(p, S \cap Known(p)) ELSE S \cap Known(p) = {}
       /\ Move(S, Target)

-----------------------------------------------------------------------------
(* Moving, and the end of a round *)

\* Mutant: an error leaves the counter in the list.
FindPagesAgain ==
  LET present == {pg \in Pages \cap PagesOf(Head(todo)) : on[pg] # SwapNode} IN
  /\ pc = "move" /\ todo # <<>> /\ UNCHANGED todo
  /\ IF Head(todo).pid \in alive THEN pc' = "nodes" /\ pages' = present ELSE UNCHANGED <<pc, pages>>
  /\ UNCHANGED <<policy, tracking, book, moving, cgLoop, cpc, dest, panicked, history>>

\* PagesMatching: of a process that is gone there is an error, and no task.
FindPages ==
  LET tc == Head(todo)
      present == {pg \in Pages \cap PagesOf(tc) : on[pg] # SwapNode} IN
  /\ pc = "move" /\ todo # <<>>
  /\ IF tc.pid \in alive
     THEN pc' = "nodes" /\ pages' = present /\ UNCHANGED todo
     ELSE todo' = Tail(todo) /\ UNCHANGED <<pc, pages>>
  /\ UNCHANGED <<policy, tracking, book, moving, cgLoop, cpc, dest, panicked, history>>

\* NotOnNode returns nil for a process that has gone meanwhile; its Pages panic.
AddTask ==
  LET tc == Head(todo)
      toMove == {pg \in pages : on[pg] # dest} IN
  /\ pc = "nodes" /\ pc' = "move"
  /\ panicked' = (tc.pid \notin alive)
  /\ tasks' = IF Cardinality(toMove) > MinPages /\ tc.pid \in alive
              THEN tasks \cup {[pages |-> toMove, dest |-> dest]} ELSE tasks
  /\ todo' = Tail(todo) /\ pages' = {}
  /\ UNCHANGED <<policy, tracking, book, on, moverOn, cgLoop, cpc, dest, history>>

NextPhase == IF policy = "ratio" THEN "select"
             ELSE IF dest = SwapNode THEN "idle" ELSE IF dest = IdleNode THEN "active" ELSE "select"

MoveEnds ==
  /\ pc = "move" /\ todo = <<>>
  /\ pc' = NextPhase
  /\ UNCHANGED <<policy, tracking, book, moving, cgLoop, cpc, locals, panicked, history>>

Tick ==
  /\ pc = "select" /\ pc' = "round"
  /\ UNCHANGED <<policy, tracking, book, moving, cgLoop, cpc, locals, panicked, history>>

\* The loop receives from Stop.
Quit ==
  /\ pc = "select" /\ cpc = "sending"
  /\ pc' = "close" /\ cpc' = "mover"
  /\ UNCHANGED <<policy, tracking, book, moving, cgLoop, locals, panicked, history>>

\* A sender that waits on the channel panics when it is closed.
Close ==
  /\ pc = "close" /\ pc' = "forget"
  /\ cgLoop' = "closed" /\ panicked' = (cpc = "sending")
  /\ UNCHANGED <<policy, tracking, book, moving, cpc, locals, history>>

\* The next loop starts with an empty book; nothing reads the old one till then.
Forget ==
  /\ pc = "forget" /\ pc' = "off"
  /\ cgLoop' = "nil"
  /\ book' = <<>> /\ accessed' = {} /\ quiet' = Zeros /\ busy' = Zeros
  /\ UNCHANGED <<policy, alive, counts, trackerOn, moving, cpc, locals, panicked>>

-----------------------------------------------------------------------------

Environment ==
  \/ \E r \in Ranges, n \in 0 .. MaxCount : Scan(r, n)
  \/ \E p \in Pids : Exit(p)
  \/ \E pg \in Pages : SwapIn(pg)

MoverStep == \E task \in tasks : MoverMoves(task)

ClientStep == StopSend \/ StopMover

LoopStep ==
  \/ \E delta \in Deltas : Round(delta)
  \/ MoveSwapOut \/ MoveIdle \/ MoveActive \/ MoveRatio
  \/ FindPages \/ AddTask \/ MoveEnds \/ Close \/ Forget

Next ==
  /\ ~panicked
  /\ \/ Environment \/ MoverStep \/ Start \/ Stop \/ ClientStep \/ LoopStep \/ Tick \/ Quit
     \/ \E p \in Pids : RemovePid(p)

Spec == Init /\ [][Next]_vars

\* Goroutines run, tickers tick, and the select takes a waiting Stop in the end.
\* Nothing makes a tracker notice that a process is gone.
Fairness == /\ WF_vars(LoopStep) /\ WF_vars(Tick) /\ SF_vars(Quit)
            /\ WF_vars(ClientStep) /\ WF_vars(MoverStep)

FairSpec == Spec /\ Fairness

-----------------------------------------------------------------------------
(* Properties *)

Nodes == {SwapNode, IdleNode, ActiveNode, Target}

Entries == [seen : Int, changed : Int, rounds : SUBSET (0 .. ActiveRounds), accesses : Nat]

TypeOK ==
  /\ policy \in Policies /\ alive \subseteq Pids
  /\ DOMAIN counts \subseteq Ranges /\ \A r \in DOMAIN counts : counts[r] \in 0 .. MaxCount
  /\ DOMAIN book \subseteq Ranges
  /\ \A r \in DOMAIN book : book[r] \in Entries /\ book[r].seen <= 2 * Interval
  /\ accessed \subseteq Ranges
  /\ quiet \in [Ranges -> Int] /\ busy \in [Ranges -> 0 .. AskedRounds]
  /\ on \in [Pages -> Nodes] /\ tasks \subseteq [pages : SUBSET Pages, dest : Nodes]
  /\ pages \subseteq Pages /\ dest \in Nodes
  /\ {trackerOn, moverOn, panicked} \subseteq BOOLEAN
  /\ cgLoop \in {"nil", "open", "closed"}
  /\ cpc \in {"idle", "send", "sending", "hung", "mover"}
  /\ pc \in {"off", "round", "swapout", "idle", "active", "ratio", "move", "nodes", "select",
             "close", "forget"}

\* The age policy does not demote and promote a range in one round: no counter
\* is idle and active (policy_age.go:418 and :377), also one the tracker does
\* not have any more.  For an idle duration of at least two intervals.
NoTugOfWar == \A r \in DOMAIN book : ~(IsIdle(r, IdleDuration) /\ IsActive(r))

\* policy_age.go:48 and :52 "If a tracker has not seen activity in a set of
\* pages during this time", :58 "on every check during this time": whatever is
\* swapped out or demoted is in a range of the book that the tracker, by its counter, has
\* not found accessed for so long, and whatever is promoted is in one that was
\* accessed before each of the last rounds: of as many as the duration has, or as
\* LastRounds can tell if these are fewer (policy_age.go:78 and :391-394).
OnlyLastingAgeMoves ==
  [][policy = "age" =>
       \A t \in tasks' \ tasks : \A pg \in t.pages : \E r \in DOMAIN book :
         /\ pg \in PagesOf(r)
         /\ CASE t.dest = ActiveNode -> busy[r] >= ActiveRounds
              [] t.dest = IdleNode -> quiet[r] > IdleDuration
              [] t.dest = SwapNode -> quiet[r] > SwapOut]_vars

Runs == pc \notin {"off", "close", "forget"}

\* A process that has gone leaves the book of a loop that runs once the tracker has
\* no counters of it, so that a process that gets its pid is not taken for it:
\* unless the tracker counts it again, which a scan under way may do
\* (tracker_softdirty.go:376-380).  However rounds are delayed.
GoneLeavesTheBook ==
  \A p \in Pids : p \notin alive /\ ~Counted(p) /\ Runs
                   ~> Known(p) = {} \/ Counted(p) \/ ~Runs \/ panicked

\* Stop returns, unless it has caught the channel between the loop's last select
\* and the moment the field is nil, or a process exits between two looks at its
\* pages and takes the daemon with it.
StopReturnsUnlessCaught == cpc # "idle" ~> cpc \in {"idle", "hung"} \/ panicked

=============================================================================
