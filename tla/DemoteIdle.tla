----------------------------- MODULE DemoteIdle -----------------------------
(***************************************************************************)
(* The demote-idle policy (pkg/memtier/policy_demoteidle.go): in every     *)
(* round its loop goes through the processes with pages of interest, gives *)
(* the pages whose idle flag is still set to the mover, and sets the idle  *)
(* flags again.  The kernel clears the flag of a page that is accessed.    *)
(* Flags are written in words: SetIdleAll marks every page frame that      *)
(* shares a word with a page of interest, whosever it is.                  *)
(*                                                                         *)
(* The mover is the list of tasks that TaskCount counts, and pages move in *)
(* one step; module Mover has the rest.  Pages of interest are sets, their *)
(* representation as ranges is left out.  Pids are not reused.             *)
(***************************************************************************)
EXTENDS Naturals

CONSTANTS
  Pids,      \* processes, all of them running at first
  Pages,     \* the pages of a process
  Word,      \* Word[pg]: the word of the idle bitmap page pg is in
  Loops,     \* slots for loops: a bound on how many are alive
  Modes,     \* the values of usePOIDir: pages of interest from a directory
  Files,     \* what the files of the directory may list
  None       \* no process, no channel

ASSUME ConstantsAssumption ==
  /\ Modes \subseteq BOOLEAN /\ Files \subseteq SUBSET Pages
  /\ Pages \subseteq Pids \X Nat
  /\ None \notin Pids \cup Loops /\ "closed" \notin Loops

VARIABLES
  usePOIDir,  \* config.PagesOfInterestDir is set
  alive,      \* processes that run
  told,       \* processes the pid watcher has reported
  watching,   \* the pid watcher runs
  poi,        \* pages of interest: the map poi, or what the directory says
  idle,       \* pages with the idle flag
  onDest,     \* pages on the destination node
  recent,     \* history: pages accessed since their last marking for their own process
  masked,     \* history: those whose flag another process's round has set since
  handed,     \* history: pages of the watched processes given to the mover
  tasks,      \* tasks in the mover's list, as sets of pages
  moverOn,    \* the mover runs
  stop,       \* the field stop: a channel, named by the loop made with it
  stopping,   \* Stop has closed the channel, the field still holds it
  pc,         \* where each loop is
  snapshots,  \* pages of interest left in the round of a loop
  pid,        \* the process a loop works on
  idlePages,  \* its idle pages
  moverBusy,  \* moverBusyFromOldTasks
  waitsOn     \* the channel a loop waits on in its select

lifeCycle == <<watching, moverOn, stop, stopping>>
pageVars == <<idle, onDest, recent, masked>>
locals == <<snapshots, pid, idlePages, moverBusy>>
vars == <<usePOIDir, alive, told, poi, pageVars, handed, tasks, lifeCycle, pc, locals, waitsOn>>

PagesOf(p) == {pg \in Pages : pg[1] = p}

Init ==
  /\ usePOIDir \in Modes /\ alive = Pids /\ told = {} /\ watching = FALSE
  /\ poi = {} /\ idle = {} /\ onDest = {} /\ recent = {} /\ masked = {} /\ handed = {} /\ tasks = {}
  /\ moverOn = FALSE /\ stop = None /\ stopping = FALSE
  /\ pc = [l \in Loops |-> "off"]
  /\ snapshots = [l \in Loops |-> {}]
  /\ pid = [l \in Loops |-> None]
  /\ idlePages = [l \in Loops |-> {}]
  /\ moverBusy = [l \in Loops |-> FALSE]
  /\ waitsOn = [l \in Loops |-> None]

Goes(l, from, to) == pc[l] = from /\ pc' = [pc EXCEPT ![l] = to]

-----------------------------------------------------------------------------
(* Processes, the kernel, the mover, and who writes the directory *)

\* What was never marked has no round to be accessed after.
Access(pg) ==
  /\ pg[1] \in alive
  /\ idle' = idle \ {pg} /\ recent' = recent \cup ({pg} \cap idle) /\ masked' = masked \ {pg}
  /\ UNCHANGED <<usePOIDir, alive, told, poi, onDest, handed, tasks, lifeCycle, pc, locals, waitsOn>>

Exit(p) ==
  /\ p \in alive
  /\ alive' = alive \ {p}
  /\ idle' = idle \ PagesOf(p) /\ onDest' = onDest \ PagesOf(p)
  /\ recent' = recent \ PagesOf(p) /\ masked' = masked \ PagesOf(p)
  /\ UNCHANGED <<usePOIDir, told, poi, handed, tasks, lifeCycle, pc, locals, waitsOn>>

\* The mover moves what it can of a task; pages may be busy or pinned.
MoverMoves(task) ==
  /\ moverOn /\ task \in tasks
  /\ tasks' = tasks \ {task}
  /\ \E moved \in SUBSET {pg \in task : pg[1] \in alive} : onDest' = onDest \cup moved
  /\ UNCHANGED <<usePOIDir, alive, told, poi, idle, recent, masked, handed, lifeCycle, pc, locals, waitsOn>>

WriteFiles(pages) ==
  /\ usePOIDir /\ poi' = pages
  /\ UNCHANGED <<usePOIDir, alive, told, pageVars, handed, tasks, lifeCycle, pc, locals, waitsOn>>

-----------------------------------------------------------------------------
(* The listener of the pid watcher.  Without a directory only. *)

\* The maps of a process that has just exited cannot be read.
AddPids(p) ==
  /\ ~usePOIDir /\ watching /\ p \notin told
  /\ told' = told \cup {p}
  /\ poi' = IF p \in alive THEN poi \cup PagesOf(p) ELSE poi
  /\ UNCHANGED <<usePOIDir, alive, pageVars, handed, tasks, lifeCycle, pc, locals, waitsOn>>

RemovePids(p) ==
  /\ watching /\ p \in told \ alive
  /\ told' = told \ {p}
  /\ poi' = poi \ PagesOf(p)
  /\ UNCHANGED <<usePOIDir, alive, pageVars, handed, tasks, lifeCycle, pc, locals, waitsOn>>

-----------------------------------------------------------------------------
(* Start and Stop, by one client at a time *)

Start ==
  /\ stop = None
  /\ watching' = ~usePOIDir /\ moverOn' = TRUE
  /\ \E l \in Loops : Goes(l, "off", "snapshot") /\ stop' = l
  /\ UNCHANGED <<usePOIDir, alive, told, poi, pageVars, handed, tasks, stopping, locals, waitsOn>>

\* Mutant: the channel is forgotten without having been closed.
StopUnclosed ==
  /\ stop # None /\ ~stopping
  /\ watching' = FALSE /\ stopping' = TRUE
  /\ UNCHANGED <<usePOIDir, alive, told, poi, pageVars, handed, tasks, moverOn, stop, pc, locals, waitsOn>>

\* Stop closes the channel and then, in a step of its own, forgets it.
Stop ==
  /\ stop # None /\ ~stopping
  /\ watching' = FALSE /\ stopping' = TRUE
  /\ waitsOn' = [l \in Loops |-> IF waitsOn[l] = stop THEN "closed" ELSE waitsOn[l]]
  /\ UNCHANGED <<usePOIDir, alive, told, poi, pageVars, handed, tasks, moverOn, stop, pc, locals>>

Forget ==
  /\ stopping
  /\ stopping' = FALSE /\ stop' = None /\ moverOn' = FALSE
  /\ UNCHANGED <<usePOIDir, alive, told, poi, pageVars, handed, tasks, watching, pc, locals, waitsOn>>

-----------------------------------------------------------------------------
(* The loop: scanAndDemote, then a select on the stop channel and the ticker *)

\* The round is empty if the directory is locked by its writer.
Snapshot(l) ==
  /\ Goes(l, "snapshot", "look")
  /\ \E pages \in {poi} \cup {none \in {{}} : usePOIDir} : snapshots' = [snapshots EXCEPT ![l] = pages]
  /\ UNCHANGED <<usePOIDir, alive, told, poi, pageVars, handed, tasks, lifeCycle, pid, idlePages, moverBusy, waitsOn>>

Look(l) ==
  /\ Goes(l, "look", "next")
  /\ moverBusy' = [moverBusy EXCEPT ![l] = tasks # {}]
  /\ UNCHANGED <<usePOIDir, alive, told, poi, pageVars, handed, tasks, lifeCycle, snapshots, pid, idlePages, waitsOn>>

Pending(l) == {pg[1] : pg \in snapshots[l]}

\* The next process, in any order; one whose pagemap does not open is forgotten.
OpenPagemap(l, p) ==
  /\ p \in Pending(l) \cap alive
  /\ moverBusy' = [moverBusy EXCEPT ![l] = @ /\ tasks # {}]
  /\ Goes(l, "next", IF moverBusy'[l] THEN "mark" ELSE "scan")
  /\ pid' = [pid EXCEPT ![l] = p]
  /\ UNCHANGED <<usePOIDir, alive, told, poi, pageVars, handed, tasks, lifeCycle, snapshots, idlePages, waitsOn>>

CannotOpenPagemap(l, p) ==
  /\ p \in Pending(l) \ alive /\ Goes(l, "next", "next")
  /\ poi' = IF usePOIDir THEN poi ELSE poi \ PagesOf(p)
  /\ snapshots' = [snapshots EXCEPT ![l] = @ \ PagesOf(p)]
  /\ UNCHANGED <<usePOIDir, alive, told, pageVars, handed, tasks, lifeCycle, pid, idlePages, moverBusy, waitsOn>>

\* The pages the loop looks at; ForEachPage finds none if the process has exited.
Ranges(l) == {pg \in snapshots[l] : pg[1] = pid[l] /\ pid[l] \in alive}

\* Mutant: sets the flags in the same pass: a page that shares a word with one
\* that was seen before it looks idle.
ScanInOnePass(l) ==
  /\ Goes(l, "scan", "submit")
  /\ \E first \in Ranges(l) :
       idlePages' = [idlePages EXCEPT ![l] =
         {pg \in Ranges(l) : pg \in idle \/ (pg # first /\ Word[pg] = Word[first])}]
  /\ UNCHANGED <<usePOIDir, alive, told, poi, pageVars, handed, tasks, lifeCycle, snapshots, pid, moverBusy, waitsOn>>

Scan(l) ==
  /\ Goes(l, "scan", "submit")
  /\ idlePages' = [idlePages EXCEPT ![l] = Ranges(l) \cap idle]
  /\ UNCHANGED <<usePOIDir, alive, told, poi, pageVars, handed, tasks, lifeCycle, snapshots, pid, moverBusy, waitsOn>>

\* NotOnNode asks the kernel where the pages are; of a process that has exited
\* it returns nothing.
NotOnNode(pages) == {pg \in pages : pg[1] \in alive} \ onDest

\* The pages a task is made of.
ToMove(l) == IF usePOIDir THEN idlePages[l] ELSE NotOnNode(idlePages[l])

AddTask(l) ==
  /\ ToMove(l) # {} /\ Goes(l, "submit", IF usePOIDir THEN "mark" ELSE "subtract")
  /\ tasks' = tasks \cup {ToMove(l)} /\ handed' = IF usePOIDir THEN handed ELSE handed \cup ToMove(l)
  /\ idlePages' = [idlePages EXCEPT ![l] = IF usePOIDir THEN {} ELSE ToMove(l)]
  /\ UNCHANGED <<usePOIDir, alive, told, poi, pageVars, lifeCycle, snapshots, pid, moverBusy, waitsOn>>

NothingToMove(l) ==
  /\ ToMove(l) = {} /\ Goes(l, "submit", "mark")
  /\ idlePages' = [idlePages EXCEPT ![l] = {}]
  /\ UNCHANGED <<usePOIDir, alive, told, poi, pageVars, handed, tasks, lifeCycle, snapshots, pid, moverBusy, waitsOn>>

\* Mutant: all the pages of the process leave the pages of interest.
SubtractAll(l) ==
  /\ Goes(l, "subtract", "mark")
  /\ poi' = poi \ PagesOf(pid[l])
  /\ idlePages' = [idlePages EXCEPT ![l] = {}]
  /\ UNCHANGED <<usePOIDir, alive, told, pageVars, handed, tasks, lifeCycle, snapshots, pid, moverBusy, waitsOn>>

\* The pages leave the pages of interest when the task is made, not moved.
Subtract(l) ==
  /\ Goes(l, "subtract", "mark")
  /\ poi' = poi \ idlePages[l]
  /\ idlePages' = [idlePages EXCEPT ![l] = {}]
  /\ UNCHANGED <<usePOIDir, alive, told, pageVars, handed, tasks, lifeCycle, snapshots, pid, moverBusy, waitsOn>>

MarkedBy(l, marked) ==
  LET own == {pg \in marked : pg[1] = pid[l]} IN
  /\ idle' = idle \cup marked
  /\ recent' = recent \ own
  /\ masked' = (masked \ own) \cup ((marked \ own) \cap recent)

\* Mutant: a word in which some flag is still set is not written again.
SetIdleOnce(l) ==
  LET fresh(w) == \A pg \in Pages : Word[pg] = w => pg \notin idle
      marked == {pg \in Pages : /\ pg[1] \in alive /\ fresh(Word[pg])
                               /\ \E r \in Ranges(l) : Word[pg] = Word[r]} IN
  /\ Goes(l, "mark", "next")
  /\ MarkedBy(l, marked)
  /\ snapshots' = [snapshots EXCEPT ![l] = @ \ PagesOf(pid[l])]
  /\ pid' = [pid EXCEPT ![l] = None]
  /\ UNCHANGED <<usePOIDir, alive, told, poi, onDest, handed, tasks, lifeCycle, idlePages, moverBusy, waitsOn>>

\* SetIdleAll for the words of all the pages, whosever pages are in them.
SetIdleAll(l) ==
  LET marked == {pg \in Pages : pg[1] \in alive /\ \E r \in Ranges(l) : Word[pg] = Word[r]} IN
  /\ Goes(l, "mark", "next")
  /\ MarkedBy(l, marked)
  /\ snapshots' = [snapshots EXCEPT ![l] = @ \ PagesOf(pid[l])]
  /\ pid' = [pid EXCEPT ![l] = None]
  /\ UNCHANGED <<usePOIDir, alive, told, poi, onDest, handed, tasks, lifeCycle, idlePages, moverBusy, waitsOn>>

\* The select evaluates the field: a closed channel, an open one, or nil.
RoundEnds(l) ==
  /\ snapshots[l] = {} /\ Goes(l, "next", "select")
  /\ moverBusy' = [moverBusy EXCEPT ![l] = FALSE]
  /\ waitsOn' = [waitsOn EXCEPT ![l] = IF stopping THEN "closed" ELSE stop]
  /\ UNCHANGED <<usePOIDir, alive, told, poi, pageVars, handed, tasks, lifeCycle, snapshots, pid, idlePages>>

Tick(l) ==
  /\ Goes(l, "select", "snapshot")
  /\ waitsOn' = [waitsOn EXCEPT ![l] = None]
  /\ UNCHANGED <<usePOIDir, alive, told, poi, pageVars, handed, tasks, lifeCycle, locals>>

Return(l) ==
  /\ waitsOn[l] = "closed" /\ Goes(l, "select", "off")
  /\ waitsOn' = [waitsOn EXCEPT ![l] = None]
  /\ UNCHANGED <<usePOIDir, alive, told, poi, pageVars, handed, tasks, lifeCycle, locals>>

-----------------------------------------------------------------------------

Environment ==
  \/ \E pg \in Pages : Access(pg)
  \/ \E p \in Pids : Exit(p)
  \/ \E pages \in Files : WriteFiles(pages)

Watcher == \E p \in Pids : AddPids(p) \/ RemovePids(p)

Step(l) ==
  \/ Snapshot(l) \/ Look(l)
  \/ \E p \in Pids : OpenPagemap(l, p) \/ CannotOpenPagemap(l, p)
  \/ Scan(l) \/ AddTask(l) \/ NothingToMove(l) \/ Subtract(l) \/ SetIdleAll(l)
  \/ RoundEnds(l) \/ Tick(l)

MoverStep == \E task \in tasks : MoverMoves(task)

Next == \/ Environment \/ Watcher \/ Start \/ Stop \/ Forget \/ MoverStep
        \/ \E l \in Loops : Step(l) \/ Return(l)

Spec == Init /\ [][Next]_vars

\* Goroutines run, tickers tick, and a select does not prefer the ticker for ever.
Fairness == /\ WF_vars(Forget) /\ WF_vars(MoverStep)
            /\ \A l \in Loops : WF_vars(Step(l)) /\ SF_vars(Return(l))

FairSpec == Spec /\ Fairness

-----------------------------------------------------------------------------
(* Properties *)

TypeOK ==
  /\ usePOIDir \in Modes /\ alive \subseteq Pids /\ told \subseteq Pids
  /\ watching \in BOOLEAN /\ moverOn \in BOOLEAN /\ stopping \in BOOLEAN
  /\ {poi, idle, onDest, recent, masked, handed} \subseteq SUBSET Pages
  /\ tasks \subseteq SUBSET Pages /\ {} \notin tasks
  /\ stop \in Loops \cup {None} /\ (stopping => stop # None)
  /\ pc \in [Loops -> {"off", "snapshot", "look", "next", "scan", "submit", "subtract",
                       "mark", "select"}]
  /\ {snapshots, idlePages} \subseteq [Loops -> SUBSET Pages]
  /\ pid \in [Loops -> Pids \cup {None}]
  /\ \A l \in Loops : pid[l] # None <=> pc[l] \in {"scan", "submit", "subtract", "mark"}
  /\ moverBusy \in [Loops -> BOOLEAN]
  /\ waitsOn \in [Loops -> Loops \cup {None, "closed"}]

\* However the loops, the watcher and exits interleave, a page of a process the
\* watcher has reported stays of interest until it is given to the mover.
KeptOrHandedOver ==
  ~usePOIDir => \A pg \in Pages : pg[1] \in told \cap alive => pg \in poi \cup handed

\* policy_demoteidle.go:60-61 says that the policy "demotes pages that have not been
\* accessed (kernel idle page flag still set) since the previous scan round".  The code
\* marks whole words, also for processes that it has not scanned yet (435), so an
\* accessed page may look idle: only if it shares a word with a page of another process
\* that was marked after the access, and for no other reason.  However pages share words,
\* and whoever accesses them between the two passes over a process.
OnlyNeighboursMaskAccess ==
  [][\A l \in Loops : pc[l] = "scan" => idlePages'[l] \cap recent \subseteq masked]_vars

Runs(l) == pc[l] # "off"

\* A page that is not accessed any more, of a process that stays, does not stay
\* of interest, on the wrong node, for ever, also if the mover is busy in many rounds.
IdleIsDemoted ==
  \A pg \in Pages :
    <>[][~Access(pg)]_vars =>
      ~ <>[](/\ moverOn /\ \E l \in Loops : Runs(l)
             /\ pg[1] \in alive /\ pg \in poi \ onDest /\ ~usePOIDir)

\* A loop in its select never waits for a channel that no Stop will close any
\* more: a loop that missed a Stop is stopped by the next one.
StopReachesWaiters == \A l \in Loops : waitsOn[l] \in Loops => waitsOn[l] = stop

=============================================================================
