------------------------------ MODULE Scheduler ------------------------------
(***************************************************************************)
(* run_projects of rolen-orchestrator/src/scheduler.rs: one loop that      *)
(* harvests what agent threads have finished, decides whether to leave,    *)
(* and starts the tasks of several projects under one budget of slots.     *)
(*                                                                         *)
(* The loop's own variables are touched by nobody else; it meets the agent *)
(* threads in the two mutexes results and finished, in the workspace, in   *)
(* the cancel flag and in the questions of the project file.  A task is    *)
(* <<project, id>>, as global_task_key makes it; ids repeat across         *)
(* projects.  "Mutant" definitions are the next definition with a          *)
(* plausible mistake; no action uses them.                                 *)
(***************************************************************************)
EXTENDS Integers, Sequences, FiniteSets

CONSTANTS
  N,           \* how many projects run together; they are 0 .. N-1
  Batch,       \* project -> its tasks in the order of the batch file
  Deps,        \* task -> tasks of the same project it depends on
  Claims,      \* task -> its claimed paths
  Workdir,     \* project -> its working directory
  Repos,       \* projects where git is usable
  Limits,      \* the values of max_parallel
  PollEvery,   \* visits of a project between two looks at its questions
  Askers,      \* tasks whose agent may raise a question
  Flawed,      \* tasks whose agent may fail or leave files unwritten
  Fragile,     \* tasks whose agent thread may panic
  MayCancel,   \* whether the user may cancel
  Nobody       \* the owner of an unclaimed path

Projects == 0 .. N - 1
Tasks == UNION {{Batch[p][i] : i \in DOMAIN Batch[p]} : p \in Projects}
ProjectOf(t) == t[1]

\* What a task depends on, directly or not: the least set with its dependencies
\* that is closed under them.
Closed(S) == \A t \in S : Deps[t] \subseteq S
Ancestors == [t \in Tasks |->
  {a \in Tasks : \A S \in SUBSET Tasks : Deps[t] \subseteq S /\ Closed(S) => a \in S}]

\* What validate_dag accepts: ids are unique, dependencies exist in the same
\* batch, and there is no cycle.
ValidDag ==
  /\ \A p \in Projects : \A i, j \in DOMAIN Batch[p] :
        ProjectOf(Batch[p][i]) = p /\ (Batch[p][i] = Batch[p][j] => i = j)
  /\ \A t \in Tasks : \A d \in Deps[t] : d \in Tasks /\ ProjectOf(d) = ProjectOf(t)
  /\ \A t \in Tasks : t \notin Ancestors[t]

ASSUME SpecOK ==
  /\ N \in Nat \ {0}
  /\ \A p \in Projects : Batch[p] \in Seq(Tasks)
  /\ IsFiniteSet(Tasks) /\ ValidDag
  /\ Limits \subseteq Nat \ {0} /\ PollEvery \in Nat \ {0}
  /\ Repos \subseteq Projects
  /\ Askers \subseteq Tasks /\ Flawed \subseteq Tasks /\ Fragile \subseteq Tasks
  /\ Nobody \notin Tasks /\ MayCancel \in BOOLEAN

VARIABLES
  limit,      \* max_parallel
  loop,       \* where the loop is
  at,         \* the project it harvests, or the offset of the one it visits
  todo,       \* just_finished
  cursor,     \* the task it considers
  slots,      \* the slots left in this tick
  round,      \* round_robin, modulo N
  status,     \* ProjectState::status
  claimed,    \* <<workdir, path>> -> the task that claims it
  known,      \* pending_questions, as of the last poll
  countdown,  \* poll_countdown
  agent,      \* the agent thread of a task
  verdict,    \* what agent::run returned
  results,    \* the results mutex of a project
  finished,   \* the finished mutex of a project
  files,      \* the claimed files that exist
  saved,      \* tasks after which git::checkpoint was called
  questions,  \* the questions in the project file
  cancel,     \* the cancel flag
  served,     \* the projects that got a slot in this tick, and for each
  passed      \* project the ticks in a row that passed it over (history)

control  == <<loop, at, todo, cursor, slots, round>>
booking  == <<status, claimed, known, countdown>>
mailbox  == <<results, finished>>
world    == <<files, questions, cancel>>
history  == <<served, passed>>
vars == <<limit, loop, at, todo, cursor, slots, round, status, claimed, known,
          countdown, agent, verdict, results, finished, files, saved,
          questions, cancel, served, passed>>

Key(t, path) == <<Workdir[ProjectOf(t)], path>>
Keys(t) == {Key(t, path) : path \in Claims[t]}
AllKeys == UNION {Keys(t) : t \in Tasks}

Min(x, y) == IF x < y THEN x ELSE y

Alive(t) == agent[t] \in {"working", "finishing", "pushed"}

Init ==
  /\ limit \in Limits
  /\ loop = "drain" /\ at = 0 /\ todo = {} /\ cursor = 1 /\ slots = 0 /\ round = 0
  /\ status = [t \in Tasks |-> "pending"]
  /\ claimed = [k \in AllKeys |-> Nobody]
  /\ known = [p \in Projects |-> {}]
  /\ countdown = [p \in Projects |-> 0]
  /\ agent = [t \in Tasks |-> "none"]
  /\ verdict = [t \in Tasks |-> "none"]
  /\ results = [p \in Projects |-> {}]
  /\ finished = [p \in Projects |-> {}]
  /\ files = {}
  /\ saved = {}
  /\ questions = [t \in Tasks |-> "none"]
  /\ cancel = FALSE
  /\ served = {} /\ passed = [p \in Projects |-> 0]

-----------------------------------------------------------------------------
(* Harvesting.                                                             *)

\* finished.lock().drain() of the project in turn.
Drain ==
  /\ loop = "drain"
  /\ todo' = finished[at]
  /\ finished' = [finished EXCEPT ![at] = {}]
  /\ loop' = "harvest"
  /\ UNCHANGED <<limit, at, cursor, slots, round, booking, agent, verdict, results,
                 saved, world, history>>

\* claimed.retain(|_, owner| owner != &gkey).
\* Mutant (BatchEnds): only success gives the claims back.
ReleasedOnSuccess(t) == [k \in AllKeys |->
  IF claimed[k] = t /\ verdict[t] = "ok" THEN Nobody ELSE claimed[k]]
\* Mutant (WritersApart): the key of the owner forgets the project.
ReleasedById(t) == [k \in AllKeys |->
  IF claimed[k] # Nobody /\ claimed[k][2] = t[2] THEN Nobody ELSE claimed[k]]
Released(t) == [k \in AllKeys |-> IF claimed[k] = t THEN Nobody ELSE claimed[k]]

\* The honesty check: the claimed files exist.
\* Mutant (StartsOnFinishedWork): no honesty check.
MissingNothing(t) == {}
Missing(t) == Keys(t) \ files

\* One finished task, in any order of the drained set.  Its result is looked
\* for in all the results there are, and the others are dropped with it; a
\* task whose result has been dropped has failed ("worker vanished").
HarvestOne ==
  /\ loop = "harvest"
  /\ \E t \in todo :
       LET ok == <<t, "ok">> \in results[at] /\ Missing(t) = {}
       IN  /\ todo' = todo \ {t}
           /\ claimed' = Released(t)
           /\ results' = [results EXCEPT ![at] = {}]
           /\ status' = [status EXCEPT ![t] = IF ok THEN "done" ELSE "failed"]
           /\ saved' = IF ok /\ at \in Repos THEN saved \cup {t} ELSE saved
  /\ UNCHANGED <<limit, loop, at, cursor, slots, round, known, countdown, agent,
                 verdict, finished, world, history>>

Last == at + 1 = N

HarvestNext ==
  /\ loop = "harvest" /\ todo = {}
  /\ IF ~Last THEN loop' = "drain" /\ at' = at + 1
                   ELSE loop' = "decide" /\ at' = 0
  /\ UNCHANGED <<limit, todo, cursor, slots, round, booking, agent, verdict, mailbox,
                 saved, world, history>>

-----------------------------------------------------------------------------
(* Leaving, or counting the free slots.                                    *)

Settled == \A t \in Tasks : status[t] \in {"done", "failed"}

\* max_parallel.saturating_sub(running_total).
\* Mutant (SlotsRespected): the running tasks of the other projects are not
\* counted.
FreeOfFirst ==
  limit - Cardinality({t \in Tasks : status[t] = "running" /\ ProjectOf(t) = 0})
Free == limit - Cardinality({t \in Tasks : status[t] = "running"})

Decide ==
  /\ loop = "decide"
  /\ \/ /\ cancel \/ Settled
        /\ loop' = "joining"
        /\ UNCHANGED slots
     \/ /\ ~cancel /\ ~Settled
        /\ slots' = IF Free > 0 THEN Free ELSE 0
        /\ loop' = IF Free > 0 THEN "visit" ELSE "drain"
  /\ UNCHANGED <<limit, at, todo, cursor, round, booking, agent, verdict, mailbox, saved,
                 world, history>>

\* Every handle is joined, then the queues are shut down.
Joined == \A t \in Tasks : ~Alive(t)

Join ==
  /\ loop = "joining"
  /\ Joined
  /\ loop' = "reported"
  /\ UNCHANGED <<limit, at, todo, cursor, slots, round, booking, agent, verdict, mailbox,
                 saved, world, history>>

-----------------------------------------------------------------------------
(* Starting tasks.                                                         *)

\* The project the tick looks at: the first one rotates.
\* Mutant (NoProjectPassedOver): a fixed order.
VisitedFixed == at
Visited == (round + at) % N

\* pending_question_task_ids reads ids from the project file of the directory,
\* which projects in the same directory share.
Pending(p) ==
  {t \in Tasks : /\ ProjectOf(t) = p
                 /\ \E u \in Tasks : /\ Workdir[ProjectOf(u)] = Workdir[p]
                                     /\ u[2] = t[2] /\ questions[u] = "pending"}

Visit ==
  /\ loop = "visit"
  /\ LET p == Visited
     IN  \/ /\ countdown[p] = 0
            /\ known' = [known EXCEPT ![p] = Pending(p)]
            /\ countdown' = [countdown EXCEPT ![p] = PollEvery - 1]
         \/ /\ countdown[p] > 0
            /\ countdown' = [countdown EXCEPT ![p] = @ - 1]
            /\ UNCHANGED known
  /\ cursor' = 1
  /\ loop' = "consider"
  /\ UNCHANGED <<limit, at, todo, slots, round, status, claimed, agent, verdict, mailbox,
                 saved, world, history>>

Ready(t) == \A d \in Deps[t] : status[d] = "done"

DepFailed(t) == \E d \in Deps[t] : status[d] = "failed"
BlockedByQuestion(t) == Ancestors[t] \cap known[ProjectOf(t)] # {}
Overlaps(t) == \E k \in Keys(t) : claimed[k] # Nobody

Startable(t) ==
  status[t] = "pending" /\ ~DepFailed(t) /\ Ready(t) /\ ~BlockedByQuestion(t) /\ ~Overlaps(t)

\* The task under the cursor.
Considered == Batch[Visited][cursor]
Considering == loop = "consider" /\ slots > 0 /\ cursor \in DOMAIN Batch[Visited]

\* A failed dependency fails the task, whatever else holds.
Doom ==
  /\ Considering
  /\ status[Considered] = "pending" /\ DepFailed(Considered)
  /\ status' = [status EXCEPT ![Considered] = "failed"]
  /\ cursor' = cursor + 1
  /\ UNCHANGED <<limit, loop, at, todo, slots, round, claimed, known, countdown, agent,
                 verdict, mailbox, saved, world, history>>

\* Not pending, or to be looked at again in the next tick.
Skip ==
  /\ Considering
  /\ ~Startable(Considered)
  /\ ~(status[Considered] = "pending" /\ DepFailed(Considered))
  /\ cursor' = cursor + 1
  /\ UNCHANGED <<limit, loop, at, todo, slots, round, booking, agent, verdict, mailbox,
                 saved, world, history>>

Start ==
  /\ Considering
  /\ LET t == Considered
     IN  /\ Startable(t)
         /\ claimed' = [k \in AllKeys |-> IF k \in Keys(t) THEN t ELSE claimed[k]]
         /\ status' = [status EXCEPT ![t] = "running"]
         /\ agent' = [agent EXCEPT ![t] = "working"]
         /\ served' = served \cup {ProjectOf(t)}
  /\ slots' = slots - 1
  /\ cursor' = cursor + 1
  /\ UNCHANGED <<limit, loop, at, todo, round, known, countdown, verdict, mailbox, saved,
                 world, passed>>

\* The next project of the tick, or the end of the tick and the sleep.
VisitNext ==
  /\ loop = "consider" /\ ~Considering
  /\ \/ /\ slots > 0 /\ ~Last
        /\ loop' = "visit" /\ at' = at + 1
        /\ UNCHANGED <<round, history>>
     \/ /\ ~(slots > 0 /\ ~Last)
        /\ loop' = "drain" /\ at' = 0
        /\ round' = (round + 1) % N
        /\ passed' = [p \in Projects |->
             IF p \notin served /\ \E t \in Tasks : ProjectOf(t) = p /\ Startable(t)
             THEN Min(passed[p] + 1, N) ELSE 0]
        /\ served' = {}
  /\ UNCHANGED <<limit, todo, cursor, slots, booking, agent, verdict, mailbox, saved, world>>

Loop ==
  \/ Drain \/ HarvestOne \/ HarvestNext \/ Decide \/ Join
  \/ Visit \/ Doom \/ Skip \/ Start \/ VisitNext

-----------------------------------------------------------------------------
(* The agent threads, and the user.                                        *)

Hop(t, from, to) == agent[t] = from /\ agent' = [agent EXCEPT ![t] = to]

\* ask_user: the question is recorded and the agent goes on.
Ask(t) ==
  /\ t \in Askers /\ agent[t] = "working" /\ questions[t] = "none"
  /\ questions' = [questions EXCEPT ![t] = "pending"]
  /\ UNCHANGED <<limit, control, booking, agent, verdict, mailbox, files, saved, cancel,
                 history>>

\* What an agent that succeeds, or fails, or panics has written of its files by then.
Written(t) == \E w \in SUBSET Keys(t) : files' = files \cup w

\* agent::run returns; whether it succeeded and what it wrote are independent.
Finish(t) ==
  /\ Hop(t, "working", "finishing")
  /\ \/ verdict' = [verdict EXCEPT ![t] = "ok"] /\ files' = files \cup Keys(t)
     \/ t \in Flawed /\ verdict' = [verdict EXCEPT ![t] = "ok"] /\ Written(t)
     \/ (t \in Flawed \/ cancel) /\ verdict' = [verdict EXCEPT ![t] = "error"] /\ Written(t)
  /\ UNCHANGED <<limit, control, booking, mailbox, saved, questions, cancel,
                 history>>

\* The thread unwinds: it has no result and its id never gets into finished.
Panic(t) ==
  /\ t \in Fragile
  /\ Hop(t, "working", "panicked")
  /\ Written(t)
  /\ UNCHANGED <<limit, control, booking, verdict, mailbox, saved, questions, cancel,
                 history>>

\* First the result, then, under the other lock, the id.
Push(t) ==
  /\ Hop(t, "finishing", "pushed")
  /\ results' = [results EXCEPT ![ProjectOf(t)] = @ \cup {<<t, verdict[t]>>}]
  /\ UNCHANGED <<limit, control, booking, verdict, finished, saved, world, history>>
Insert(t) ==
  /\ Hop(t, "pushed", "ended")
  /\ finished' = [finished EXCEPT ![ProjectOf(t)] = @ \cup {t}]
  /\ UNCHANGED <<limit, control, booking, verdict, results, saved, world, history>>

Agent(t) == Ask(t) \/ Finish(t) \/ Panic(t) \/ Push(t) \/ Insert(t)

Answer(t) ==
  /\ questions[t] = "pending"
  /\ questions' = [questions EXCEPT ![t] = "answered"]
  /\ UNCHANGED <<limit, control, booking, agent, verdict, mailbox, files, saved, cancel,
                 history>>

Cancel ==
  /\ MayCancel /\ ~cancel
  /\ cancel' = TRUE
  /\ UNCHANGED <<limit, control, booking, agent, verdict, mailbox, files, saved, questions,
                 history>>

Next ==
  \/ Loop
  \/ \E t \in Tasks : Agent(t) \/ Answer(t)
  \/ Cancel

\* The loop and every agent keep running; the user owes nothing.
Fairness == WF_vars(Loop) /\ \A t \in Tasks : WF_vars(Finish(t) \/ Push(t) \/ Insert(t))

Spec == Init /\ [][Next]_vars
FairSpec == Spec /\ Fairness

-----------------------------------------------------------------------------
(* Properties.                                                             *)

TypeOK ==
  /\ limit \in Limits
  /\ loop \in {"drain", "harvest", "decide", "visit", "consider", "joining", "reported"}
  /\ at \in Projects /\ round \in Projects /\ todo \subseteq Tasks
  /\ cursor \in Nat /\ slots \in 0 .. limit
  /\ status \in [Tasks -> {"pending", "running", "done", "failed"}]
  /\ claimed \in [AllKeys -> Tasks \cup {Nobody}]
  /\ known \in [Projects -> SUBSET Tasks]
  /\ countdown \in [Projects -> 0 .. PollEvery - 1]
  /\ agent \in [Tasks -> {"none", "working", "finishing", "pushed", "ended", "panicked"}]
  /\ verdict \in [Tasks -> {"none", "ok", "error"}]
  /\ results \in [Projects -> SUBSET (Tasks \X {"ok", "error"})]
  /\ finished \in [Projects -> SUBSET Tasks]
  /\ files \subseteq AllKeys /\ saved \subseteq Tasks
  /\ questions \in [Tasks -> {"none", "pending", "answered"}]
  /\ cancel \in BOOLEAN
  /\ served \subseteq Projects /\ passed \in [Projects -> 0 .. N]

\* Overlapping claims never run together (scheduler.rs:33), across projects
\* too when they share a directory (scheduler.rs:245): no two agents that may
\* still write have a file in common.
WritersApart ==
  \A t, u \in Tasks : t # u /\ Alive(t) /\ Alive(u) => Keys(t) \cap Keys(u) = {}

\* One budget of slots for all projects (scheduler.rs:8).
SlotsRespected == Cardinality({t \in Tasks : Alive(t)}) <= limit

\* A task starts only on finished work (scheduler.rs:3): whatever it depends
\* on, directly or not, has succeeded, left its files and, where there is git,
\* been checkpointed.
StartsOnFinishedWork ==
  \A t \in Tasks : agent[t] # "none" =>
    \A d \in Ancestors[t] : /\ verdict[d] = "ok" /\ Keys(d) \subseteq files
                            /\ ProjectOf(d) \in Repos => d \in saved

\* Scarce slots go round (scheduler.rs:353): fewer than N ticks in a row that
\* have slots to give pass over a project with a task it could start.
NoProjectPassedOver == \A p \in Projects : passed[p] < N

\* Every batch comes to its report, with failing agents and a cancel at any
\* moment, unless the user leaves a question unanswered for ever or an agent
\* thread panics, whose task stays Running.
BatchEnds ==
  \/ <>(loop = "reported")
  \/ \E t \in Tasks : <>[](questions[t] = "pending") \/ <>(agent[t] = "panicked")

\* A completed task is reported done (scheduler.rs:6).
CompletedIsDone ==
  loop = "reported" /\ ~cancel =>
    \A t \in Tasks : verdict[t] = "ok" /\ Missing(t) = {} => status[t] = "done"

=============================================================================
