--------------------------- MODULE SchedulerProofs ---------------------------
(***************************************************************************)
(* Claims, slots and dependencies of Scheduler are respected, and the      *)
(* slots go round, for any number of projects and tasks, whatever agents,  *)
(* users and the order of their steps do.                                  *)
(***************************************************************************)
EXTENDS Scheduler, FiniteSetTheorems, TLAPS

\* The status map and the claims tell the truth about the agent threads.
Bookkeeping ==
  \A t \in Tasks :
    /\ status[t] = "pending" => agent[t] = "none"
    /\ Alive(t) => status[t] = "running"
    /\ agent[t] = "finishing" => verdict[t] # "none"
    /\ status[t] = "running" => agent[t] # "none" /\ \A k \in Keys(t) : claimed[k] = t

\* A task is on its way from its thread to the harvest at most once, as one
\* that runs and has ended, and what its thread pushed is its verdict.
Mail ==
  /\ \A t \in todo : agent[t] = "ended" /\ status[t] = "running" /\ ProjectOf(t) = at
  /\ \A p \in Projects : \A t \in finished[p] :
       agent[t] = "ended" /\ status[t] = "running" /\ ProjectOf(t) = p /\ t \notin todo
  /\ loop # "harvest" => todo = {}
  /\ \A p \in Projects : \A t \in Tasks, v \in {"ok", "error"} :
       <<t, v>> \in results[p] => v = verdict[t] /\ agent[t] \in {"pushed", "ended"}

\* The running tasks fit the limit, with the slots still to be given out.
Running == {t \in Tasks : status[t] = "running"}
Budget ==
  /\ Cardinality(Running) <= limit
  /\ loop \in {"visit", "consider"} => slots + Cardinality(Running) <= limit

\* A task has an agent only if all it depends on is done, and done means that
\* it succeeded, left its files and was checkpointed.
Done(t) ==
  /\ agent[t] = "ended" /\ verdict[t] = "ok" /\ Keys(t) \subseteq files
  /\ ProjectOf(t) \in Repos => t \in saved
Work ==
  \A t \in Tasks :
    /\ agent[t] # "none" => \A d \in Deps[t] : status[d] = "done"
    /\ status[t] = "done" => Done(t)

Booked == TypeOK /\ Bookkeeping /\ Mail
Scheduled == Booked /\ Budget /\ Work

\* What SpecOK says of tasks, in the form the steps below use.
LEMMA TaskFacts ==
  /\ \A t \in Tasks : ProjectOf(t) \in Projects /\ Deps[t] \subseteq Tasks /\ Keys(t) \subseteq AllKeys
  /\ IsFiniteSet(Tasks) /\ Limits \subseteq Nat /\ Nobody \notin Tasks
  /\ 0 \in Projects /\ N \in Nat \ {0} /\ PollEvery \in Nat \ {0}
<1>1. \A t \in Tasks : ProjectOf(t) \in Projects
  BY SpecOK DEF SpecOK, ValidDag, Tasks
<1>2. \A t \in Tasks : Keys(t) \subseteq AllKeys
  BY DEF AllKeys
<1> QED
  BY <1>1, <1>2, SpecOK DEF SpecOK, ValidDag, Projects

\* The batch begins with nothing started, claimed or counted.
LEMMA InitScheduled == Init => Scheduled
<1> SUFFICES ASSUME Init PROVE Scheduled
  OBVIOUS
<1> USE TaskFacts DEF Init
<1>1. TypeOK
  <2>1. limit \in Limits /\ slots \in 0 .. limit
    OBVIOUS
  <2>2. countdown \in [Projects -> 0 .. PollEvery - 1] /\ passed \in [Projects -> 0 .. N]
    OBVIOUS
  <2> QED
    BY <2>1, <2>2 DEF TypeOK
<1>2. Bookkeeping /\ Mail /\ Work
  BY DEF Bookkeeping, Mail, Work, Alive
<1>3. Budget
  <2>1. Running = {}
    BY DEF Running
  <2> QED
    BY <2>1, FS_EmptySet DEF Budget
<1> QED
  BY <1>1, <1>2, <1>3 DEF Scheduled, Booked

\* What HarvestOne does to the task it takes.
Harvested(t) ==
  /\ todo' = todo \ {t} /\ claimed' = Released(t)
  /\ results' = [results EXCEPT ![at] = {}]
  /\ \/ /\ <<t, "ok">> \in results[at] /\ Keys(t) \subseteq files
        /\ status' = [status EXCEPT ![t] = "done"]
        /\ saved' = IF at \in Repos THEN saved \cup {t} ELSE saved
     \/ status' = [status EXCEPT ![t] = "failed"] /\ saved' = saved

\* HarvestOne takes one of the drained tasks.
LEMMA HarvestFacts ==
  ASSUME HarvestOne PROVE \E t \in todo : Harvested(t)
BY DEF HarvestOne, Harvested, Missing

\* The project in turn is one of the batch, and so is the task under the cursor.
LEMMA VisitedFacts ==
  ASSUME TypeOK
  PROVE  /\ Visited \in Projects
         /\ Considering => Considered \in Tasks
<1>1. Visited \in Projects
  BY TaskFacts DEF Visited, Projects, TypeOK
<1> QED
  BY <1>1 DEF Considering, Considered, Tasks

\* Every step keeps the types.
LEMMA TypeStep ==
  ASSUME Booked, [Next]_vars PROVE TypeOK'
<1> USE TaskFacts DEF Booked, control, booking, mailbox, world, history
<1>1. CASE Drain
  BY <1>1 DEF Drain, TypeOK
<1>2. CASE HarvestOne
  <2> PICK t \in todo : Harvested(t)
    BY <1>2, HarvestFacts
  <2>1. claimed' \in [AllKeys -> Tasks \cup {Nobody}]
    BY DEF Harvested, Released, TypeOK
  <2>2. results' \in [Projects -> SUBSET (Tasks \X {"ok", "error"})]
    BY DEF Harvested, TypeOK
  <2> QED
    BY <1>2, <2>1, <2>2 DEF HarvestOne, Harvested, TypeOK
<1>3. CASE HarvestNext
  <2>1. ~Last => at + 1 \in Projects
    BY DEF TypeOK, Projects, Last
  <2> QED
    BY <1>3, <2>1 DEF HarvestNext, TypeOK
<1>4. CASE Decide
  <2>1. Cardinality(Running) \in Nat
    BY FS_CardinalityType, FS_Subset DEF Running
  <2>2. Free \in Int /\ Free <= limit /\ limit \in Nat
    BY <2>1 DEF Free, Running, TypeOK
  <2> QED
    BY <1>4, <2>2 DEF Decide, TypeOK
<1>5. CASE Join
  BY <1>5 DEF Join, TypeOK
<1>6. CASE Visit
  <2>1. /\ Visited \in Projects
        /\ \A p \in Projects : Pending(p) \subseteq Tasks
    BY VisitedFacts DEF Pending
  <2>2. known' \in [Projects -> SUBSET Tasks]
    BY <1>6, <2>1 DEF Visit, TypeOK
  <2>3. countdown' \in [Projects -> 0 .. PollEvery - 1]
    BY <1>6, <2>1 DEF Visit, TypeOK
  <2> QED
    BY <1>6, <2>2, <2>3 DEF Visit, TypeOK
<1>7. CASE Doom
  <2>1. Considered \in Tasks
    BY <1>7, VisitedFacts DEF Doom
  <2> QED
    BY <1>7, <2>1 DEF Doom, TypeOK
<1>8. CASE Skip
  BY <1>8 DEF Skip, TypeOK
<1>9. CASE Start
  <2>1. Considered \in Tasks /\ slots - 1 \in 0 .. limit
    BY <1>9, VisitedFacts DEF Start, Considering, TypeOK
  <2> QED
    BY <1>9, <2>1 DEF Start, TypeOK
<1>10. CASE VisitNext
  <2>1. ~Last => at + 1 \in Projects
    BY DEF TypeOK, Projects, Last
  <2>2. (round + 1) % N \in Projects
    BY DEF TypeOK, Projects
  <2>3. \A p \in Projects : Min(passed[p] + 1, N) \in 0 .. N
    BY DEF TypeOK, Min
  <2> QED
    BY <1>10, <2>1, <2>2, <2>3 DEF VisitNext, TypeOK
<1>11. ASSUME NEW t \in Tasks, Ask(t) PROVE TypeOK'
  BY <1>11 DEF Ask, TypeOK
<1>12. ASSUME NEW t \in Tasks, Finish(t) PROVE TypeOK'
  BY <1>12 DEF Finish, Written, Hop, TypeOK
<1>13. ASSUME NEW t \in Tasks, Panic(t) PROVE TypeOK'
  BY <1>13 DEF Panic, Written, Hop, TypeOK
<1>14. ASSUME NEW t \in Tasks, Push(t) PROVE TypeOK'
  <2>1. <<t, verdict[t]>> \in Tasks \X {"ok", "error"}
    BY <1>14 DEF Push, Hop, Bookkeeping, TypeOK
  <2> QED
    BY <1>14, <2>1 DEF Push, Hop, TypeOK
<1>15. ASSUME NEW t \in Tasks, Insert(t) PROVE TypeOK'
  BY <1>15 DEF Insert, Hop, TypeOK
<1>16. ASSUME NEW t \in Tasks, Answer(t) PROVE TypeOK'
  BY <1>16 DEF Answer, TypeOK
<1>17. CASE Cancel
  BY <1>17 DEF Cancel, TypeOK
<1>18. CASE UNCHANGED vars
  BY <1>18 DEF vars, TypeOK
<1> QED
  BY <1>1, <1>2, <1>3, <1>4, <1>5, <1>6, <1>7, <1>8, <1>9, <1>10, <1>11, <1>12, <1>13, <1>14, <1>15, <1>16, <1>17, <1>18 DEF Next, Loop, Agent

\* Every step keeps claims and status in agreement with the threads.
LEMMA BookkeepingStep ==
  ASSUME Booked, [Next]_vars PROVE Bookkeeping'
<1> USE TaskFacts DEF Booked, control, booking, mailbox, world, history
<1>1. CASE Drain
  BY <1>1 DEF Drain, Bookkeeping, Alive, TypeOK
<1>2. CASE HarvestOne
  <2> PICK t \in todo : Harvested(t)
    BY <1>2, HarvestFacts
  <2>0. t \in Tasks /\ agent[t] = "ended"
    BY DEF TypeOK, Mail
  <2>1. \A u \in Tasks, k \in AllKeys : u # t /\ claimed[k] = u => claimed'[k] = u
    BY DEF Harvested, Released, TypeOK
  <2> QED
    BY <1>2, <2>0, <2>1 DEF HarvestOne, Harvested, Bookkeeping, Alive, TypeOK
<1>3. CASE HarvestNext
  BY <1>3 DEF HarvestNext, Bookkeeping, Alive, TypeOK
<1>4. CASE Decide
  BY <1>4 DEF Decide, Bookkeeping, Alive, TypeOK
<1>5. CASE Join
  BY <1>5 DEF Join, Bookkeeping, Alive, TypeOK
<1>6. CASE Visit
  BY <1>6 DEF Visit, Bookkeeping, Alive, TypeOK
<1>7. CASE Doom
  <2>1. Considered \in Tasks
    BY <1>7, VisitedFacts DEF Doom
  <2> QED
    BY <1>7, <2>1 DEF Doom, Bookkeeping, Alive, TypeOK
<1>8. CASE Skip
  BY <1>8 DEF Skip, Bookkeeping, Alive, TypeOK
<1>9. CASE Start
  <2> DEFINE c == Considered
  <2>1. c \in Tasks /\ status[c] = "pending" /\ ~Overlaps(c)
    BY <1>9, VisitedFacts DEF Start, Startable
  <2>2. /\ \A k \in Keys(c) : claimed'[k] = c
        /\ \A u \in Tasks, k \in AllKeys : claimed[k] = u => claimed'[k] = u
    BY <1>9, <2>1 DEF Start, Overlaps, TypeOK
  <2>3. \A u \in Tasks \ {c} : agent'[u] = agent[u] /\ status'[u] = status[u]
    BY <1>9, <2>1 DEF Start, TypeOK
  <2>4. agent'[c] = "working" /\ status'[c] = "running" /\ verdict' = verdict
    BY <1>9, <2>1 DEF Start, TypeOK
  <2> QED
    BY <2>1, <2>2, <2>3, <2>4 DEF Bookkeeping, Alive
<1>10. CASE VisitNext
  BY <1>10 DEF VisitNext, Bookkeeping, Alive, TypeOK
<1>11. ASSUME NEW t \in Tasks, Ask(t) PROVE Bookkeeping'
  BY <1>11 DEF Ask, Bookkeeping, Alive, TypeOK
<1>12. ASSUME NEW t \in Tasks, Finish(t) PROVE Bookkeeping'
  BY <1>12 DEF Finish, Written, Hop, Bookkeeping, Alive, TypeOK
<1>13. ASSUME NEW t \in Tasks, Panic(t) PROVE Bookkeeping'
  BY <1>13 DEF Panic, Written, Hop, Bookkeeping, Alive, TypeOK
<1>14. ASSUME NEW t \in Tasks, Push(t) PROVE Bookkeeping'
  BY <1>14 DEF Push, Hop, Bookkeeping, Alive, TypeOK
<1>15. ASSUME NEW t \in Tasks, Insert(t) PROVE Bookkeeping'
  BY <1>15 DEF Insert, Hop, Bookkeeping, Alive, TypeOK
<1>16. ASSUME NEW t \in Tasks, Answer(t) PROVE Bookkeeping'
  BY <1>16 DEF Answer, Bookkeeping, Alive, TypeOK
<1>17. CASE Cancel
  BY <1>17 DEF Cancel, Bookkeeping, Alive, TypeOK
<1>18. CASE UNCHANGED vars
  BY <1>18 DEF vars, Bookkeeping, Alive, TypeOK
<1> QED
  BY <1>1, <1>2, <1>3, <1>4, <1>5, <1>6, <1>7, <1>8, <1>9, <1>10, <1>11, <1>12, <1>13, <1>14, <1>15, <1>16, <1>17, <1>18 DEF Next, Loop, Agent

\* No step puts a task into finished or todo twice.
LEMMA MailStep ==
  ASSUME Booked, [Next]_vars PROVE Mail'
<1> USE TaskFacts DEF Booked, control, booking, mailbox, world, history
<1>1. CASE Drain
  BY <1>1 DEF Drain, Mail, TypeOK
<1>2. CASE HarvestOne
  <2> PICK t \in todo : Harvested(t)
    BY <1>2, HarvestFacts
  <2>0. t \in Tasks /\ agent[t] = "ended"
    BY DEF TypeOK, Mail
  <2>1. /\ \A u \in todo' : u \in todo /\ u # t
        /\ \A u \in Tasks \ {t} : status'[u] = status[u]
        /\ \A p \in Projects : results'[p] \subseteq results[p]
    BY <2>0 DEF Harvested, TypeOK
  <2>2. \A p \in Projects : t \notin finished[p]
    BY DEF Mail
  <2> QED
    BY <1>2, <2>0, <2>1, <2>2 DEF HarvestOne, Harvested, Mail, TypeOK
<1>3. CASE HarvestNext
  BY <1>3 DEF HarvestNext, Mail, TypeOK
<1>4. CASE Decide
  BY <1>4 DEF Decide, Mail, TypeOK
<1>5. CASE Join
  BY <1>5 DEF Join, Mail, TypeOK
<1>6. CASE Visit
  BY <1>6 DEF Visit, Mail, TypeOK
<1>7. CASE Doom
  <2>1. Considered \in Tasks /\ status[Considered] = "pending"
    BY <1>7, VisitedFacts DEF Doom
  <2> QED
    BY <1>7, <2>1 DEF Doom, Mail, TypeOK
<1>8. CASE Skip
  BY <1>8 DEF Skip, Mail, TypeOK
<1>9. CASE Start
  <2>1. Considered \in Tasks /\ status[Considered] = "pending" /\ agent[Considered] = "none"
    BY <1>9, VisitedFacts DEF Start, Startable, Bookkeeping
  <2> QED
    BY <1>9, <2>1 DEF Start, Mail, TypeOK
<1>10. CASE VisitNext
  BY <1>10 DEF VisitNext, Mail, TypeOK
<1>11. ASSUME NEW t \in Tasks, Ask(t) PROVE Mail'
  BY <1>11 DEF Ask, Mail, TypeOK
<1>12. ASSUME NEW t \in Tasks, Finish(t) PROVE Mail'
  BY <1>12 DEF Finish, Written, Hop, Mail, TypeOK
<1>13. ASSUME NEW t \in Tasks, Panic(t) PROVE Mail'
  BY <1>13 DEF Panic, Written, Hop, Mail, TypeOK
<1>14. ASSUME NEW t \in Tasks, Push(t) PROVE Mail'
  <2>1. \A p \in Projects : \A r \in results'[p] : r \in results[p] \/ r = <<t, verdict[t]>>
    BY <1>14 DEF Push, TypeOK
  <2>2. agent[t] = "finishing" /\ agent'[t] = "pushed" /\ \A u \in Tasks \ {t} : agent'[u] = agent[u]
    BY <1>14 DEF Push, Hop, TypeOK
  <2> QED
    BY <1>14, <2>1, <2>2 DEF Push, Mail, TypeOK
<1>15. ASSUME NEW t \in Tasks, Insert(t) PROVE Mail'
  <2>1. status[t] = "running" /\ agent[t] = "pushed" /\ t \notin todo
    BY <1>15 DEF Insert, Hop, Bookkeeping, Alive, Mail
  <2>2. \A p \in Projects : finished'[p] = IF p = ProjectOf(t) THEN finished[p] \cup {t} ELSE finished[p]
    BY <1>15 DEF Insert, TypeOK
  <2>3. agent'[t] = "ended" /\ \A u \in Tasks \ {t} : agent'[u] = agent[u]
    BY <1>15 DEF Insert, Hop, TypeOK
  <2> QED
    BY <1>15, <2>1, <2>2, <2>3 DEF Insert, Mail, TypeOK
<1>16. ASSUME NEW t \in Tasks, Answer(t) PROVE Mail'
  BY <1>16 DEF Answer, Mail, TypeOK
<1>17. CASE Cancel
  BY <1>17 DEF Cancel, Mail, TypeOK
<1>18. CASE UNCHANGED vars
  BY <1>18 DEF vars, Mail, TypeOK
<1> QED
  BY <1>1, <1>2, <1>3, <1>4, <1>5, <1>6, <1>7, <1>8, <1>9, <1>10, <1>11, <1>12, <1>13, <1>14, <1>15, <1>16, <1>17, <1>18 DEF Next, Loop, Agent

\* There are finitely many tasks.
LEMMA RunningFinite == IsFiniteSet(Running)
BY TaskFacts, FS_Subset DEF Running

\* A start takes a slot; only the count in Decide gives slots out.
LEMMA BudgetStep ==
  ASSUME Booked, Budget, [Next]_vars PROVE Budget'
<1> USE TaskFacts DEF Booked, control, booking, mailbox, world, history
<1>1. CASE Drain
  BY <1>1 DEF Drain, Budget, Running
<1>2. CASE HarvestOne
  <2> PICK t \in todo : Harvested(t)
    BY <1>2, HarvestFacts
  <2>0. t \in Tasks /\ agent[t] = "ended"
    BY DEF TypeOK, Mail
  <2>1. Running' \subseteq Running
    BY DEF Harvested, Running, TypeOK, Mail
  <2>2. Cardinality(Running') <= Cardinality(Running) /\ Cardinality(Running') \in Nat /\ Cardinality(Running) \in Nat
    BY <2>1, RunningFinite, FS_Subset, FS_CardinalityType
  <2> QED
    BY <1>2, <2>2 DEF HarvestOne, Budget, TypeOK
<1>3. CASE HarvestNext
  BY <1>3 DEF HarvestNext, Budget, Running
<1>4. CASE Decide
  <2>1. Running' = Running /\ Cardinality(Running) \in Nat
    BY <1>4, RunningFinite, FS_CardinalityType DEF Decide, Running
  <2> QED
    BY <1>4, <2>1 DEF Decide, Free, Budget, Running, TypeOK
<1>5. CASE Join
  BY <1>5 DEF Join, Budget, Running
<1>6. CASE Visit
  BY <1>6 DEF Visit, Budget, Running
<1>7. CASE Doom
  <2>1. Considered \in Tasks
    BY <1>7, VisitedFacts DEF Doom
  <2>2. Running' = Running
    BY <1>7, <2>1 DEF Doom, Running, TypeOK
  <2> QED
    BY <1>7, <2>2 DEF Doom, Budget
<1>8. CASE Skip
  BY <1>8 DEF Skip, Budget, Running
<1>9. CASE Start
  <2>1. Considered \in Tasks /\ status[Considered] = "pending"
    BY <1>9, VisitedFacts DEF Start, Startable
  <2>2. Running' = Running \cup {Considered} /\ Considered \notin Running
    BY <1>9, <2>1 DEF Start, Running, TypeOK
  <2>3. /\ Cardinality(Running') = Cardinality(Running) + 1
        /\ Cardinality(Running) \in Nat
    BY <2>2, RunningFinite, FS_AddElement, FS_CardinalityType
  <2>4. slots' = slots - 1 /\ slots \in Nat /\ slots > 0 /\ limit \in Nat
    BY <1>9 DEF Start, Considering, TypeOK
  <2> QED
    BY <1>9, <2>3, <2>4 DEF Start, Considering, Budget
<1>10. CASE VisitNext
  BY <1>10 DEF VisitNext, Budget, Running
<1>11. ASSUME NEW t \in Tasks, Ask(t) PROVE Budget'
  BY <1>11 DEF Ask, Budget, Running
<1>12. ASSUME NEW t \in Tasks, Finish(t) PROVE Budget'
  BY <1>12 DEF Finish, Budget, Running
<1>13. ASSUME NEW t \in Tasks, Panic(t) PROVE Budget'
  BY <1>13 DEF Panic, Budget, Running
<1>14. ASSUME NEW t \in Tasks, Push(t) PROVE Budget'
  BY <1>14 DEF Push, Budget, Running
<1>15. ASSUME NEW t \in Tasks, Insert(t) PROVE Budget'
  BY <1>15 DEF Insert, Budget, Running
<1>16. ASSUME NEW t \in Tasks, Answer(t) PROVE Budget'
  BY <1>16 DEF Answer, Budget, Running
<1>17. CASE Cancel
  BY <1>17 DEF Cancel, Budget, Running
<1>18. CASE UNCHANGED vars
  BY <1>18 DEF vars, Budget, Running
<1> QED
  BY <1>1, <1>2, <1>3, <1>4, <1>5, <1>6, <1>7, <1>8, <1>9, <1>10, <1>11, <1>12, <1>13, <1>14, <1>15, <1>16, <1>17, <1>18 DEF Next, Loop, Agent

\* A task becomes done only by its harvest, and done tasks stay done.
LEMMA WorkStep ==
  ASSUME Booked, Work, [Next]_vars PROVE Work'
<1> USE TaskFacts DEF Booked, control, booking, mailbox, world, history
<1>1. CASE Drain
  BY <1>1 DEF Drain, Work, Done, TypeOK
<1>2. CASE HarvestOne
  <2> PICK t \in todo : Harvested(t)
    BY <1>2, HarvestFacts
  <2>0. t \in Tasks /\ agent[t] = "ended"
    BY DEF TypeOK, Mail
  <2>1. <<t, "ok">> \in results[at] => verdict[t] = "ok"
    BY DEF Mail, TypeOK
  <2>2. ProjectOf(t) = at /\ status[t] = "running"
    BY DEF Mail
  <2>3. \A u \in Tasks : status'[u] = "done" => Done(u)'
    BY <1>2, <2>0, <2>1, <2>2 DEF HarvestOne, Harvested, Work, Done, TypeOK
  <2>4. \A u \in Tasks : status[u] = "done" => status'[u] = "done"
    BY <2>0, <2>2 DEF Harvested, TypeOK
  <2> QED
    BY <1>2, <2>3, <2>4 DEF HarvestOne, Work
<1>3. CASE HarvestNext
  BY <1>3 DEF HarvestNext, Work, Done, TypeOK
<1>4. CASE Decide
  BY <1>4 DEF Decide, Work, Done, TypeOK
<1>5. CASE Join
  BY <1>5 DEF Join, Work, Done, TypeOK
<1>6. CASE Visit
  BY <1>6 DEF Visit, Work, Done, TypeOK
<1>7. CASE Doom
  <2>1. Considered \in Tasks /\ status[Considered] = "pending"
    BY <1>7, VisitedFacts DEF Doom
  <2> QED
    BY <1>7, <2>1 DEF Doom, Work, Done, TypeOK
<1>8. CASE Skip
  BY <1>8 DEF Skip, Work, Done, TypeOK
<1>9. CASE Start
  <2> DEFINE c == Considered
  <2>1. c \in Tasks /\ status[c] = "pending" /\ Ready(c)
    BY <1>9, VisitedFacts DEF Start, Startable
  <2>2. \A d \in Tasks : status'[d] = "done" <=> status[d] = "done"
    BY <1>9, <2>1 DEF Start, TypeOK
  <2>3. \A u \in Tasks \ {c} : agent'[u] = agent[u]
    BY <1>9, <2>1 DEF Start, TypeOK
  <2> QED
    BY <1>9, <2>1, <2>2, <2>3 DEF Start, Ready, Work, Done
<1>10. CASE VisitNext
  BY <1>10 DEF VisitNext, Work, Done, TypeOK
<1>11. ASSUME NEW t \in Tasks, Ask(t) PROVE Work'
  BY <1>11 DEF Ask, Work, Done, TypeOK
<1>12. ASSUME NEW t \in Tasks, Finish(t) PROVE Work'
  BY <1>12 DEF Finish, Written, Hop, Work, Done, TypeOK
<1>13. ASSUME NEW t \in Tasks, Panic(t) PROVE Work'
  BY <1>13 DEF Panic, Written, Hop, Work, Done, TypeOK
<1>14. ASSUME NEW t \in Tasks, Push(t) PROVE Work'
  BY <1>14 DEF Push, Hop, Work, Done, TypeOK
<1>15. ASSUME NEW t \in Tasks, Insert(t) PROVE Work'
  BY <1>15 DEF Insert, Hop, Work, Done, TypeOK
<1>16. ASSUME NEW t \in Tasks, Answer(t) PROVE Work'
  BY <1>16 DEF Answer, Work, Done, TypeOK
<1>17. CASE Cancel
  BY <1>17 DEF Cancel, Work, Done, TypeOK
<1>18. CASE UNCHANGED vars
  BY <1>18 DEF vars, Work, Done, TypeOK
<1> QED
  BY <1>1, <1>2, <1>3, <1>4, <1>5, <1>6, <1>7, <1>8, <1>9, <1>10, <1>11, <1>12, <1>13, <1>14, <1>15, <1>16, <1>17, <1>18 DEF Next, Loop, Agent

-----------------------------------------------------------------------------
\* All of it together.
LEMMA ScheduledInductive == Scheduled /\ [Next]_vars => Scheduled'
BY TypeStep, BookkeepingStep, MailStep, BudgetStep, WorkStep
   DEF Scheduled, Booked

\* The inductive invariant of the scheduler.
THEOREM SchedulerInvariant == Spec => []Scheduled
BY InitScheduled, ScheduledInductive, PTL DEF Spec

-----------------------------------------------------------------------------
(* What it implies.                                                        *)

\* No two agents that may still write have a claimed file in common, whatever
\* projects share a directory or an id.
THEOREM WritersStayApart == Spec => []WritersApart
<1>1. Scheduled => WritersApart
  BY DEF Scheduled, Booked, Bookkeeping, WritersApart
<1> QED
  BY <1>1, SchedulerInvariant, PTL

\* The agents of all projects together never exceed max_parallel.
THEOREM SlotsAreRespected == Spec => []SlotsRespected
<1>1. Scheduled => SlotsRespected
  <2> SUFFICES ASSUME Scheduled PROVE SlotsRespected
    OBVIOUS
  <2> DEFINE L == {t \in Tasks : Alive(t)}
  <2>1. L \subseteq Running
    BY DEF Scheduled, Booked, Bookkeeping, Running
  <2>2. /\ Cardinality(L) <= Cardinality(Running)
        /\ Cardinality(L) \in Nat /\ Cardinality(Running) \in Nat
    BY <2>1, RunningFinite, FS_Subset, FS_CardinalityType
  <2>3. limit \in Nat /\ Cardinality(Running) <= limit
    BY TaskFacts DEF Scheduled, Booked, TypeOK, Budget
  <2> QED
    BY <2>2, <2>3 DEF SlotsRespected
<1> QED
  BY <1>1, SchedulerInvariant, PTL

\* Whatever a started task depends on, directly or not, has succeeded, has left
\* its files and has been checkpointed: the done tasks are closed under their
\* dependencies, so they hold all ancestors of a task whose dependencies are
\* done.
THEOREM StartsAreOnFinishedWork == Spec => []StartsOnFinishedWork
<1>1. Scheduled => StartsOnFinishedWork
  <2> SUFFICES ASSUME Scheduled, NEW t \in Tasks, agent[t] # "none", NEW a \in Ancestors[t]
               PROVE  Done(a)
    BY DEF StartsOnFinishedWork, Done
  <2> DEFINE S == {u \in Tasks : status[u] = "done"}
  <2>1. Closed(S) /\ Deps[t] \subseteq S
    BY TaskFacts DEF Scheduled, Work, Done, Closed
  <2>2. a \in S
    BY <2>1 DEF Ancestors
  <2> QED
    BY <2>2 DEF Scheduled, Work
<1> QED
  BY <1>1, SchedulerInvariant, PTL

-----------------------------------------------------------------------------
(***************************************************************************)
(* Why the slots go round.  The project a tick visits first has slots to   *)
(* take and sees all its tasks; nothing within a tick makes startable what *)
(* was not so when it was looked at.  So it is not passed over, and the    *)
(* first place rotates.                                                    *)
(***************************************************************************)

\* How many ticks ago p was the first one visited.
Since(p) == IF round > p THEN round - 1 - p ELSE round - 1 - p + N

\* The tasks of the tick's first project that the tick has looked at.
Seen(i) == at > 0 \/ (loop = "consider" /\ i < cursor)

Ticking == loop \in {"visit", "consider"}
InTurn ==
  /\ cursor > 0
  /\ loop = "decide" => at = 0
  /\ loop = "visit" => slots > 0
  /\ loop = "consider" /\ slots = 0 => Visited \in served
FirstSeen ==
  Ticking /\ round \notin served =>
    \A i \in DOMAIN Batch[round] : Seen(i) => ~Startable(Batch[round][i])
Counted == \A p \in Projects : passed[p] <= Since(p)
Rotation == InTurn /\ FirstSeen /\ Counted

\* A remainder below twice the divisor.
LEMMA Remainder ==
  ASSUME NEW x \in Nat, x < N + N
  PROVE  x % N = IF x < N THEN x ELSE x - N
<1>1. N \in Nat /\ N > 0
  BY TaskFacts
<1> QED BY <1>1

\* The first project of a tick, and the others.
LEMMA FirstVisited ==
  ASSUME TypeOK
  PROVE  Visited = round <=> at = 0
<1>1. /\ round \in Nat /\ at \in Nat /\ round < N /\ at < N /\ N \in Nat
  BY TaskFacts DEF TypeOK, Projects
<1>2. Visited = IF round + at < N THEN round + at ELSE round + at - N
  BY <1>1, Remainder DEF Visited
<1> QED BY <1>1, <1>2

\* The tasks of a project are those of its batch.
LEMMA BatchFacts ==
  ASSUME NEW p \in Projects
  PROVE  /\ Len(Batch[p]) \in Nat /\ DOMAIN Batch[p] = 1 .. Len(Batch[p])
         /\ \A i \in DOMAIN Batch[p] : Batch[p][i] \in Tasks /\ ProjectOf(Batch[p][i]) = p
         /\ \A t \in Tasks : ProjectOf(t) = p => \E i \in DOMAIN Batch[p] : Batch[p][i] = t
<1>1. Batch[p] \in Seq(Tasks)
  BY SpecOK DEF SpecOK
<1>2. \A q \in Projects : \A i \in DOMAIN Batch[q] : ProjectOf(Batch[q][i]) = q
  BY SpecOK DEF SpecOK, ValidDag
<1>3. ASSUME NEW t \in Tasks, ProjectOf(t) = p PROVE \E i \in DOMAIN Batch[p] : Batch[p][i] = t
  BY <1>2, <1>3 DEF Tasks
<1> QED BY <1>1, <1>2, <1>3

\* Within a tick nothing finishes, fails less or gives claims back.
LEMMA StaysUnstartable ==
  ASSUME NEW t \in Tasks, ~Startable(t),
         known'[ProjectOf(t)] = known[ProjectOf(t)],
         status'[t] = "pending" => status[t] = "pending",
         \A d \in Tasks : /\ status'[d] = "done" => status[d] = "done"
                          /\ status[d] = "failed" => status'[d] = "failed",
         \A k \in AllKeys : claimed[k] # Nobody => claimed'[k] # Nobody
  PROVE  ~Startable(t)'
<1>1. Deps[t] \subseteq Tasks /\ Keys(t) \subseteq AllKeys
  BY TaskFacts
<1>2. DepFailed(t) => DepFailed(t)'
  BY <1>1 DEF DepFailed
<1>3. ~Ready(t) => ~Ready(t)'
  BY <1>1 DEF Ready
<1>4. BlockedByQuestion(t) => BlockedByQuestion(t)'
  BY DEF BlockedByQuestion
<1>5. Overlaps(t) => Overlaps(t)'
  BY <1>1 DEF Overlaps
<1> QED BY <1>2, <1>3, <1>4, <1>5 DEF Startable

LEMMA InitRotation == Init => Rotation
<1> SUFFICES ASSUME Init PROVE Rotation
  OBVIOUS
<1>1. InTurn /\ FirstSeen
  BY DEF Init, InTurn, FirstSeen, Ticking
<1>2. ASSUME NEW p \in Projects PROVE passed[p] <= Since(p)
  BY TaskFacts DEF Init, Since, Projects
<1> QED BY <1>1, <1>2 DEF Rotation, Counted

\* A step that leaves round and passed alone leaves the count as it is.
LEMMA CountedFrame ==
  ASSUME Counted, UNCHANGED <<round, passed>> PROVE Counted'
BY DEF Counted, Since

\* Agents and the user touch nothing the order of the tick depends on.
LEMMA RotationOutside ==
  ASSUME Rotation, UNCHANGED <<control, booking, history>> PROVE Rotation'
<1> USE DEF control, booking, history
<1>1. Counted'
  BY CountedFrame DEF Rotation
<1>2. InTurn'
  BY DEF Rotation, InTurn, Visited
<1>3. FirstSeen'
  BY DEF Rotation, FirstSeen, Ticking, Seen, Startable, DepFailed, Ready, BlockedByQuestion, Overlaps
<1> QED BY <1>1, <1>2, <1>3 DEF Rotation

\* Harvesting and leaving come before and after a tick.
LEMMA RotationBetween ==
  ASSUME Rotation, UNCHANGED <<cursor, round, passed>>, loop' \notin {"visit", "consider"},
         loop' = "decide" => at' = 0
  PROVE  Rotation'
<1>1. Counted'
  BY CountedFrame DEF Rotation
<1>2. InTurn' /\ FirstSeen'
  BY DEF Rotation, InTurn, FirstSeen, Ticking
<1> QED BY <1>1, <1>2 DEF Rotation

LEMMA RotationDecide ==
  ASSUME TypeOK, Rotation, Decide PROVE Rotation'
<1>1. CASE loop' = "visit"
  <2>1. UNCHANGED <<cursor, round, passed, at>> /\ slots' > 0 /\ at = 0
    BY <1>1, TaskFacts DEF Decide, history, Rotation, InTurn
  <2>2. Counted'
    BY <2>1, CountedFrame DEF Rotation
  <2>3. InTurn'
    BY <1>1, <2>1 DEF InTurn, Rotation
  <2>4. \A i : ~Seen(i)'
    BY <1>1, <2>1 DEF Seen
  <2>5. FirstSeen'
    BY <2>4 DEF FirstSeen
  <2> QED BY <2>2, <2>3, <2>5 DEF Rotation
<1>2. CASE loop' # "visit"
  BY <1>2, RotationBetween DEF Decide, history
<1> QED BY <1>1, <1>2

\* A poll of another project's questions, or the one before the first project is looked at.
LEMMA RotationVisit ==
  ASSUME TypeOK, Rotation, Visit PROVE Rotation'
<1>0. /\ UNCHANGED <<at, slots, round, status, claimed, served, passed>>
      /\ loop = "visit" /\ loop' = "consider" /\ cursor' = 1
  BY DEF Visit, history
<1>1. Counted'
  BY <1>0, CountedFrame DEF Rotation
<1>2. slots > 0 /\ slots' = slots /\ slots \in Nat
  BY <1>0, TaskFacts DEF Rotation, InTurn, TypeOK
<1>3. InTurn'
  BY <1>0, <1>2 DEF InTurn
<1>4. CASE at = 0
  <2>1. \A i \in DOMAIN Batch[round] : i \in Nat /\ i > 0
    BY BatchFacts DEF TypeOK
  <2>2. \A i \in DOMAIN Batch[round] : ~Seen(i)'
    BY <1>0, <1>4, <2>1 DEF Seen
  <2>3. FirstSeen'
    BY <1>0, <2>2 DEF FirstSeen
  <2> QED BY <1>1, <1>3, <2>3 DEF Rotation
<1>5. CASE at # 0
  <2>1. at > 0 /\ round \in Projects
    BY <1>5 DEF TypeOK, Projects
  <2>2. known'[round] = known[round]
    BY <1>5, <2>1, FirstVisited DEF Visit, TypeOK
  <2>3. ASSUME round \notin served, NEW i \in DOMAIN Batch[round] PROVE ~Startable(Batch[round][i])'
    <3>1. Batch[round][i] \in Tasks /\ ProjectOf(Batch[round][i]) = round
      BY <2>1, BatchFacts
    <3>2. ~Startable(Batch[round][i])
      BY <1>0, <2>1, <2>3 DEF Rotation, FirstSeen, Ticking, Seen
    <3> QED BY <1>0, <2>2, <3>1, <3>2, StaysUnstartable
  <2>4. FirstSeen'
    BY <1>0, <2>3 DEF FirstSeen
  <2> QED BY <1>1, <1>3, <2>4 DEF Rotation
<1> QED BY <1>4, <1>5

\* The cursor moves past a task that is not startable now.
LEMMA RotationMove ==
  ASSUME TypeOK, Rotation, Considering, cursor' = cursor + 1,
         NEW c \in Tasks, c = Considered, ~Startable(c)',
         UNCHANGED <<loop, at, slots, round, known, claimed, served, passed>>,
         \A t \in Tasks : /\ status'[t] = "pending" => status[t] = "pending"
                          /\ status'[t] = "done" => status[t] = "done"
                          /\ status[t] = "failed" => status'[t] = "failed"
  PROVE  Rotation'
<1>1. Counted'
  BY CountedFrame DEF Rotation
<1>0. UNCHANGED round
  OBVIOUS
<1>2. cursor \in Nat /\ loop = "consider" /\ slots # 0
  BY TaskFacts DEF TypeOK, Considering
<1>3. InTurn'
  BY <1>2 DEF Rotation, InTurn
<1>4. ASSUME round \notin served, NEW i \in DOMAIN Batch[round], Seen(i)'
      PROVE  ~Startable(Batch[round][i])'
  <2>1. Batch[round][i] \in Tasks /\ i \in Nat
    BY BatchFacts DEF TypeOK
  <2>2. CASE Seen(i)
    <3>1. ~Startable(Batch[round][i])
      BY <1>2, <1>4, <2>2 DEF Rotation, FirstSeen, Ticking
    <3> QED BY <2>1, <3>1, StaysUnstartable
  <2>3. CASE ~Seen(i)
    <3>1. at = 0 /\ i = cursor
      BY <1>2, <1>4, <2>1, <2>3 DEF Seen, TypeOK, Projects
    <3>2. Visited = round
      BY <3>1, FirstVisited
    <3>3. Batch[round][i] = c
      BY <3>1, <3>2 DEF Considered
    <3> QED BY <1>0, <3>3
  <2> QED BY <2>2, <2>3
<1>5. FirstSeen'
  BY <1>4 DEF FirstSeen
<1> QED BY <1>1, <1>3, <1>5 DEF Rotation

LEMMA RotationDoom ==
  ASSUME TypeOK, Rotation, Doom PROVE Rotation'
<1>1. PICK c \in Tasks : c = Considered
  BY VisitedFacts DEF Doom
<1>2. /\ Considering /\ cursor' = cursor + 1
      /\ UNCHANGED <<loop, at, slots, round, known, claimed, served, passed>>
      /\ status' = [status EXCEPT ![c] = "failed"]
  BY <1>1 DEF Doom, history
<1>3. /\ status'[c] = "failed"
      /\ \A t \in Tasks : /\ status'[t] = "pending" => status[t] = "pending"
                          /\ status'[t] = "done" => status[t] = "done"
                          /\ status[t] = "failed" => status'[t] = "failed"
  BY <1>2 DEF TypeOK
<1>4. ~Startable(c)'
  BY <1>3 DEF Startable
<1> QED BY <1>1, <1>2, <1>3, <1>4, RotationMove

LEMMA RotationSkip ==
  ASSUME TypeOK, Rotation, Skip PROVE Rotation'
<1>1. PICK c \in Tasks : c = Considered
  BY VisitedFacts DEF Skip
<1>2. /\ Considering /\ cursor' = cursor + 1 /\ ~Startable(c)
      /\ UNCHANGED <<loop, at, slots, round, known, claimed, served, passed, status>>
  BY <1>1 DEF Skip, history, booking
<1>3. ~Startable(c)'
  BY <1>2, StaysUnstartable
<1> QED BY <1>1, <1>2, <1>3, RotationMove

\* A start serves the project that is visited.
LEMMA RotationStart ==
  ASSUME TypeOK, Rotation, Start PROVE Rotation'
<1>1. PICK c \in Tasks : c = Considered
  BY VisitedFacts DEF Start
<1>2. /\ Considering /\ cursor' = cursor + 1 /\ slots' = slots - 1
      /\ UNCHANGED <<loop, at, round, known, passed>>
      /\ status' = [status EXCEPT ![c] = "running"]
      /\ claimed' = [k \in AllKeys |-> IF k \in Keys(c) THEN c ELSE claimed[k]]
      /\ served' = served \cup {ProjectOf(c)}
  BY <1>1 DEF Start
<1>3. ProjectOf(c) = Visited /\ Visited \in Projects
  BY <1>1, <1>2, VisitedFacts, BatchFacts DEF Considering, Considered
<1>4. loop = "consider" /\ cursor \in Nat
  BY <1>2 DEF Considering, TypeOK
<1>5. Counted'
  BY <1>2, CountedFrame DEF Rotation
<1>6. InTurn'
  BY <1>2, <1>3, <1>4 DEF InTurn, Visited
<1>7. status[c] = "pending"
  BY <1>1 DEF Start, Startable
<1>8. \A t \in Tasks : /\ status'[t] = "pending" => status[t] = "pending"
                       /\ status'[t] = "done" => status[t] = "done"
                       /\ status[t] = "failed" => status'[t] = "failed"
  BY <1>2, <1>7 DEF TypeOK
<1>9. \A k \in AllKeys : claimed[k] # Nobody => claimed'[k] # Nobody
  BY <1>2, TaskFacts
<1>10. ASSUME round \notin served', NEW i \in DOMAIN Batch[round], Seen(i)'
       PROVE  ~Startable(Batch[round][i])'
  <2>1. at # 0 /\ round \notin served
    BY <1>2, <1>3, <1>10, FirstVisited
  <2>2. Batch[round][i] \in Tasks
    BY BatchFacts DEF TypeOK
  <2>3. Seen(i)
    BY <2>1 DEF Seen, TypeOK, Projects
  <2>4. ~Startable(Batch[round][i])
    BY <1>4, <2>1, <2>3 DEF Rotation, FirstSeen, Ticking
  <2> QED BY <1>2, <1>8, <1>9, <2>2, <2>4, StaysUnstartable
<1>11. FirstSeen'
  BY <1>2, <1>10 DEF FirstSeen
<1> QED BY <1>5, <1>6, <1>11 DEF Rotation

\* A tick leaves a project when it has no slots left or has seen the project to its end.
LEMMA FirstDone ==
  ASSUME TypeOK, Rotation, loop = "consider", ~Considering, round \notin served
  PROVE  \A i \in DOMAIN Batch[round] : ~Startable(Batch[round][i])
<1> SUFFICES ASSUME NEW i \in DOMAIN Batch[round] PROVE ~Startable(Batch[round][i])
  OBVIOUS
<1>1. CASE at = 0
  <2>1. Visited = round /\ round \in Projects
    BY <1>1, FirstVisited DEF TypeOK
  <2>2. slots > 0
    BY <2>1, TaskFacts DEF Rotation, InTurn, TypeOK
  <2>3. cursor \notin DOMAIN Batch[round]
    BY <2>1, <2>2 DEF Considering
  <2>4. cursor > Len(Batch[round]) /\ i <= Len(Batch[round]) /\ i \in Nat /\ cursor \in Nat
    BY <2>1, <2>3, BatchFacts DEF TypeOK, Rotation, InTurn
  <2>5. Len(Batch[round]) \in Nat
    BY <2>1, BatchFacts
  <2>6. Seen(i)
    BY <2>4, <2>5 DEF Seen
  <2> QED BY <2>6 DEF Rotation, FirstSeen, Ticking
<1>2. CASE at # 0
  <2>1. Seen(i)
    BY <1>2 DEF Seen, TypeOK, Projects
  <2> QED BY <2>1 DEF Rotation, FirstSeen, Ticking
<1> QED BY <1>1, <1>2

LEMMA RotationAhead ==
  ASSUME TypeOK, Rotation, VisitNext, slots > 0, ~Last PROVE Rotation'
<1>0. /\ loop = "consider" /\ ~Considering
      /\ loop' = "visit" /\ at' = at + 1
      /\ UNCHANGED <<cursor, slots, round, status, known, claimed, served, passed>>
  BY DEF VisitNext, history, booking
<1>1. Counted'
  BY <1>0, CountedFrame DEF Rotation
<1>2. InTurn'
  BY <1>0 DEF Rotation, InTurn
<1>3. ASSUME round \notin served PROVE \A i \in DOMAIN Batch[round] : ~Startable(Batch[round][i])
  BY <1>0, <1>3, FirstDone
<1>4. \A i \in DOMAIN Batch[round] : Batch[round][i] \in Tasks
  BY BatchFacts DEF TypeOK
<1>5. ASSUME round \notin served, NEW i \in DOMAIN Batch[round] PROVE ~Startable(Batch[round][i])'
  BY <1>0, <1>3, <1>4, <1>5, StaysUnstartable
<1>6. FirstSeen'
  BY <1>0, <1>5 DEF FirstSeen
<1> QED BY <1>1, <1>2, <1>6 DEF Rotation

\* The end of the tick: its first project is not passed over, and is the last one next time.
LEMMA RotationEnd ==
  ASSUME TypeOK, Rotation, VisitNext, ~(slots > 0 /\ ~Last) PROVE Rotation'
<1>0. /\ loop = "consider" /\ ~Considering
      /\ loop' = "drain" /\ round' = (round + 1) % N /\ UNCHANGED cursor
      /\ passed' = [p \in Projects |->
             IF p \notin served /\ \E t \in Tasks : ProjectOf(t) = p /\ Startable(t)
             THEN Min(passed[p] + 1, N) ELSE 0]
  BY DEF VisitNext
<1>1. round \in Projects /\ round \in Nat /\ round < N /\ N \in Nat /\ N > 0
  BY TaskFacts DEF TypeOK, Projects
<1>2. round' = IF round + 1 < N THEN round + 1 ELSE 0
  BY <1>0, <1>1, Remainder
<1>3. passed'[round] = 0
  <2>1. CASE round \in served
    BY <1>0, <1>1, <2>1
  <2>2. CASE round \notin served
    <3>1. \A t \in Tasks : ProjectOf(t) = round => ~Startable(t)
      BY <1>0, <1>1, <2>2, FirstDone, BatchFacts
    <3> QED BY <1>0, <1>1, <3>1
  <2> QED BY <2>1, <2>2
<1>4. ASSUME NEW p \in Projects PROVE passed'[p] <= Since(p)'
  <2>1. p \in Nat /\ p < N /\ passed[p] \in Nat /\ passed[p] <= Since(p)
    BY <1>1, <1>4 DEF TypeOK, Projects, Rotation, Counted
  <2>2. Since(p)' = IF round' > p THEN round' - 1 - p ELSE round' - 1 - p + N
    BY DEF Since
  <2>3. CASE p = round
    BY <1>1, <1>2, <1>3, <2>1, <2>2, <2>3
  <2>4. CASE p # round
    <3>1. Since(p)' = Since(p) + 1
      BY <1>1, <1>2, <2>1, <2>2, <2>4 DEF Since
    <3>2. passed'[p] <= passed[p] + 1
      BY <1>0, <1>1, <2>1 DEF Min
    <3>3. passed'[p] \in Nat /\ Since(p) \in Int
      BY <1>0, <1>1, <2>1 DEF Min, Since
    <3> QED BY <2>1, <3>1, <3>2, <3>3
  <2> QED BY <2>3, <2>4
<1>5. Counted'
  BY <1>4 DEF Counted
<1>6. InTurn' /\ FirstSeen'
  BY <1>0 DEF Rotation, InTurn, FirstSeen, Ticking
<1> QED BY <1>5, <1>6 DEF Rotation

LEMMA RotationStep ==
  ASSUME TypeOK, Rotation, [Next]_vars PROVE Rotation'
<1>1. CASE Drain \/ HarvestOne \/ HarvestNext \/ Join
  <2>1. UNCHANGED <<cursor, round, passed>>
    BY <1>1 DEF Drain, HarvestOne, HarvestNext, Join, history
  <2>2. loop' \notin {"visit", "consider"} /\ (loop' = "decide" => at' = 0)
    BY <1>1 DEF Drain, HarvestOne, HarvestNext, Join
  <2> QED BY <2>1, <2>2, RotationBetween
<1>2. CASE VisitNext
  BY <1>2, RotationAhead, RotationEnd
<1>3. ASSUME NEW t \in Tasks, Agent(t) \/ Answer(t) PROVE Rotation'
  <2>1. UNCHANGED <<control, booking, history>>
    BY <1>3 DEF Agent, Ask, Finish, Panic, Push, Insert, Answer
  <2> QED BY <2>1, RotationOutside
<1>4. CASE Cancel \/ UNCHANGED vars
  BY <1>4, RotationOutside DEF Cancel, vars, control, booking, history
<1> QED BY <1>1, <1>2, <1>3, <1>4, RotationDecide, RotationVisit, RotationDoom, RotationSkip,
           RotationStart DEF Next, Loop

\* Fewer than N ticks in a row that have slots to give pass over a project with a task it
\* could start, for any number of projects, tasks and slots and whatever is polled, claimed
\* or cancelled in between.
THEOREM SlotsGoRound == Spec => []NoProjectPassedOver
<1>1. Scheduled => TypeOK
  BY DEF Scheduled, Booked
<1>2. TypeOK /\ Rotation /\ [Next]_vars => Rotation'
  BY RotationStep
<1>3. TypeOK /\ Rotation => NoProjectPassedOver
  <2> SUFFICES ASSUME TypeOK, Rotation, NEW p \in Projects PROVE passed[p] < N
    BY DEF NoProjectPassedOver
  <2>1. /\ p \in Nat /\ p < N /\ round \in Nat /\ round < N /\ N \in Nat
        /\ passed[p] \in Nat /\ passed[p] <= Since(p)
    BY TaskFacts DEF TypeOK, Projects, Rotation, Counted
  <2> QED BY <2>1 DEF Since
<1> QED BY <1>1, <1>2, <1>3, InitRotation, SchedulerInvariant, PTL DEF Spec
=============================================================================
