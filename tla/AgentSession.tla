---------------------------- MODULE AgentSession ----------------------------
(***************************************************************************)
(* The agent loop of rolen-runtime/src/agent.rs, agent::run, as the steps  *)
(* of one session and of the sessions that resume it: the history it sends *)
(* to the model, its compaction, nudges, the step limit, cancel and pause, *)
(* the session's row in the ledger and its context snapshot.  The process  *)
(* may die between any two steps; rows and snapshots stay.                 *)
(*                                                                         *)
(* A call is here one step that succeeds or fails for good; its retries    *)
(* and migrations are in ProviderLimit.  A message is a kind and the rounds *)
(* of tool calls it reports: one for their results, none for others and    *)
(* all those of what it replaced for the note of a compaction.             *)
(* "Mutant" definitions are the next definition with a plausible mistake;  *)
(* no action uses them.                                                    *)
(***************************************************************************)
EXTENDS Integers, Sequences

CONSTANTS
  Runs,        \* how often the task is run or resumed
  MaxSteps,    \* max_steps, 30 by default
  MaxNudges,   \* 3
  KeepHead,    \* keep_head, 2
  KeepTail,    \* keep_tail, 6
  CompactOver, \* histories up to this length are never compacted, 4
  MayPause,    \* whether the user may pause
  MayDie       \* whether the process may die

ASSUME SessionOK ==
  /\ Runs \in Nat \ {0} /\ MaxSteps \in Nat \ {0} /\ MaxNudges \in Nat
  /\ KeepHead \in Nat \ {0} /\ KeepTail \in Nat \ {0} /\ CompactOver \in Nat
  /\ MayPause \in BOOLEAN /\ MayDie \in BOOLEAN

\* The system message and the task are kept, and whole exchanges of two messages.
ASSUME KeepsExchanges == KeepHead = 2 /\ KeepTail % 2 = 0

VARIABLES
  pc,       \* where the loop is
  run,      \* the session that runs, or ran last
  history,  \* history
  steps,    \* steps
  nudges,   \* nudges
  pause,    \* the pause flag
  cancel,   \* the cancel flag
  needy,    \* needs_work: files are missing, or nothing has been written
  row,      \* the state of each session in the ledger
  snap,     \* the snapshot file of each session
  worked,   \* how many rounds of tool calls have taken effect (history)
  missed,   \* the rounds a resumed session was not told of (history)
  late,     \* rounds begun after the session was cancelled (history)
  unsaved   \* the session's last snapshot could not be written (history)

counters == <<steps, nudges>>
flags    == <<pause, cancel>>
past     == <<worked, missed, late, unsaved>>
vars == <<pc, run, history, steps, nudges, pause, cancel, needy, row, snap,
          worked, missed, late, unsaved>>

Kinds == {"system", "task", "calls", "results", "text", "nudge", "note"}
Message == [kind : Kinds, tells : SUBSET Nat]
Msg(k, rounds) == [kind |-> k, tells |-> rounds]

\* What a snapshot file may be: missing, half written, or a history.
NoFile == <<"missing">>
Torn   == <<"torn">>
File(h) == <<"whole", h>>
Readable(f) == f \notin {NoFile, Torn}

\* The rounds a history reports.
Told(h) == UNION {h[i].tells : i \in DOMAIN h}

Fresh == <<Msg("system", {}), Msg("task", {})>>

Init ==
  /\ pc = "top" /\ run = 1
  /\ history = Fresh
  /\ steps = 0 /\ nudges = 0
  /\ pause = FALSE /\ cancel = FALSE
  /\ needy \in BOOLEAN
  /\ row = [r \in 1 .. Runs |-> IF r = 1 THEN "running" ELSE "absent"]
  /\ snap = [r \in 1 .. Runs |-> NoFile]
  /\ worked = 0 /\ missed = {} /\ late = 0 /\ unsaved = FALSE

Goto(from, to) == pc = from /\ pc' = to
Mark(state) == row' = [row EXCEPT ![run] = state]

-----------------------------------------------------------------------------
(* Between two steps: the limit, cancel and pause.                         *)

\* Mutant (CancelStopsWork): cancel is looked at only when a pause ends.
HeedsLate == FALSE
Heeds == cancel

AtLimit == steps >= MaxSteps

Top ==
  /\ \/ AtLimit /\ Goto("top", "failing")
     \/ ~AtLimit /\ Heeds /\ Goto("top", "cancelling")
     \/ ~AtLimit /\ ~Heeds /\ Goto("top", "gate")
  /\ steps' = steps + 1
  /\ UNCHANGED <<run, history, nudges, flags, needy, row, snap, past>>

\* Cancelling ends a pause.
\* Mutant (SessionEnds): it does not.
MayPassIfCleared == ~pause
MayPass == ~pause \/ cancel

\* The first look at the pause flag.
PassGate ==
  /\ Goto("gate", "compact")
  /\ MayPass
  /\ UNCHANGED <<run, history, counters, flags, needy, row, snap, past>>

EnterPause ==
  /\ Goto("gate", "pausing")
  /\ ~MayPass
  /\ Mark("paused")
  /\ UNCHANGED <<run, history, counters, flags, needy, snap, past>>

\* write_snapshot: fs::write empties the file, then fills it.
\* Mutant (PausedIsResumable): the snapshot of the last pause is kept.
EmptiedIfMissing == IF snap[run] = NoFile THEN Torn ELSE snap[run]
Emptied == Torn
Filled == IF snap[run] = Torn THEN File(history) ELSE snap[run]

Truncate ==
  /\ \/ Goto("pausing", "saving") \/ Goto("cancelled", "keeping")
  /\ snap' = [snap EXCEPT ![run] = Emptied]
  /\ UNCHANGED <<run, history, counters, flags, needy, row, past>>

Save ==
  /\ \/ Goto("saving", "paused") \/ Goto("keeping", "ended")
  /\ snap' = [snap EXCEPT ![run] = Filled]
  /\ unsaved' = FALSE
  /\ UNCHANGED <<run, history, counters, flags, needy, row, worked, missed, late>>

\* The file cannot be opened, or not filled; the session goes on all the same.
SaveFails ==
  /\ \/ Goto("pausing", "paused") \/ Goto("saving", "paused")
     \/ Goto("cancelled", "ended") \/ Goto("keeping", "ended")
  /\ unsaved' = TRUE
  /\ UNCHANGED <<run, history, counters, flags, needy, row, snap, worked, missed, late>>

\* Cleared or cancelled, the step the session stopped before goes on.
LeavePause ==
  /\ Goto("paused", "compact")
  /\ MayPass
  /\ Mark("running")
  /\ UNCHANGED <<run, history, counters, flags, needy, snap, past>>

-----------------------------------------------------------------------------
(* maybe_compact.                                                          *)

Surplus == Len(history) - KeepHead - KeepTail

\* The head, a note about the middle and the tail.
\* Mutant (ResultsFollowCalls): the tail begins one message late.
CompactedLate ==
  LET cut == Len(history) - KeepTail + 1
  IN  SubSeq(history, 1, KeepHead)
      \o <<Msg("note", Told(SubSeq(history, KeepHead + 1, cut)))>>
      \o SubSeq(history, cut + 1, Len(history))
Compacted ==
  LET cut == Len(history) - KeepTail
  IN  SubSeq(history, 1, KeepHead)
      \o <<Msg("note", Told(SubSeq(history, KeepHead + 1, cut)))>>
      \o SubSeq(history, cut + 1, Len(history))

\* Not yet long enough, in messages or in tokens.
SkipCompaction ==
  /\ Goto("compact", "call")
  /\ UNCHANGED <<run, history, counters, flags, needy, row, snap, past>>

\* A long history has any number of messages above CompactOver; with fewer
\* than head and tail together the subtraction underflows and split_off
\* panics, which ends the thread.
Compact ==
  /\ pc = "compact" /\ Len(history) > CompactOver
  /\ \/ /\ Surplus > 0
        /\ pc' = "call"
        /\ history' = Compacted
     \/ /\ Surplus < 0
        /\ pc' = "panicked"
        /\ UNCHANGED history
  /\ UNCHANGED <<run, counters, flags, needy, row, snap, past>>

-----------------------------------------------------------------------------
(* One call and what it asks for.                                          *)

CallFails ==
  /\ Goto("call", "failing")
  /\ UNCHANGED <<run, history, counters, flags, needy, row, snap, past>>

\* The model answers with tool calls, or with text they can be salvaged from.
CallTools ==
  /\ Goto("call", "tools")
  /\ history' = Append(history, Msg("calls", {}))
  /\ late' = IF cancel THEN late + 1 ELSE late
  /\ UNCHANGED <<run, counters, flags, needy, row, snap, worked, missed, unsaved>>

\* The tools take effect ...
RunTools ==
  /\ Goto("tools", "results")
  /\ worked' = worked + 1
  /\ needy' \in BOOLEAN
  /\ UNCHANGED <<run, history, counters, flags, row, snap, missed, late, unsaved>>

\* ... and their results become part of the history.
\* Mutant (SnapshotTellsAll): results of a cancelled session are thrown away.
ReportedUnlessCancelled == IF cancel THEN history ELSE Append(history, Msg("results", {worked}))
Reported == Append(history, Msg("results", {worked}))

Report ==
  /\ Goto("results", "top")
  /\ history' = Reported
  /\ UNCHANGED <<run, counters, flags, needy, row, snap, past>>

\* The model answers with text only.
Nudge ==
  /\ Goto("call", "top")
  /\ needy /\ nudges < MaxNudges
  /\ nudges' = nudges + 1
  /\ history' = history \o <<Msg("text", {}), Msg("nudge", {})>>
  /\ UNCHANGED <<run, steps, flags, needy, row, snap, past>>

CallEnds ==
  /\ Goto("call", "finishing")
  /\ ~(needy /\ nudges < MaxNudges)
  /\ UNCHANGED <<run, history, counters, flags, needy, row, snap, past>>

-----------------------------------------------------------------------------
(* The end of a session.                                                   *)

Finish ==
  /\ Goto("finishing", "clearing")
  /\ Mark("done")
  /\ UNCHANGED <<run, history, counters, flags, needy, snap, past>>

\* A snapshot that cannot be removed stays.
ClearSnapshot ==
  /\ Goto("clearing", "ended")
  /\ snap' \in {snap, [snap EXCEPT ![run] = NoFile]}
  /\ UNCHANGED <<run, history, counters, flags, needy, row, past>>

FinishCancelled ==
  /\ Goto("cancelling", "cancelled")
  /\ Mark("interrupted")
  /\ UNCHANGED <<run, history, counters, flags, needy, snap, past>>

FinishFailed ==
  /\ Goto("failing", "ended")
  /\ Mark("failed")
  /\ UNCHANGED <<run, history, counters, flags, needy, snap, past>>

Loop ==
  \/ Top \/ PassGate \/ EnterPause \/ Truncate \/ Save \/ SaveFails \/ LeavePause
  \/ SkipCompaction \/ Compact
  \/ CallFails \/ CallTools \/ RunTools \/ Report \/ Nudge \/ CallEnds
  \/ Finish \/ ClearSnapshot \/ FinishCancelled \/ FinishFailed

-----------------------------------------------------------------------------
(* The user and the process.                                               *)

Running == pc \notin {"ended", "panicked", "died"}

SetPause ==
  /\ MayPause /\ Running /\ ~pause
  /\ pause' = TRUE
  /\ UNCHANGED <<pc, run, history, counters, cancel, needy, row, snap, past>>

ClearPause ==
  /\ Running /\ pause
  /\ pause' = FALSE
  /\ UNCHANGED <<pc, run, history, counters, cancel, needy, row, snap, past>>

Cancel ==
  /\ Running /\ ~cancel
  /\ cancel' = TRUE
  /\ UNCHANGED <<pc, run, history, counters, pause, needy, row, snap, past>>

Die ==
  /\ MayDie /\ Running
  /\ pc' = "died"
  /\ UNCHANGED <<run, history, counters, flags, needy, row, snap, past>>

\* A new session from the snapshot of an older one.  Its row is written before
\* the snapshot is read, and stays when the snapshot cannot be read.
Resume ==
  /\ ~Running /\ run < Runs
  /\ \E r \in 1 .. run :
       /\ snap[r] # NoFile
       /\ \/ /\ Readable(snap[r])
             /\ pc' = "top"
             /\ history' = snap[r][2]
             /\ missed' = (1 .. worked) \ Told(snap[r][2])
          \/ /\ ~Readable(snap[r])
             /\ pc' = "ended"
             /\ UNCHANGED <<history, missed>>
  /\ run' = run + 1
  /\ row' = [row EXCEPT ![run + 1] = "running"]
  /\ steps' = 0 /\ nudges' = 0 /\ late' = 0 /\ unsaved' = FALSE
  /\ pause' = FALSE /\ cancel' = FALSE
  /\ needy' \in BOOLEAN
  /\ UNCHANGED <<snap, worked>>

Next == Loop \/ SetPause \/ ClearPause \/ Cancel \/ Die \/ Resume

\* A session that runs goes on; the user and the process owe nothing.
Spec == Init /\ [][Next]_vars
FairSpec == Spec /\ WF_vars(Loop)

-----------------------------------------------------------------------------
(* Properties.                                                             *)

\* A conversation a provider accepts: the system message and the task come
\* first, every group of tool calls is followed by its results and results
\* follow nothing else.
WellFormed(h) ==
  /\ Len(h) >= 2 /\ h[1].kind = "system" /\ h[2].kind = "task"
  /\ \A i \in DOMAIN h :
       /\ h[i].kind = "calls" => i < Len(h) /\ h[i + 1].kind = "results"
       /\ h[i].kind = "results" => i > 1 /\ h[i - 1].kind = "calls"

\* Whatever is compacted, nudged, cancelled, killed and resumed, each call to
\* the model and each snapshot is a conversation a provider accepts
\* (agent.rs:731-736).
ResultsFollowCalls ==
  /\ pc = "call" => WellFormed(history)
  /\ \A r \in 1 .. Runs : Readable(snap[r]) => WellFormed(snap[r][2])

\* Cancelled sessions stay recoverable (agent.rs:561-562): the snapshot of a
\* session that ended interrupted, if it could be written, reports every round
\* of tool calls that had taken effect since the session began, so resuming
\* repeats none of them.
SnapshotTellsAll ==
  pc = "ended" /\ row[run] = "interrupted" /\ ~unsaved =>
    Readable(snap[run]) /\ Told(snap[run][2]) \cup missed = 1 .. worked

\* A paused session can survive a restart (agent.rs:345-346): once it sleeps
\* in its pause, the snapshot, if it could be written, is the history it will
\* go on with.
PausedIsResumable == pc = "paused" /\ ~unsaved => snap[run] = File(history)

\* Cancel is looked at between steps (agent.rs:32): at most one more round of
\* tool calls begins, in a pause, during a compaction or a call.
CancelStopsWork == late <= 1

\* A session comes to its end, unless the user does not cancel it and leaves it
\* paused or pauses it again and again.
SessionEnds == <>[](~Running) \/ []<>(pause /\ ~cancel)

=============================================================================
