----------------------------- MODULE CliSession -----------------------------
(***************************************************************************)
(* One session of a wrapped command-line agent: run_cli_session_with of    *)
(* rolen-cliadapters/src/session.rs with its overlay (overlay.rs) and its  *)
(* child (pty.rs).  The workspace is copied file by file, the child works  *)
(* on the copy, and the harvest turns what differs into tickets for the    *)
(* write queue, one at a time.  Meanwhile others change the workspace: a   *)
(* project that runs in the same directory, a second session, the user.    *)
(*                                                                         *)
(* Calls of the file system may fail, but for a file that has been read    *)
(* once; the ledger's statements succeed.  Files are regular files; a      *)
(* child that has ended leaves nothing behind that goes on writing; the    *)
(* session's own queue (WriteQueue in detail) has one ticket at a time and *)
(* only checks its base, then writes.                                      *)
(* "Mutant" definitions are the next definition with a plausible mistake;  *)
(* no action uses them.                                                    *)
(***************************************************************************)
EXTENDS Naturals, Sequences, FiniteSets

CONSTANTS
  Files,      \* the paths of the workspace
  Skipped,    \* those below a directory of SKIP_DIRS
  Content,    \* what a file may hold ...
  None,       \* ... or that it does not exist
  Lossy(_),   \* String::from_utf8_lossy of a content
  Starts,     \* the workspaces a session may start in
  Edits,      \* changes the child makes, at most
  Outsiders,  \* changes made by others, at most
  MayPause    \* whether the caller passes a pause flag

ASSUME CliOK ==
  /\ IsFiniteSet(Files) /\ Skipped \subseteq Files
  /\ None \notin Content
  /\ \A c \in Content : Lossy(c) \in Content
  /\ Starts \subseteq [Files -> Content \cup {None}]
  /\ Edits \in Nat /\ Outsiders \in Nat /\ MayPause \in BOOLEAN

VARIABLES
  pc,        \* where the session is
  base,      \* the workspace
  staging,   \* the overlay
  todo,      \* the files a directory walk has still to visit
  changes,   \* changes, found by the walks and not yet harvested
  ticket,    \* the ticket in the queue
  paths,     \* harvest.paths, those tickets were submitted for
  applied,   \* the files whose ticket was applied ...
  rejected,  \* ... and those whose ticket was rejected
  pause,     \* the pause flag
  cancel,    \* the cancel flag
  exit,      \* exit_code
  row,       \* the session's state in the ledger
  snap,      \* applied_paths of the session's snapshot, if it can be read
  edits,     \* changes the child may still make
  outsiders, \* changes others may still make
  copied,    \* the overlay as the child found it (history)
  made,      \* the overlay as the child left it (history)
  since,     \* files others changed since the copy began (history)
  unsaved    \* the snapshot is not the one that was last to be kept (history)

files == <<base, staging>>
walk  == <<todo, changes, ticket>>
count == <<paths, applied, rejected>>
flags == <<pause, cancel>>
state == <<exit, row, snap>>
bounds == <<edits, outsiders>>
past  == <<bounds, copied, made, since, unsaved>>
vars == <<pc, base, staging, todo, changes, ticket, paths, applied, rejected,
          pause, cancel, exit, row, snap, edits, outsiders, copied, made, since,
          unsaved>>

Empty == [f \in Files |-> None]
Present(dir) == {f \in Files : dir[f] # None}
NoTicket == [op |-> "none"]
NoSnap == <<"none">>
Snap(fs) == <<"kept", fs>>

Init ==
  /\ pc = "gate"
  /\ base \in Starts
  /\ staging = Empty
  /\ todo = {} /\ changes = <<>> /\ ticket = NoTicket
  /\ paths = {} /\ applied = {} /\ rejected = {}
  /\ pause \in {FALSE, MayPause} /\ cancel = FALSE
  /\ exit = "none" /\ row = "running" /\ snap = NoSnap
  /\ edits = Edits /\ outsiders = Outsiders
  /\ copied = Empty /\ made = Empty /\ since = {} /\ unsaved = FALSE

Goto(from, to) == pc = from /\ pc' = to

-----------------------------------------------------------------------------
(* Before the child: pause, cancel, the copy.                              *)

\* Mutant (CancelEnds): a cancel does not end a pause.
WaitsUncancelled == pause
Waits == pause /\ ~cancel

\* write_cli_snapshot; that it failed, before or after it had emptied the file, is
\* ignored.
WriteSnapshot(s) ==
  /\ snap' \in {s, snap, NoSnap}
  /\ unsaved' = (snap' # s)

\* clear_cli_snapshot, likewise.
ClearSnapshot ==
  /\ snap' \in {NoSnap, snap}
  /\ unsaved' = (snap' # NoSnap)

\* The first time round the loop.
Pause ==
  /\ Goto("gate", "paused")
  /\ Waits
  /\ row' = "paused" /\ WriteSnapshot(Snap({}))
  /\ UNCHANGED <<files, walk, count, flags, exit, bounds, copied, made, since>>

Pass ==
  /\ ~Waits
  /\ \/ Goto("gate", "spawn")
     \/ Goto("paused", "resume")
  /\ UNCHANGED <<files, walk, count, flags, state, past>>

Resume ==
  /\ Goto("resume", "spawn")
  /\ row' = IF cancel THEN row ELSE "running"
  /\ UNCHANGED <<files, walk, count, flags, exit, snap, past>>

\* Cancelled before the child: there is nothing to harvest.
Forgo ==
  /\ Goto("spawn", "forgone")
  /\ cancel
  /\ exit' = "cancelled"
  /\ UNCHANGED <<files, walk, count, flags, row, snap, past>>

\* create_staging lists the workspace, without the skipped directories ...
List ==
  /\ Goto("spawn", "copy")
  /\ ~cancel
  /\ todo' = Present(base) \ Skipped
  /\ UNCHANGED <<files, changes, ticket, count, flags, state, past>>

\* ... and copies file by file.
Copy(f) ==
  /\ pc = "copy" /\ f \in todo
  /\ base[f] # None
  /\ staging' = [staging EXCEPT ![f] = base[f]]
  /\ todo' = todo \ {f}
  /\ UNCHANGED <<pc, base, changes, ticket, count, flags, state, past>>

\* A file that is gone, or any file or directory that cannot be read or made, here
\* or in the walks of the harvest: the session ends with an error, its row still
\* "running" and its overlay left behind.
Break ==
  /\ \E from \in {"copy", "differ", "missing"} : Goto(from, "broken")
  /\ UNCHANGED <<files, walk, count, flags, state, past>>

Spawn ==
  /\ Goto("copy", "child")
  /\ todo = {}
  /\ copied' = staging
  /\ UNCHANGED <<files, walk, count, flags, state, bounds, made, since, unsaved>>

-----------------------------------------------------------------------------
(* The child.                                                              *)

\* It may write below a skipped directory as well: target, .git.
Edit(f, c) ==
  /\ pc = "child" /\ edits > 0
  /\ c # staging[f]
  /\ staging' = [staging EXCEPT ![f] = c]
  /\ edits' = edits - 1
  /\ UNCHANGED <<pc, base, walk, count, flags, state, outsiders, copied, made, since, unsaved>>

\* Exit codes, 0 and others; "none" if the child could not be started, was
\* lost, or was killed after 15 minutes; "cancelled" if killed for a cancel.
Ends(how) ==
  /\ Goto("child", "differ")
  /\ how = "cancelled" => cancel
  /\ exit' = how
  /\ made' = staging
  /\ todo' = Present(staging)
  /\ UNCHANGED <<files, changes, ticket, count, flags, row, snap, bounds, copied, since,
                 unsaved>>

-----------------------------------------------------------------------------
(* The harvest: two walks, then one ticket after the other.                *)

Write(f, c) == [op |-> "write", file |-> f, text |-> c]
Delete(f)   == [op |-> "delete", file |-> f]

\* collect_writes: the files of the overlay that differ from the workspace.
\* Mutant (AgentsWorkArrives): only files the workspace has are compared.
DiffersIfThere(f) == base[f] \notin {None, staging[f]}
Differs(f) == base[f] # staging[f]

CollectWrite(f) ==
  /\ pc = "differ" /\ f \in todo
  /\ changes' = IF Differs(f) THEN Append(changes, Write(f, staging[f])) ELSE changes
  /\ todo' = todo \ {f}
  /\ UNCHANGED <<pc, files, ticket, count, flags, state, past>>

\* collect_deletes walks the workspace.
ListBase ==
  /\ Goto("differ", "missing")
  /\ todo = {}
  /\ todo' = Present(base) \ Skipped
  /\ UNCHANGED <<files, changes, ticket, count, flags, state, past>>

CollectDelete(f) ==
  /\ pc = "missing" /\ f \in todo
  /\ changes' = IF staging[f] = None THEN Append(changes, Delete(f)) ELSE changes
  /\ todo' = todo \ {f}
  /\ UNCHANGED <<pc, files, ticket, count, flags, state, past>>

\* The ticket of a change: a write names the workspace's version as its base.
TicketFor(ch) ==
  IF ch.op = "delete"
    THEN [op |-> "delete", file |-> ch.file, base |-> None]
    ELSE [op   |-> IF base[ch.file] = None THEN "create" ELSE "replace",
          file |-> ch.file, text |-> Lossy(ch.text), base |-> base[ch.file]]

\* Mutant (CancelledIsResumable): deletes are not listed.
ListedIfWritten(ch) == {f \in {ch.file} : ch.op = "write"}
Listed(ch) == {ch.file}

Submit ==
  /\ Goto("missing", "judge") \/ Goto("harvest", "judge")
  /\ todo = {} /\ changes # <<>>
  /\ ticket' = TicketFor(Head(changes))
  /\ changes' = Tail(changes)
  /\ paths' = paths \cup Listed(Head(changes))
  /\ UNCHANGED <<files, todo, applied, rejected, flags, state, past>>

\* apply_ticket: the base, then the effect.
Stale(t) ==
  IF t.base = None THEN t.op = "create" /\ base[t.file] # None
                   ELSE t.base # base[t.file]

\* A stale base, or an effect that fails: the temporary file cannot be written or
\* renamed, the file not removed.  The harvest counts it and goes on.
Reject ==
  /\ \/ Goto("judge", "harvest") /\ Stale(ticket)
     \/ Goto("apply", "harvest")
  /\ rejected' = rejected \cup {ticket.file}
  /\ UNCHANGED <<files, walk, paths, applied, flags, state, past>>

Accept ==
  /\ Goto("judge", "apply")
  /\ ~Stale(ticket)
  /\ UNCHANGED <<files, walk, count, flags, state, past>>

Apply ==
  /\ Goto("apply", "harvest")
  /\ base' = [base EXCEPT ![ticket.file] =
                IF ticket.op = "delete" THEN None ELSE ticket.text]
  /\ applied' = applied \cup {ticket.file}
  /\ UNCHANGED <<staging, walk, paths, rejected, flags, state, past>>

\* cleanup removes the overlay.
Harvested ==
  /\ Goto("missing", "closing") \/ Goto("harvest", "closing")
  /\ todo = {} /\ changes = <<>>
  /\ staging' = Empty
  /\ UNCHANGED <<base, walk, count, flags, state, past>>

-----------------------------------------------------------------------------
(* The end of the session.                                                 *)

Close ==
  /\ Goto("closing", "keeping") \/ Goto("forgone", "keeping")
  /\ row' = CASE exit = "cancelled" -> "interrupted"
              [] exit = "zero"      -> "done"
              [] OTHER              -> "failed"
  /\ UNCHANGED <<files, walk, count, flags, exit, snap, past>>

\* The snapshot names the paths tickets were submitted for.
Kept == Snap(paths)

Keep ==
  /\ Goto("keeping", "ended")
  /\ CASE row = "interrupted" -> WriteSnapshot(Kept)
       [] row = "done"        -> ClearSnapshot
       [] OTHER               -> UNCHANGED <<snap, unsaved>>
  /\ UNCHANGED <<files, walk, count, flags, exit, row, bounds, copied, made, since>>

-----------------------------------------------------------------------------
(* The user, and whoever else works in the directory.                      *)

SetPause ==
  /\ MayPause /\ pc \in {"gate", "paused", "resume"}
  /\ pause' = ~pause
  /\ UNCHANGED <<pc, files, walk, count, cancel, state, past>>

Cancel ==
  /\ ~cancel /\ pc \notin {"ended", "broken"}
  /\ cancel' = TRUE
  /\ UNCHANGED <<pc, files, walk, count, pause, state, past>>

Outside(f, c) ==
  /\ outsiders > 0 /\ pc \notin {"ended", "broken"}
  /\ c # base[f]
  /\ base' = [base EXCEPT ![f] = c]
  /\ outsiders' = outsiders - 1
  /\ since' = IF pc \in {"gate", "paused", "resume", "spawn", "forgone"}
                THEN since ELSE since \cup {f}
  /\ UNCHANGED <<pc, staging, walk, count, flags, state, edits, copied, made, unsaved>>

Versions == Content \cup {None}

Session ==
  \/ Pause \/ Pass \/ Resume \/ Forgo \/ List \/ Spawn \/ Break
  \/ \E f \in Files : Copy(f) \/ CollectWrite(f) \/ CollectDelete(f)
  \/ ListBase \/ Submit \/ Reject \/ Accept \/ Apply \/ Harvested
  \/ Close \/ Keep

Child ==
  \/ \E f \in Files, c \in Versions : Edit(f, c)
  \/ \E how \in {"zero", "other", "none", "cancelled"} : Ends(how)

Next ==
  \/ Session \/ Child
  \/ SetPause \/ Cancel
  \/ \E f \in Files, c \in Versions : Outside(f, c)

Spec == Init /\ [][Next]_vars

\* The session's thread runs on; a child ends, is killed, or times out.
FairSpec ==
  /\ Spec
  /\ WF_vars(Session)
  /\ WF_vars(\E how \in {"zero", "other", "none", "cancelled"} : Ends(how))

-----------------------------------------------------------------------------

\* What has come of a file: it is as the child left it, read as text if a ticket
\* wrote it; only below a skipped directory may a file stay that the child's copy
\* did not have.
Arrived(f) ==
  \/ base[f] = made[f]
  \/ made[f] # None /\ base[f] = Lossy(made[f])
  \/ made[f] = None /\ f \in Skipped

\* Its ticket was rejected, and it is as the child found it.
Refused(f) == f \in rejected /\ (base[f] = copied[f] \/ f \in Skipped)

\* When the harvest is over (overlay.rs:55), the work of the child on every file
\* that nobody else changed since the copy began has arrived as a whole or is
\* reported as rejected.
AgentsWorkArrives ==
  pc = "closing" => \A f \in Files \ since : Arrived(f) \/ Refused(f)

\* A cancelled session whose snapshot could be written has one that names what its
\* tickets were for, and every file the child had changed, unless others changed
\* it, too; whatever an earlier pause had put there.  A finished one leaves none
\* (session.rs:294, 304).
CancelledIsResumable ==
  pc = "ended" /\ ~unsaved =>
    /\ row = "interrupted" =>
         /\ snap = Snap(applied \cup rejected)
         /\ \A f \in Files \ (since \cup Skipped) :
               made[f] # copied[f] => f \in applied \cup rejected
    /\ row = "done" => snap = NoSnap

\* A stale base is rejected, for wrapped agents too (README.md:25): a ticket is
\* accepted only if its file is still what the agent was given.
StaleIsRejected ==
  [][pc = "judge" /\ pc' = "apply" /\ ticket.file \notin Skipped
       => base[ticket.file] = copied[ticket.file]]_vars

\* Cancelled at any moment, before a pause is over or while the child runs, the
\* session comes to its end.
CancelEnds == cancel ~> pc \in {"ended", "broken"}

=============================================================================
