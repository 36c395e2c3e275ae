----------------------------- MODULE WriteQueue -----------------------------
(***************************************************************************)
(* The write queue of rolen-orchestrator/src/queue.rs.                     *)
(*                                                                         *)
(* Agent threads call submit and wait (or read_text); one dispatcher       *)
(* thread owns the per-path backlog and the set of busy paths; every       *)
(* dispatched ticket gets an applier thread of its own, whose file system  *)
(* calls are separate steps here.  All messages to the dispatcher go       *)
(* through one FIFO channel.  A ticket is identified with the submitting   *)
(* thread that waits for it, a reader with its one call of read_text.      *)
(*                                                                         *)
(* A definition introduced by "Mutant" is the next one with a plausible    *)
(* mistake in it.  No action uses it: it is there to be put in the place   *)
(* of the real one, when the named property must fail.                     *)
(***************************************************************************)
EXTENDS Integers, Sequences

CONSTANTS
  Tickets,        \* the tickets submitted, each by a thread of its own
  Readers,        \* the calls of read_text
  Keys,           \* ticket paths as written: what the dispatcher's maps compare
  Files,          \* names in the file system, temporary files included
  Content,        \* what a file may hold; the hash of a file is its content
  None,           \* no file, no base hash, or an error instead of a content
  FileOf,         \* resolve_in: the file a key names, None when it is refused
  TmpOf,          \* Path::with_extension("rolen-tmp")
  Req,            \* the ticket's path, op, base_hash and payload
  ReadKey,        \* the path a reader asks for
  Merge(_, _),    \* apply_patch: the new content, NoMatch or Panics
  NoMatch,
  Panics,
  Cap,            \* the bound of with_capacity, 0 for none
  LedgerMayFail,  \* whether the best-effort journal may fail
  IoMayFail,      \* whether a file system call may fail
  Workspaces,     \* what the workspace may hold when the queue is created
  MayShutdown     \* whether somebody calls shutdown while tickets are pending

Ops == {"create", "replace", "delete", "rename", "patch"}

\* text is the payload of create and replace, target the one of rename (the
\* file resolve_in finds for it); both are None for the other operations.
Request == [key : Keys, op : Ops, base : Content \cup {None},
            text : Content \cup {None}, target : Files \cup {None}]

ASSUME ConstantsOK ==
  /\ None \notin Content /\ None \notin Files
  /\ NoMatch \notin Content /\ Panics \notin Content
  /\ NoMatch # Panics /\ NoMatch # None /\ Panics # None
  /\ FileOf \in [Keys -> Files \cup {None}]
  /\ TmpOf \in [Files -> Files]
  /\ Req \in [Tickets -> Request]
  /\ ReadKey \in [Readers -> Keys]
  /\ Tickets \cap Readers = {}
  /\ None \notin Tickets \cup Readers
  /\ \A t \in Tickets : Req[t].op \in {"create", "replace"} => Req[t].text # None
  /\ \A t \in Tickets, c \in Content \cup {None} :
        Merge(t, c) \in Content \cup {NoMatch, Panics}
  /\ \A w \in Workspaces : w \in [Files -> Content \cup {None}]
  /\ Cap \in Nat
  /\ LedgerMayFail \in BOOLEAN /\ IoMayFail \in BOOLEAN /\ MayShutdown \in BOOLEAN

VARIABLES
  pc,        \* the submitting thread of a ticket
  depth,     \* WriteQueue::depth
  chan,      \* the dispatcher's channel
  open,      \* the dispatcher is in its loop
  busy,      \* inflight
  inbox,     \* the backlog per path
  parked,    \* pending_reads
  ap,        \* the applier thread of a ticket
  outcome,   \* what apply_ticket has decided
  buf,       \* the content an applier is about to write
  resp,      \* the channel a TicketHandle waits on
  seen,      \* what a reader has been answered
  reader,    \* the state of a reader
  fs,        \* the workspace: file -> content
  journal,   \* the write_tickets table of the ledger
  clock,     \* how many tickets and reads have entered the channel ...
  arrived    \* ... and the number each one got (history)

submitVars == <<pc, depth>>
dispVars   == <<open, busy, inbox, parked>>
applyVars  == <<ap, outcome, buf>>
readVars   == <<seen, reader>>
history    == <<clock, arrived>>
vars == <<pc, depth, chan, open, busy, inbox, parked, ap, outcome, buf, resp,
          seen, reader, fs, journal, clock, arrived>>

Key(t)  == Req[t].key
File(t) == FileOf[Key(t)]
Tmp(t)  == TmpOf[File(t)]

\* An applier that works on the ticket; the last state is the one before it
\* sends Done.
Active == {"check", "merge", "write", "rename", "remove", "unlink", "move", "record", "report"}
\* Done is in the channel; the dispatcher has handled it (or was gone); the
\* thread panicked and will never report.
ApStates == {"none"} \cup Active \cup {"reported", "gone", "dead"}
\* The states past the decision of apply_ticket.
Decided == {"record", "report", "reported", "gone", "dead"}

Message == [kind : {"new", "read", "done", "shutdown"},
            id : Tickets \cup Readers \cup {None}]
Msg(k, x) == [kind |-> k, id |-> x]

Init ==
  /\ pc = [t \in Tickets |-> "submitting"]
  /\ depth = 0
  /\ chan = <<>>
  /\ open = TRUE
  /\ busy = {}
  /\ inbox = [k \in Keys |-> <<>>]
  /\ parked = [k \in Keys |-> {}]
  /\ ap = [t \in Tickets |-> "none"]
  /\ outcome = [t \in Tickets |-> "none"]
  /\ buf = [t \in Tickets |-> None]
  /\ resp = [t \in Tickets |-> "open"]
  /\ seen = [r \in Readers |-> None]
  /\ reader = [r \in Readers |-> "idle"]
  /\ fs \in Workspaces
  /\ journal = [t \in Tickets |-> "absent"]
  /\ clock = 0
  /\ arrived = [x \in Tickets \cup Readers |-> 0]

-----------------------------------------------------------------------------
(* The submitting thread: WriteQueue::submit, then TicketHandle::wait.     *)

Goto(t, from, to) == pc[t] = from /\ pc' = [pc EXCEPT ![t] = to]

\* The spin loop leaves when it once reads depth below the bound ...
Admit(t) ==
  /\ Goto(t, "submitting", "admitted")
  /\ Cap = 0 \/ depth < Cap
  /\ UNCHANGED <<depth, chan, dispVars, applyVars, resp, readVars, fs, journal, history>>

\* ... and only then counts the ticket and journals it, best effort.
Count(t) ==
  /\ Goto(t, "admitted", "counted")
  /\ depth' = depth + 1
  /\ \/ journal' = [journal EXCEPT ![t] = "queued"]
     \/ LedgerMayFail /\ UNCHANGED journal
  /\ UNCHANGED <<chan, dispVars, applyVars, resp, readVars, fs, history>>

\* x enters the channel.
Enter(x, kind) ==
  /\ chan' = Append(chan, Msg(kind, x))
  /\ clock' = clock + 1
  /\ arrived' = [arrived EXCEPT ![x] = clock + 1]

\* Sending to a dispatcher that is gone drops the ticket and its answer channel.
Send(t) ==
  /\ Goto(t, "counted", "waiting")
  /\ \/ open /\ Enter(t, "new") /\ UNCHANGED resp
     \/ /\ ~open
        /\ resp' = [resp EXCEPT ![t] = "closed"]
        /\ UNCHANGED <<chan, history>>
  /\ UNCHANGED <<depth, dispVars, applyVars, readVars, fs, journal>>

\* A closed channel reads as Rejected.
Wait(t) ==
  /\ Goto(t, "waiting", "done")
  /\ resp[t] # "open"
  /\ depth' = depth - 1
  /\ UNCHANGED <<chan, dispVars, applyVars, resp, readVars, fs, journal, history>>

Submitter(t) == Admit(t) \/ Count(t) \/ Send(t) \/ Wait(t)

-----------------------------------------------------------------------------
(* A reader: WriteQueue::read_text.                                        *)

AskRead(r) ==
  /\ reader[r] = "idle"
  /\ \/ /\ open
        /\ Enter(r, "read")
        /\ reader' = [reader EXCEPT ![r] = "waiting"]
     \/ /\ ~open
        /\ reader' = [reader EXCEPT ![r] = "refused"]
        /\ UNCHANGED <<chan, history>>
  /\ UNCHANGED <<submitVars, dispVars, applyVars, resp, seen, fs, journal>>

\* The public shutdown, and the one of Drop.
Shutdown ==
  /\ MayShutdown /\ open
  /\ \A i \in DOMAIN chan : chan[i].kind # "shutdown"
  /\ chan' = Append(chan, Msg("shutdown", None))
  /\ UNCHANGED <<submitVars, dispVars, applyVars, resp, readVars, fs, journal, history>>

-----------------------------------------------------------------------------
(* The dispatcher: one action per message.                                 *)

Receive(kind) ==
  /\ open /\ chan # <<>>
  /\ Head(chan).kind = kind
  /\ chan' = Tail(chan)
Received == Head(chan).id

\* inflight.contains(path).
\* Mutant (FifoPerPath): an empty backlog is taken for an idle path.
BusyByBacklog(k) == inbox[k] # <<>>
Busy(k) == k \in busy

\* inflight.contains(path) || inbox.contains_key(path); a path with a backlog
\* is busy, so busy alone decides.
\* Mutant (ReadYourWrites): the applier at work is forgotten.
MustParkBacklogOnly(k) == inbox[k] # <<>>
MustPark(k) == k \in busy

\* fulfill_read: a refused path or a file that cannot be read is an error.
ContentOf(k) == IF FileOf[k] = None THEN None ELSE fs[FileOf[k]]

Fulfill(rs, k) ==
  /\ seen' = [r \in Readers |-> IF r \in rs THEN ContentOf(k) ELSE seen[r]]
  /\ reader' = [r \in Readers |-> IF r \in rs THEN "answered" ELSE reader[r]]

HandleNew ==
  /\ Receive("new")
  /\ LET t == Received
         k == Key(t)
     IN  \/ /\ Busy(k)
            /\ inbox' = [inbox EXCEPT ![k] = Append(@, t)]
            /\ UNCHANGED <<busy, ap>>
         \/ /\ ~Busy(k)
            /\ busy' = busy \cup {k}
            /\ ap' = [ap EXCEPT ![t] = "check"]
            /\ UNCHANGED inbox
  /\ UNCHANGED <<submitVars, open, parked, outcome, buf, resp, readVars, fs, journal, history>>

HandleRead ==
  /\ Receive("read")
  /\ LET r == Received
         k == ReadKey[r]
     IN  \/ /\ MustPark(k)
            /\ parked' = [parked EXCEPT ![k] = @ \cup {r}]
            /\ UNCHANGED readVars
         \/ /\ ~MustPark(k)
            /\ Fulfill({r}, k)
            /\ UNCHANGED parked
  /\ UNCHANGED <<submitVars, open, busy, inbox, applyVars, resp, fs, journal, history>>

\* The parked reads of a path that has become idle.
\* Mutant (EveryReadAnswered): the readers are dropped with the map entry.
ReadsDueNone(k) == {}
ReadsDue(k) == parked[k]

\* The answer goes out, then the path's next ticket is dispatched; only when
\* there is none the path becomes idle and its parked reads are served.
HandleDone ==
  /\ Receive("done")
  /\ LET t == Received
         k == Key(t)
     IN  /\ resp' = [resp EXCEPT ![t] = outcome[t]]
         /\ \/ /\ inbox[k] # <<>>
               /\ inbox' = [inbox EXCEPT ![k] = Tail(@)]
               /\ ap' = [ap EXCEPT ![t] = "gone", ![Head(inbox[k])] = "check"]
               /\ UNCHANGED <<busy, parked, readVars>>
            \/ /\ inbox[k] = <<>>
               /\ ap' = [ap EXCEPT ![t] = "gone"]
               /\ busy' = busy \ {k}
               /\ parked' = [parked EXCEPT ![k] = {}]
               /\ Fulfill(ReadsDue(k), k)
               /\ UNCHANGED inbox
  /\ UNCHANGED <<submitVars, open, outcome, buf, fs, journal, history>>

\* The loop breaks: what is in the channel, the backlog and the parked reads
\* is dropped, and every answer channel in it closes.
\* Mutant (EveryTicketAnswered): the backlogs keep what they have.
DroppedInChannel(t) == \E i \in DOMAIN chan : chan[i] \in {Msg("new", t), Msg("done", t)}
Dropped(t) == ap[t] = "reported" \/ (ap[t] = "none" /\ arrived[t] > 0)

HandleShutdown ==
  /\ open /\ chan # <<>>
  /\ Head(chan).kind = "shutdown"
  /\ chan' = <<>>
  /\ open' = FALSE
  /\ busy' = {}
  /\ inbox' = [k \in Keys |-> <<>>]
  /\ parked' = [k \in Keys |-> {}]
  /\ resp' = [t \in Tickets |-> IF Dropped(t) THEN "closed" ELSE resp[t]]
  /\ reader' = [r \in Readers |-> IF reader[r] = "waiting" THEN "refused" ELSE reader[r]]
  /\ UNCHANGED <<submitVars, applyVars, seen, fs, journal, history>>

Dispatcher == HandleNew \/ HandleRead \/ HandleDone \/ HandleShutdown

-----------------------------------------------------------------------------
(* An applier: dispatch's closure around apply_ticket, call by call.       *)

\* The applier of t goes to another state, with or without a decision.
Step(t, from, to) == ap[t] = from /\ ap' = [ap EXCEPT ![t] = to]

\* Mutant (JournalBeforeAnswer): an early return past set_ticket_state.
DecideUnrecorded(t, from, verdict) ==
  /\ Step(t, from, IF verdict = "rejected" THEN "report" ELSE "record")
  /\ outcome' = [outcome EXCEPT ![t] = verdict]
Decide(t, from, verdict) ==
  /\ Step(t, from, "record")
  /\ outcome' = [outcome EXCEPT ![t] = verdict]

\* The optimistic check against the content read now.  A patch skips it; a
\* ticket without a base is stale only as a create over an existing file.
\* Mutant (ImplementsPathStore): a create without a base overwrites, too.
StaleLenient(t, current) ==
  /\ Req[t].op # "patch"
  /\ Req[t].base # current
  /\ Req[t].base # None
Stale(t, current) ==
  /\ Req[t].op # "patch"
  /\ Req[t].base # current
  /\ Req[t].base = None => Req[t].op = "create"

Current(t) == ContentOf(Key(t))
Refused(t) == File(t) = None \/ Stale(t, Current(t))

\* The first thing an operation does once it is accepted.
FirstStep(t) ==
  CASE Req[t].op \in {"create", "replace"} -> "write"
    [] Req[t].op = "patch"  -> "merge"
    [] Req[t].op = "delete" -> "remove"
    [] Req[t].op = "rename" -> "move"

Untouched == UNCHANGED <<submitVars, chan, dispVars, resp, readVars, journal, history>>

Check(t) ==
  /\ \/ /\ Refused(t)
        /\ Decide(t, "check", "rejected")
        /\ UNCHANGED buf
     \/ /\ ~Refused(t)
        /\ Step(t, "check", FirstStep(t))
        /\ buf' = [buf EXCEPT ![t] = Req[t].text]
        /\ UNCHANGED outcome
  /\ UNCHANGED fs /\ Untouched

\* The patch is merged into what the file holds now.  Panics is the thread
\* unwinding: no verdict is recorded and no Done is ever sent, and the answer
\* channel closes.
MergeStep(t) ==
  LET new == Merge(t, Current(t))
  IN  /\ \/ /\ new \in Content
            /\ Step(t, "merge", "write")
            /\ buf' = [buf EXCEPT ![t] = new]
            /\ UNCHANGED <<outcome, resp>>
         \/ /\ new = NoMatch
            /\ Decide(t, "merge", "rejected")
            /\ UNCHANGED <<buf, resp>>
         \/ /\ new = Panics
            /\ Step(t, "merge", "dead")
            /\ outcome' = [outcome EXCEPT ![t] = "rejected"]
            /\ resp' = [resp EXCEPT ![t] = "closed"]
            /\ UNCHANGED buf
      /\ UNCHANGED <<submitVars, chan, dispVars, readVars, fs, journal, history>>

\* create_dir_all and the write of the temporary file.
WriteTmp(t) ==
  /\ \/ /\ Step(t, "write", "rename")
        /\ fs' = [fs EXCEPT ![Tmp(t)] = buf[t]]
        /\ UNCHANGED outcome
     \/ /\ IoMayFail
        /\ Decide(t, "write", "rejected")
        /\ UNCHANGED fs
  /\ UNCHANGED buf /\ Untouched

\* The rename of the temporary file over the target; it fails when the
\* temporary file is gone.
RenameTmp(t) ==
  /\ \/ /\ Decide(t, "rename", "applied")
        /\ fs[Tmp(t)] # None
        /\ fs' = [fs EXCEPT ![File(t)] = fs[Tmp(t)], ![Tmp(t)] = None]
     \/ /\ Decide(t, "rename", "rejected")
        /\ fs[Tmp(t)] = None \/ IoMayFail
        /\ UNCHANGED fs
  /\ UNCHANGED buf /\ Untouched

\* path.exists(): deleting a file that does not exist is a success.
Remove(t) ==
  /\ \/ /\ Current(t) = None
        /\ Decide(t, "remove", "applied")
     \/ /\ Current(t) # None
        /\ Step(t, "remove", "unlink")
        /\ UNCHANGED outcome
  /\ UNCHANGED <<fs, buf>> /\ Untouched

\* remove_file, which fails on a file that has gone since.
Unlink(t) ==
  /\ \/ /\ Current(t) # None
        /\ Decide(t, "unlink", "applied")
        /\ fs' = [fs EXCEPT ![File(t)] = None]
     \/ /\ Current(t) = None \/ IoMayFail
        /\ Decide(t, "unlink", "rejected")
        /\ UNCHANGED fs
  /\ UNCHANGED buf /\ Untouched

\* Rename: the target is resolved in the sandbox but not queued for.
Move(t) ==
  LET to == Req[t].target
  IN  /\ \/ /\ to # None /\ Current(t) # None
            /\ Decide(t, "move", "applied")
            /\ fs' = [f \in Files |-> IF f = to THEN Current(t)
                                      ELSE IF f = File(t) THEN None ELSE fs[f]]
         \/ /\ to = None \/ Current(t) = None \/ IoMayFail
            /\ Decide(t, "move", "rejected")
            /\ UNCHANGED fs
      /\ UNCHANGED buf /\ Untouched

\* Mutant (JournalTruthful): the state every other ticket ends in.
RecordedApplied(t) == "applied"
Recorded(t) == outcome[t]

\* set_ticket_state: an UPDATE, so a row that was never inserted stays absent.
Record(t) ==
  /\ Step(t, "record", "report")
  /\ \/ journal' = [journal EXCEPT ![t] = IF @ = "absent" THEN @ ELSE Recorded(t)]
     \/ LedgerMayFail /\ UNCHANGED journal
  /\ UNCHANGED <<submitVars, chan, dispVars, outcome, buf, resp, readVars, fs, history>>

\* Done goes back through the channel; without a dispatcher it is dropped and
\* the answer channel in it closes.
Report(t) ==
  /\ \/ /\ open
        /\ Step(t, "report", "reported")
        /\ chan' = Append(chan, Msg("done", t))
        /\ UNCHANGED resp
     \/ /\ ~open
        /\ Step(t, "report", "gone")
        /\ resp' = [resp EXCEPT ![t] = "closed"]
        /\ UNCHANGED chan
  /\ UNCHANGED <<submitVars, dispVars, outcome, buf, readVars, fs, journal, history>>

Applier(t) ==
  \/ Check(t) \/ MergeStep(t) \/ WriteTmp(t) \/ RenameTmp(t)
  \/ Remove(t) \/ Unlink(t) \/ Move(t) \/ Record(t) \/ Report(t)

-----------------------------------------------------------------------------

Next ==
  \/ \E t \in Tickets : Submitter(t) \/ Applier(t)
  \/ \E r \in Readers : AskRead(r)
  \/ Shutdown
  \/ Dispatcher

\* Every thread keeps being scheduled; nobody has to call read_text or shutdown.
Fairness ==
  /\ \A t \in Tickets : WF_vars(Submitter(t)) /\ WF_vars(Applier(t))
  /\ WF_vars(Dispatcher)

Spec == Init /\ [][Next]_vars
FairSpec == Spec /\ Fairness

-----------------------------------------------------------------------------
(* Properties.                                                             *)

SubmitTypes ==
  /\ pc \in [Tickets -> {"submitting", "admitted", "counted", "waiting", "done"}]
  /\ depth \in Int
  /\ journal \in [Tickets -> {"absent", "queued", "applied", "rejected"}]
  /\ clock \in Nat
  /\ arrived \in [Tickets \cup Readers -> Nat]
ChannelTypes ==
  /\ chan \in Seq(Message)
  /\ \A i \in DOMAIN chan :
        /\ chan[i].kind \in {"new", "done"} => chan[i].id \in Tickets
        /\ chan[i].kind = "read" => chan[i].id \in Readers
DispatcherTypes ==
  /\ open \in BOOLEAN
  /\ busy \subseteq Keys
  /\ inbox \in [Keys -> Seq(Tickets)]
  /\ parked \in [Keys -> SUBSET Readers]
ApplierTypes ==
  /\ ap \in [Tickets -> ApStates]
  /\ outcome \in [Tickets -> {"none", "applied", "rejected"}]
  /\ buf \in [Tickets -> Content \cup {None}]
  /\ resp \in [Tickets -> {"open", "none", "applied", "rejected", "closed"}]
  /\ fs \in [Files -> Content \cup {None}]
ReaderTypes ==
  /\ seen \in [Readers -> Content \cup {None}]
  /\ reader \in [Readers -> {"idle", "waiting", "answered", "refused"}]

TypeOK == SubmitTypes /\ ChannelTypes /\ DispatcherTypes /\ ApplierTypes /\ ReaderTypes

Started(t) == ap[t] # "none"
Before(x, y) == arrived[x] > 0 /\ arrived[x] < arrived[y]

\* Strict per-path ordering (queue.rs:8): no applier starts on a path while a
\* ticket that entered the channel earlier for that path is not finished and
\* answered.
FifoPerPath ==
  \A t, u \in Tickets :
    Key(t) = Key(u) /\ Before(t, u) /\ Started(u) => ap[t] = "gone"

\* Read your writes (queue.rs:85): a read is answered only after every ticket
\* for its path that entered the channel before it has been applied, and never
\* while an applier is at work on the path.
ReadYourWrites ==
  \A r \in Readers, t \in Tickets :
    ReadKey[r] = Key(t) /\ reader[r] = "answered" /\ Before(t, r) => ap[t] = "gone"

\* The journal never claims what did not happen, whatever fails and whenever
\* the process dies: a row says applied or rejected only once apply_ticket has
\* decided so.
JournalTruthful ==
  \A t \in Tickets : journal[t] \in {"applied", "rejected"} => journal[t] = outcome[t]

\* Unless the database fails, whoever has its verdict from the dispatcher finds
\* the same verdict in the journal (dispatch, queue.rs:238-246).
JournalBeforeAnswer ==
  ~LedgerMayFail =>
    \A t \in Tickets : resp[t] \in {"applied", "rejected"} => journal[t] = resp[t]

\* Every submitter gets a verdict, with a bound on the queue and with a
\* shutdown at any moment.
EveryTicketAnswered == <>(\A t \in Tickets : pc[t] = "done")

\* Every read is answered or refused once the writers of its path stop.
EveryReadAnswered ==
  \A r \in Readers : reader[r] = "waiting" ~> reader[r] \in {"answered", "refused"}
=============================================================================
