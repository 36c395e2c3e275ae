# RoleN in TLA+

RoleN runs LLM agents on software projects: an orchestrator starts the tasks of
several projects as agent threads, every file an agent writes goes through a
queue as a *ticket*, and each agent talks to a provider chosen by routing rules.
This directory models the parts of it that run concurrently, fail or are
resumed, checks them with TLC on small instances and proves most of their safety
properties with TLAPS for all instances.

To check everything: `tlc -config X.cfg M` for each run below, `tlapm M.tla` for
the eight proof modules.

## 1. The system

| Component | State | Operations | Meets | Hard behaviour | What makes it correct |
|---|---|---|---|---|---|
| Write queue (`rolen-orchestrator/src/queue.rs`) | channel, backlog per path, busy paths, parked reads, depth counter, journal rows | `submit`, `wait`, `read_text`, `shutdown`; dispatcher; one applier thread per ticket | agent threads; the file system; the ledger | all of it concurrent; failing calls; shutdown; panics | order per path; reads behind writes; atomic, optimistic commits; everyone answered; a truthful journal |
| Scheduler (`scheduler.rs`) | task status, claims, slots, polled questions, results/finished mailboxes | one loop: harvest, decide, visit, start, join | agent threads through two mutexes; project file; git; queue | finish races; stale polls; cancel; several projects | claims and slots respected; only finished work is built upon; the batch ends and reports the truth |
| Provider limit (`rolen-runtime/src/limit.rs`) | active sessions per provider, a Condvar | `acquire`, drop of a permit | every agent session | lost wakeups, barging, permits across migrations | the cap; an exact counter; no deadlock |
| Agent loop (`agent.rs`) | history, steps, nudges, ledger row, snapshot file | a step: limits, cancel, pause, compaction, call, tools | limit, routing, providers, tools, ledger | cancel/pause at any time, restarts, compaction, migration | well-formed histories; snapshots that tell everything; prompt cancel; an end |
| Tools and sinks (`tools.rs`, `sink.rs`) | none of their own | read, list, search, shell, submit, ask | queue, project file, processes | timeouts, path aliases | sandbox; verdicts handed on |
| Project file (`rolen-core/src/project.rs`) | `rolen-project.yaml`, `REQUIREMENTS.json`, a lock per process | record, poll, ask and answer questions; scaffold, build | agents, scheduler, dialogs, commands | read-modify-write by several threads and processes | no question and no answer is lost |
| Patches (`patch.rs`) | none | `apply_patch` | appliers | fuzzy positions | applied as a whole or refused |
| Ledger (`ledger.rs`) | SQLite: sessions, entries, tickets | inserts, upserts, sums | everything | entry and row are two statements | rows and entries tell the same, of who served |
| Routing (`rules.rs`, `routing.rs`, `quota.rs`, `config.rs`) | rules, paused roles, subscriptions, `config.toml` | `decide`, `collect`, budgets, alerts | agents, health probes, users | a context gathered piece by piece; alerts between dialogs | the first usable chain entry; nothing suspended is used; critical providers are reacted to |
| CLI adapters (`rolen-cliadapters`) | staging copy, PTY, snapshot | run a CLI agent, harvest its changes | write queue | the workspace changes meanwhile; tickets, walks and snapshots fail | the agent's work arrives or is reported as refused; stale bases are refused; a cancelled session is resumable |
| Stores (`registry.rs`, `pricing.rs`, `secrets.rs`, `vault.rs`, `oauth.rs`) | whole files, the keychain, the vault behind it | load, change, save; refresh a token | all processes | lost updates, torn files, refresh races | keys resolve; tokens are those the server takes; wishes survive |
| Providers (`openai.rs`, `anthropic.rs`, `ollama.rs`, `chat.rs`) | none | a history becomes a request, a reply becomes calls and tokens | agents, chat, probes | ids made up, left out or salvaged; caches counted three ways | calls and results stay paired; each token is billed once |
| Quick chat (`conversation.rs`, `quick_chat.rs`) | windows, their conversations, one slot for jobs | send, deliver, close | providers, ledger | a window closed while its worker runs | turns alternate; replies arrive |
| CLI and TUI (`rolen-cli`, `rolen-tui`) | views, alerts, jobs | commands, dialogs | all of the above | stale views | alerts and answers reach their files |

`PROJECT.json` lists every component with what is modelled of it, and under
`hazards` each place where the code is hard to test, with the properties that
would notice.

## 2. Modules

**`WriteQueue`** has one action per step of the three kinds of threads. The
submitter: `Admit` (the spin on the bound), `Count` (counter and journal row),
`Send`, `Wait`. The dispatcher: `HandleNew`, `HandleRead`, `HandleDone`,
`HandleShutdown`, one per message. The applier: `Check`, then per operation
`MergeStep`, `WriteTmp`, `RenameTmp`, `Remove`, `Unlink`, `Move`, each one file
system call, then `Record` (journal) and `Report` (Done). `pc`, `ap` and
`reader` are the program counters; `busy` is `inflight`, `parked` is
`pending_reads`. `clock` and `arrived` number what enters the channel and are
history. The hash of a file is taken to be its content, `apply_patch` is the
constant `Merge`, with a panic as one of its results, and `resolve_in` is the
constant `FileOf`. **`Patch`** is what the two stand for: `apply_patch` with its
hunks, its search for their places and the slice that panics, and `resolve_in`
with symbolic links as a table. It needs recursion, so only the instances use
it. A carriage return is not part of a line, and the texts `--` and `++` stand
for all that begin so.

**`PathStore`** is what the queue promises: a map from paths to contents, where
each operation takes effect at once, in the order of arrival per path, or is
rejected. **`WriteQueueStore`** instantiates it over `WriteQueue` with the
refinement mapping and states `ImplementsPathStore`. **`MCWriteQueue`** gives
small instances, whose patches and paths go through `Patch`.
The proofs (section 5) are in **`WriteQueueProofs`**, **`SchedulerProofs`**,
**`ProviderProofs`**, **`AgentSessionProofs`**, **`CliSessionProofs`**,
**`ProjectFileProofs`**, **`StoresProofs`** and **`TurnsProofs`**.

**`Scheduler`** is `run_projects`. The loop's program counter goes through
`Drain`/`HarvestOne`/`HarvestNext` per project, `Decide`, then
`Visit`/`Doom`/`Skip`/`Start`/`VisitNext` per project and task, and back; the
loop leaves through `Join`. Agents are the actions `Ask`, `Finish`, `Panic`,
`Push` (results) and `Insert` (finished), the last two apart because they are
under two locks. The user may `Answer` and `Cancel`. Every project has a project
file in its directory. What an agent that fails or panics has written by then is any part of its
files (`Written`). `served` and `passed` are history.

**`ProviderLimit`** is `limit.rs` with the retry and migration loop of
`agent.rs`: sessions `Route`, `ReadCap`, `Enter` or `Sleep`, are `Answered`,
`Retry`, `MigrateAway`, `Drop` the old permit, `Fail` and `Leave`. Sleeping on the
Condvar is a state that only a notification, or a spurious `WakeUp`, ends.
Which provider routing returns is any of the chain, as health probes may say
anything at any time.

**`AgentSession`** is one session of `agent::run` and those that resume it. The
history is a sequence of message kinds; each message carries how many rounds of
tool calls it reports, so that a property can say whether a snapshot forgets
one. `write_snapshot` is two steps, `Truncate` and `Save`, either of which may fail
and is passed over then (`SaveFails`, of which `unsaved` is the history), and the
process may `Die` between any two. A history can be over the token limit at any length above
`CompactOver`, since one message may be as long as it likes.

**`CliSession`** is `run_cli_session_with` of the CLI adapters with its overlay.
`Pause`, `Pass`, `Resume`, `Forgo` are the loops and tests of the two flags;
`List` and `Copy` make the overlay file by file; `Edit` and `Ends` are the child;
`CollectWrite`, `ListBase`, `CollectDelete` the two walks; `Submit`, `Accept` or
`Reject`, `Apply` one ticket at a time; `Close` and `Keep` the row and the
snapshot. Calls of the file system may fail: a ticket with a fresh base may be
rejected, the copy and the two walks may `Break` the session, whose row then stays
"running", and a snapshot that cannot be written or removed is passed over
(`WriteSnapshot`, `ClearSnapshot`; `unsaved` is history). `copied` and `made` are the
overlay as the child found and left it, `since` the files that others changed
since the copy began. `Outside` is anybody else who writes in the directory, between any two
of these steps: both callers pass no queue, so a session has one of its own and
shares nothing with other writers but the files. A content that is not text
becomes another one in a ticket (`Lossy`), and files below a skipped directory
are not copied and not deleted, but what the child makes there is written back.
Links, and children of the child that go on writing after it was killed, are not
in the model. **`MCCliSession`** gives small instances.

**`ProjectFile`** has every cycle that reads, changes and writes
`rolen-project.yaml`. The agents of a batch go through `record_question` under the
lock of their process and publish by a rename (`Record`). A user of the terminal
and one of the command line give commands and use dialogs: `Begin`, `OpenAnswer`,
`Interview`, `Edit`, then a save in place, which first empties the file and then
fills it (`SaveEmpties`, `SaveFills`), and the documents made from it (`WriteMd`,
`JsonEmpties`, `JsonFills`, `WriteAgents`). Any of these writes may fail
(`PublishFails`, `WriteFails`), which ends the command or dialog. Either process may
`Die` at any step. `overlap`, `asked`, `told` and `unwritten` are history. The lock is
a guard that every return drops; it could be poisoned only by a panic, and nothing
panics under it.

**`Stores`** has `providers.toml`, `pricing.toml` and the secrets in the same way:
a command or dialog loads a file, may wait for its user, changes its copy and
saves the whole of it. The keychain may come and go (`Flip`), in which case the
vault file takes its place. Sessions refresh OAuth tokens: a server that rotates
accepts a refresh token once, so of two sessions that refresh the same one the
later is refused. `raced`, `cut` and `wish` are history: `raced` has each file of
which two processes held a copy at once, and each provider that a user's command
and another process were busy with at once. An import of tokens, or their
deletion, during a refresh is such a race, and `TokensAccepted` excepts it.

**`Routing`** is `decide` over everything it looks at. A session begins with the
rules and the registry as they are (`Ask`), probes provider by provider
(`ProbeOne`), decides, spends and may `Migrate`, which takes the provider that
failed for unhealthy and knows only those registered when it began. Meanwhile
users edit rules, roles, budgets and the registry, save settings or switch the
theme (`ConfigOp`; a `config.toml` left unreadable by a failed save is a state
of its own, and some dialogs then write their defaults over it), or import a
set-up. The terminal's alert check goes through the subscriptions one by one,
with dialogs in between, by the settings and subscriptions it loaded. It marks a
provider as alerted and then acts; an action that fails is passed over
(`ActFails`). An entry of a chain is a provider and a model, or malformed, which
ends the walk of its rule. Each command is one step here, as `Stores` has them
apart, and has no error; only `config.toml` is ever cut off. Priorities are taken
to be clear of the limits of 32 bits. `off` and `missed` are history.

**`Wire`** turns the provider-agnostic history into requests in the three formats
and replies into calls and token counts, with the arithmetic of prices: values
are records, a text is a sequence of words and JSON objects. **`Ordered`** has the
sorting and selecting that `Wire` and `Routing` need, written by the rank of each
element, since the library's recursive ones cannot be proved about. **`Turns`** is what
uses it: an agent's steps (`Top`, `Compact`, `Ask`, `Migrate`, `RecordCall`,
`UpdateRow`, `RunTools`), chat windows and their workers (`Open`, `Close`, `Send`,
`Take`, `Reply`, `RecordTurn`, `UpdateChatRow`, `Deliver`), CLI tasks and their
workers, probes and generated texts. They share only the two tables of the
ledger, in which each has rows of its own; so who is at work at the same time is
bounded by `Crowds`. A call is asked four times when `Ask` says it is exhausted:
the attempts are in `ProviderLimit`. The statements of the ledger are assumed to
succeed, and servers of Anthropic to give every call an id. `served`, `noted`,
`generated`, `strayed` and `replaced` are history.

**`MCScheduler`**, **`MCProviderLimit`**, **`MCStores`**, **`MCRouting`** and
**`MCTurns`** give small instances.

Definitions introduced by a comment "Mutant" are wrong variants that no action
uses; each shows that the named property notices that mistake.

## 3. Runs

| Run | Module, configuration | Shows |
|---|---|---|
| `wq_order` | `MCWriteQueue`, `WriteQueue_order.cfg` | three writers of one path in every order (a create that an existing file refuses, a patch that may find another text or no file, a delete), its reader and a writer of a path outside: order, reads behind writes, the journal before the answer, refinement of `PathStore` |
| `wq_live` | `WriteQueue_live.cfg` | two tickets for one path, one of them behind the other, and a read behind both, a bound of one, failing calls and journal, a rename, a shutdown at any moment: the journal is truthful; every submitter, also out of a backlog or the channel, and the reader are answered |
| `sched` | `MCScheduler`, `Scheduler.cfg` | two projects in one directory with repeated ids and overlapping claims, one or two slots, a flawed and a panicking agent, a question, a cancel: claims, slots, dependencies, rotation, the end |
| `sched_lost` | `Scheduler_lost.cfg` | *violated*: two tasks that finish together, one is reported as failed |
| `limit` | `MCProviderLimit`, `ProviderLimit.cfg` | three sessions, two providers, a cap of one that may be lifted, migrations both ways: cap, counter, wakeups, the end |
| `session` | `AgentSession`, `AgentSession.cfg` | a session and its resumption with pauses, cancel, snapshots that cannot be written and death anywhere: histories, snapshots, cancel, the end |
| `cli` | `MCCliSession`, `CliSession.cfg` | a file and one below a skipped directory, two changes by the child, one by somebody else, failing tickets, walks and snapshots, pause, cancel and every way the child may end: what the child did arrives or is reported as rejected, a cancelled session ends and can be resumed |
| `cli_stale` | `CliSession_stale.cfg` | *violated*: a file that changed while the agent worked passes the check of its base and is overwritten |
| `project` | `ProjectFile`, `ProjectFile.cfg` | two agents that ask, two users with two commands or dialogs, failing writes, deaths: nothing is lost unless copies overlap, the requirements tell the answers |
| `stores` | `MCStores`, `Stores.cfg` | two processes, three commands, two sessions that refresh tokens, a keychain that comes and goes, deaths: keys resolve, tokens are accepted, wishes are kept |
| `routing` | `MCRouting`, `Routing.cfg` | a session that asks, spends and migrates, two commands, a malformed chain entry, health that changes, the alert check whose actions may fail: the best route, nothing out of rotation, critical providers are reacted to |
| `turns` | `MCTurns`, `Turns.cfg` | an agent with an OpenAI-like, an Anthropic and a local provider, two chat windows, a CLI, a probe, a generated text, replies that are empty, cut, garbled or missing: calls and results in requests, bills, rows and entries, turns, replies |

The violated properties quote the comment or document they state; see
`findings` in `PROJECT.json`.

**Bounds.** *Queue*: three tickets on a path are the least with a backlog that has
an order; a second path is enough for interference, as all interaction is through
the dispatcher and a shared file. Where everything may fail two tickets on a path
and its reader are enough: one waits in the backlog, the bound of one is reached
and overshot (counter and test are two steps), and a shutdown finds tickets in
the channel, in the backlog and at work. *Scheduler*: a chain of three tasks and a second
project reach transitive dependencies, claims across projects and a rotation;
`PollEvery` is two instead of ten, so that old and new answers both occur.
*Limit*: two providers and three sessions are enough to wait for each other and
to barge; one retry and one move pass through every counter's limit. *Session*:
three steps and one resumption reach every branch of the compaction with the
code's own constants 2, 6 and 4, because the resumed history goes on from four
messages or six; one nudge stands for three. *CLI*: two changes are the least
with a write and a delete in one harvest, and one change by others can hit every
pair of neighbouring steps; files do not interact, so one of each kind is enough.
*Project*: two agents race for the lock, two users for the file, and a second
command follows a first one's leftovers. *Stores*: two processes and two sessions
are enough for every race of two copies, a third command for what a race left;
the keychain changes once. Users and sessions are symmetric (only invariants are
checked). *Routing*: two providers, one model and a chain of two have a fallback
and its absence; one unit spent of a plan of four is at the warning and leaves a
rule's minimum exactly, of a plan of two it is critical and too little; two
commands make both providers critical or change one between two steps of a check.
*Turns*: `KeepTail` is 2 instead of 6, so that three steps
reach a compaction between a call and its result; four answered calls are two
chat turns of two windows, or an agent's three steps and a summary; one migration
goes between any two formats.

Deadlock checking is off: in all systems here everything may end.

**Fairness.** Weak fairness for each thread the operating system schedules: a
submitter, an applier, the dispatcher, the scheduler's loop, an agent, a session
that is not asleep, a worker of a chat or of a CLI task. Calls of providers end
because every HTTP client has a timeout (`client.rs:24-31`). In `Routing` the
terminal's timer repeats the check and a check goes on to its last subscription.
Nothing is owed by users (answers, cancel, pause, shutdown, commands), by failures
or by spurious wakeups. A wrapped child is owed an end, because it is killed after
fifteen minutes. Where an outcome depends on a user, the property says so:
`BatchEnds` excepts a question that stays unanswered and an agent that panics,
`SessionEnds` a session that is kept paused, `CancelEnds` speaks of cancelled
sessions, `CriticalIsActedOn` excepts settings changed during a check and a
reaction that fails.

## 4. What the code does not keep

Two are findings with a run:

* the scheduler's harvest drops results of tasks that finish together
  (`sched_lost`);
* a wrapped agent's harvest takes its bases from the workspace of the moment
  (`overlay.rs:73`), so it overwrites what others changed meanwhile (`cli_stale`).

The others are kept out by an instance, a bound or an exception
in a property, each named at its hazard:

* queue: a patch with more lines than its file panics in `locate` (`patch.rs:125`),
  its applier never reports, and everyone behind it on the path waits for ever
  (`MergeStep` has the panic; `wq_order` reaches it, `wq_live`, which asks for
  answers, has no patch);
  two disjoint paths with one stem share a temporary file, and `a` and
  `./a` are two paths; a rename does not queue for its target; the bound can be
  overshot; a ticket that was applied during a shutdown reads as rejected;
* scheduler: questions are polled too rarely to stop a dependent; a cancelled
  batch drops finished tasks from its report;
* sessions: compaction underflows between five and seven messages
  (`agent.rs:766`); a cut at a byte panics on a long output (`tools.rs:325`); a
  session that migrates twice may go back to the provider that failed first; one
  that cannot read its snapshot stays "running"; a snapshot that cannot be written
  is passed over, so a paused or cancelled session may not be resumable;
* wrapped agents: what is made below `.git` or `target` is harvested, a link is
  harvested as the deletion of its target; a file that cannot be read in a walk
  leaves the row "running" and the agent's work behind; a snapshot that cannot be
  written or removed is passed over; a snapshot names rejected paths too, and the
  resumed agent is told that they are applied (`session.rs:125`), so
  `CancelledIsResumable` asks only that what is applied is named; a job still in the slot is overwritten by the
  next launch, and its task never ends;
* project: a question that an agent records is lost when a dialog or command
  saves the copy it read before (`project.rs:182`); a build that holds its copy while
  an answer is saved writes requirements that are out of date;
* stores and configuration: of two commands that overlap the later save wins, a
  death between the two halves of a save leaves an empty file; settings and theme
  are saved as defaults over a `config.toml` that cannot be read;
* routing: a project's overrides rank above all rules by a bonus only; alerts are
  armed again only by a reading between the thresholds (`mission_control.rs:1379`),
  so an action that fails is not tried again, and the dialog says all the same that
  it was taken (`mission_control.rs:1324`); `CriticalIsActedOn` excepts it;
* ledger: what `generate.rs:42` asks for is not recorded, nor is an answer that its
  provider bills and that cannot be parsed; `ChargedToWhoServed` counts it as not
  served.

## 5. Proofs

Every theorem is of the form `Spec => []Property`, for every value of the
constants that the module's named assumption admits; TLC evaluates the assumptions
on every run. The argument is always the same: an inductive invariant that
implies the property, one lemma per action that preserves it, and lemmas about the
operators the actions are made of. TLC checked each invariant, or each part of
it, on the run's instance before it was proved.

**Write queue** (`ConstantsOK`). `TypeCorrect` is inductive once it knows that an
applier past its decision has a verdict and one that is about to write has
something to write (`Verdicts`). `PathsStayInOrder` (`FifoPerPath`) and
`ReadsSeeEarlierWrites` (`ReadYourWrites`) need `Order`, which adds what the code
relies on without saying so:

* `Numbers`: what has entered the channel has a number of its own, not above the
  clock;
* `Channel`: new tickets and reads are in the channel in the order of their
  numbers, each once, and in no other place;
* `Backlog`: each backlog is sorted, holds tickets of its path that came before
  whatever of that path is still in the channel, and exists only for a busy path;
* `Parked`: a parked read belongs to a busy path;
* `Ownership`: a path is busy exactly while one ticket of it is with an applier
  or on its way back as Done; so at most one applier per path.

From these the dispatcher's step from a path's ticket to the next preserves the
order, and the read that is served when a path becomes idle has nothing of its
path before it. `JournalIsTruthful` and `JournalComesBeforeAnswers` need `Journal`,
which says where a verdict may stand: in the journal only past `Record`, in an
answer only once Done is handled, and equal to a decision that no later step
changes.

`QueueImplementsStore` is the refinement of `PathStore`: initial states map to
initial states, and each step is a step of the store or leaves it alone. Its
invariant `Going` says that a ticket under way would still be accepted, that what
it is about to write is what it would make of its file *now*, and that its
temporary file holds this once written. It is preserved because no other applier
touches the file (`Order`, `FilesApart`); so `Rename`, `Unlink` and a refusal at
any earlier step are the atomic operation. The theorem assumes `DisjointPaths`
(no two paths share a file or a temporary file) and `NoRenames`. Both are needed:
section 4 names the aliases and the rename that break the promise. The instance
of `wq_order` satisfies them.

**Scheduler** (`SpecOK`): `WritersStayApart`, `SlotsAreRespected` and
`StartsAreOnFinishedWork`, for any number of projects, tasks and slots and any valid DAG. The invariant is `Scheduled`:

* `Bookkeeping`: a live agent's task has status running, and a running task
  owns the claims of all its paths, so two of them cannot share one;
* `Mail`: a task is in `finished` or in `todo` at most once and only while its
  status is still running, so that no harvest gives back a claim that is not
  its own, and what a thread pushed is its verdict;
* `Budget`: running tasks and the slots still to be given out fit the limit;
* `Work`: a task has an agent only if its dependencies are done, and done tasks
  have succeeded, left their files and been checkpointed.

`Ancestors` is the least closed set above a task, and the done tasks are closed
under their dependencies, so transitivity needs no induction. `SlotsGoRound`
(`NoProjectPassedOver`) needs `Rotation`: the project a tick visits first has a
slot to take, and nothing within the tick makes startable what was not so when
it was looked at; so it is not passed over, and `passed` counts at most the ticks
since its turn.

**Routing** (`RoutingOK`, `RulesOK`): `BestRouteTaken` (`RouteIsBest`) and
`RotationHeeded` (`OutOfRotation`), for any rules, overrides, providers, roles and
numbers of sessions. `DecideIsBest` is about `decide` alone: the rules of a role,
sorted, are each rule once and none before one that is ahead of it (`Ordering`: who
has k before it stands at place k + 1, as ranks are a bijection), so the first that
leads anywhere is the best, and the first usable entry of its chain is the least of
`Good`, which stops where the chain is malformed. That a percentage stays below 101, so that `Good`'s range is no
restriction, is `QuotaIsPercent`: a cycle began with at most what is spent by now
(`Budgets`). The invariant `Routed` adds what a session relies on while others
change everything around it: rules, seeds and overrides are rules whatever is
edited, cut or merged (`RuleList`); who it takes for healthy was not suspended in
the registry it loaded and has not failed it (`Asks`); what counts as out of
rotation for it was suspended in that registry, and a role among it is still paused
(`Avoids`, `Rotation`), because whatever is put back leaves `off` at once.

**Provider limit** (`LimitOK`): `CounterIsExact`, `LimitIsRespected` and
`WakeupsAreNotLost` for any finite set of sessions, any providers, chains, caps,
tries and moves. The invariant `Limit` adds to them `Holding`, what a session has
at each point of its loop, and `UnderCap`, which bounds the counter by the largest
cap, because the cap may change between two permits.

**Agent session** (`SessionOK`, and `KeepsExchanges`: two messages are kept ahead
and an even number at the end, as in `agent.rs`): `HistoriesAreAccepted`
(`ResultsFollowCalls`), `SnapshotsTellAll`, `PausesAreResumable` and
`CancelIsHeeded`, for any number of runs, steps and nudges. The invariant
`Session` says what the loop relies on between its steps: a history is a head,
perhaps the note of a compaction, and whole exchanges of two messages, except
while the results of one are outstanding (`Conversation`); so cutting an even
number from the end of one cuts no exchange in two. `Snapshots` says the same of
what can be resumed, `Saving` what is in the file between `Truncate` and `Save`, and
after them unless a write has failed (`unsaved`),
`Truthful` and `Reporting` which rounds history and snapshot tell of, `Heeding`
where a round may have begun after a cancel.

**Wrapped sessions** (`CliOK`): `WorkArrives` (`AgentsWorkArrives`) and
`CancelsAreResumable` (`CancelledIsResumable`), for any files, contents, changes by
others and failures. `Harvest` follows each file that nobody but the child has
changed since the copy began: it is still to be visited by a walk, waits among the
changes, is the ticket in the queue, has arrived, or was rejected and is as the
child found it (`Tracked`). Its base is still what the overlay was copied from
(`Untouched`), so `Differs` is what the child did. Any ticket may be rejected;
nothing is claimed of files that others changed, which the code overwrites.
`AllNamed` has a ticket for each file the child changed, and `Listing` says that the
snapshot, if it could be written, is of the tickets' files.

**Project file** (`ProjectOK`): `NothingOfTheProjectIsLost` (`NothingIsLost`) and
`RequirementsFollowAnswers` (`RequirementsTellAnswers`), for any agents, users and
lengths of interviews. `Filed` knows who holds a copy and why it is whole
(`Holders`), that nothing unsaved is in the file (`Known`) and that the questions of
interviews are numbered up to the length of the list (`Numbered`). As long as no
copies have overlapped (`Sole`), there is one at most, it has everything the file
had, and the requirements tell every answer or somebody has the steps ahead that
write them, unless a process died or the refresh failed (`Undisturbed`).

**Stores** (`StoresOK`): `SpecKeysResolve`, `SpecTokensAccepted` and
`SpecWishesKept`, for any providers, users, sessions, commands and deaths.
`Stored` has a part for each: `Keys`, that a key is kept from before an entry needs
it until no copy of the registry does; `Tokens`, that the store has the server's
token or the one session that is to put it there has; `Wishes`, that the registry,
or the copy it is being filled from, is what the users wished. They rest on
`Apart` (what was not raced has one process busy with it), `Vaults` (a copy of the
vault differs from it in one provider only) and `Steady` (a keychain that has not
flipped leaves the vault unused).

**Turns** (`TurnsOK`). `RequestsAlternate` (`TurnsAlternate`) holds for any number
of windows and messages, whatever else goes on. Its invariant `Conversing` has
three parts:

* `Shape`: windows are numbered in the order of their opening, and a worker's home
  is one of them, so a new window has no workers left over from another;
* `Talking`: a conversation alternates, and ends with a question exactly while its
  window is busy;
* `Working`: jobs, in the slot or with a worker, are questions, and of the open
  window at most one worker is at work, the one of the last message. Its job, or
  the one it is about to find in the slot, is the conversation itself (`Own`).

The last is why it may append the reply or take its question back. A job that a
worker of another window has taken leaves this one none, and it ends silently.

`TokensBilledOnce` (`BillsEachTokenOnce`) follows the counts of a report through the
three formats and `Buckets`; `TurnsOK` says what a report is, and that Anthropic's
break-down of the tokens written to the cache adds up to their number. A reply
that is at hand is one of the provider in charge (`Heard`).

`BooksAddUp` (`RowsAddUp`) and `ServedIsCharged` (`ChargedToWhoServed`) have the
invariant `Books`. Of the agent it knows what row and entries differ by between the
two statements (`AgentBooks`), of a CLI run the same (`CliBooks`). Chats are harder,
because a row is written from what the job knew of earlier turns: `ChatBooks` says
that at most one job of a window is about, whoever has taken it (`OneJob`), that
what it knows is the row (`Prior`), and that a window that is not waiting shows its
row (`InWindow`). `Balance` says that what a provider has served is in the ledger,
was generated, or is due from the agent, a chat worker or a CLI run. Sums over the
ledger are `SumFunction`; that such a sum exists, is a number, is zero of zeros and
moves as one of its terms does is shown by taking a smallest set of which it would
not hold (`SmallestSet`, from the well-foundedness of inclusion on finite sets),
since an induction theorem cannot be instantiated.

`HistoryIsTold` (`WireTellsHistory`) is about the requests that `Wire` makes of a
history, in three formats. Its invariant `Memory` says that the history is settled
(`Settled`): a system message and the task, perhaps the note of a compaction, then
whole exchanges, an answer with calls and the results of exactly these calls or an
answer without and a nudge; and that the calls of a reply differ in their ids
(`Distinct`): those that are made up have the place in the reply, and servers are
taken to give different ones (Anthropic's to give one to every call). That a reply joins a settled history
(`ExchangeSettles`) and a compaction cuts none of its exchanges (`CondensedSettles`,
from `KeepsExchanges`) preserves it. `SettledFitsOpenAi` and `SettledFitsAnthropic`
then follow each call and its result through the flattening of the history: where
in the request they stand, that nothing is between them, and that a result names
its call, whoever made up its id. Pairing is by message: ids that come again in a
later turn, the empty text block of `anthropic.rs:225` and the texts themselves are
not what the theorem is about. `RepliesOK` says of replies only that their
texts and calls have the types of JSON.

**Only model-checked.** The functions of `Patch`, which are recursive. Liveness under
fairness (`EveryTicketAnswered`, `EveryReadAnswered`, `BatchEnds`, `SessionsEnd`,
`SessionEnds`, `CancelEnds`, `CriticalIsActedOn`, `RepliesArrive`) is
out of the prover's reach.

## 6. Plan

1. Done: write queue, scheduler, provider limit with their proofs; agent session,
   wrapped sessions; project file; stores; routing with quotas and alerts; the
   formats, the ledger and the chat; patches.
2. Done: every safety invariant and action property that a passing run checks is a
   theorem.
3. Abstract specifications worth stating: a budget of slots that `Scheduler`
   implements, a counting semaphore for `ProviderLimit`, and one step "the
   child's changes appear" for the harvest of `CliSession`.

**Not modelled.** Tunnels are processes of `ssh` whose behaviour is not RoleN's.
Widgets, layout, document rendering, notifications and diagnosis keep no state
that could go wrong in an order nobody tested. The ledger's schema migration is
one transaction of SQLite. Routing conditions on the kind of task and on the time
of day are compared like the ones that are modelled. Processes and pipes of
`run_shell` are the operating system's. Encryption of the vault, headers and the
wording of prompts are data that no property tells apart.
