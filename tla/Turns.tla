------------------------------- MODULE Turns -------------------------------
(***************************************************************************)
(* Turns with providers and their bookkeeping: an agent that calls tools,  *)
(* is compacted and migrates between providers of different formats, Quick *)
(* Chat windows with their background workers, a wrapped CLI and a probe.  *)
(* Each call is recorded in ledger_entries and added to the session's row. *)
(* When an agent pauses, retries or dies is in AgentSession and            *)
(* ProviderLimit; here a call succeeds or fails for good.                  *)
(***************************************************************************)
EXTENDS Wire, FiniteSets, Functions

CONSTANTS
  Providers, Api, Kind,  \* per provider: its format; "metered", "local", "plan"
  Rates,                 \* per provider: the rates entered for its model
  Cli,                   \* the provider of the wrapped CLI
  Replies,               \* per format: what may come back for a call
  KeepHead, KeepTail,    \* 2 and 6 in maybe_compact
  MaxSteps, MaxNudges, MaxMigrations,
  Windows, MaxSends,     \* bounds: chat windows opened, messages typed
  MaxTasks,              \* bound: CLI tasks launched
  MaxProbes,             \* bound: uses of provider test
  MaxTexts,              \* bound: texts generated for a project
  MaxCalls,              \* bound: calls that are answered, of all kinds
  Crowds,                \* bound: who is at work at the same time
  NULL

Chats == 1 .. Windows
Jobs  == 1 .. MaxSends
Tasks == 1 .. MaxTasks
Agent == <<"agent", 0>>
Probes == <<"manual", 0>>
Chat(w) == <<"chat", w>>
CliRun(j) == <<"cli", j>>
Sessions == {Agent, Probes} \cup {Chat(w) : w \in Chats} \cup {CliRun(j) : j \in Tasks}
Called == {p \in Providers : Api[p] # "cli"}

Counts == Nat \cup {Absent}
Reports == [input : Counts, read : Counts, written : Counts, five : Counts, hour : Counts, output : Counts]

ASSUME TurnsOK ==
  /\ IsFiniteSet(Providers)
  /\ Cli \in Providers /\ Called # {} /\ Api[Cli] = "cli"
  /\ KeepHead \in Nat \ {0} /\ KeepTail \in Nat \ {0}
  /\ Windows \in Nat /\ MaxSends \in Nat /\ MaxTasks \in Nat
  /\ \A p \in Called : Api[p] \in {"openai", "anthropic", "ollama"}
  /\ Rates \in [Providers -> [input : Int, output : Int, read : Int, five : Int, hour : Int]]
  /\ \A p \in Called : \A r \in Replies[Api[p]] :
       r.usage \in Reports /\ r.http \in {"ok", "busy", "refused", "unsent"}
  \* Anthropic's servers give every call an id, others may not, and where they
  \* break the writes down by lifetime, they count each write once.
  /\ \A r \in Replies["anthropic"] :
       /\ \A i \in DOMAIN r.calls : r.calls[i].given
       /\ (r.usage.five # Absent \/ r.usage.hour # Absent) =>
            Or(r.usage.written, 0) = Or(r.usage.five, 0) + Or(r.usage.hour, 0)

\* The system message and the task are kept, and whole exchanges of two messages.
ASSUME KeepsExchanges == KeepHead = 2 /\ KeepTail % 2 = 0

\* The pieces of a text, and the calls as they come in.
RawCalls == [named : BOOLEAN, given : BOOLEAN, tool : STRING, args : STRING]
ASSUME RepliesOK ==
  \A p \in Called : \A r \in Replies[Api[p]] : r.text \in Seq(STRING) /\ r.calls \in Seq(RawCalls)

VARIABLES
  pc, prov, history, answer, \* the agent: where it is, its provider, its history, the reply at hand
  steps, nudges, migrations,
  entries,  \* ledger_entries: tokens and cost per session and provider
  rows,     \* sessions: tokens and cost
  win,      \* the open chat window, or 0
  opened,   \* windows opened so far
  talk,     \* its conversation: who spoke, in answer to which send
  busy, totals,
  slot,     \* CHAT_JOB: a job or NULL
  workers,  \* per send, the worker it started
  sends,
  launched, \* CLI tasks launched so far
  cliSlot,  \* CLI_JOB: a task or NULL
  cli,      \* per launch, the worker it started: where it is, the task it has found
  replaced, \* history: tasks that another one has taken the place of
  probes, texts,
  generated, \* history: tokens each provider has reported for generated texts
  noted,    \* history: tokens and cost of summaries
  served,   \* history: tokens each provider has reported
  made,     \* calls answered so far, for the bound
  strayed   \* history: a worker found another job than its own, or none

agent == <<pc, prov, history, answer, steps, nudges, migrations>>
window == <<win, opened, talk, busy, totals, sends>>
chat == <<window, slot, workers>>
ledger == <<entries, rows>>
tasks == <<launched, cliSlot, cli, replaced>>
others == <<tasks, probes, texts, generated>>
vars == <<agent, ledger, chat, others, noted, served, made, strayed>>

Nothing == [tokens |-> 0, cost |-> 0]
Plus(a, b) == [tokens |-> a.tokens + b.tokens, cost |-> a.cost + b.cost]
\* estimate_cost, and input and output of a call.
Spent(p, t) == [tokens |-> t.input + t.output, cost |-> Cost(Kind[p], Rates[p], t)]

\* A reply, and for the history the usage report it was read from.
Answer(reply, usage) == [text |-> reply.text, calls |-> reply.calls, tokens |-> reply.tokens, usage |-> usage]
NoAnswer == Answer(Failed(""), NULL)
Idle == [at |-> "unused", home |-> 0, job |-> NULL, spent |-> Nothing]

Init ==
  /\ prov \in Called
  /\ \E crowd \in Crowds :
       /\ pc = IF "agent" \in crowd THEN "top" ELSE "absent"
       /\ opened = IF "chat" \in crowd THEN 0 ELSE Windows
       /\ launched = IF "cli" \in crowd THEN 0 ELSE MaxTasks
       /\ probes = IF "probe" \in crowd THEN 0 ELSE MaxProbes
       /\ texts = IF "generate" \in crowd THEN 0 ELSE MaxTexts
  /\ history = <<SystemSays(<<Word>>), UserSays(<<Word>>)>>
  /\ answer = NoAnswer /\ steps = 0 /\ nudges = 0 /\ migrations = 0
  /\ entries = [s \in Sessions |-> [p \in Providers |-> Nothing]]
  /\ rows = [s \in Sessions |-> Nothing]
  /\ win = 0 /\ talk = <<>> /\ busy = FALSE /\ totals = Nothing
  /\ slot = NULL /\ workers = [j \in Jobs |-> Idle] /\ sends = 0
  /\ cliSlot = NULL /\ cli = [j \in Tasks |-> [at |-> "unused", task |-> NULL]] /\ replaced = {}
  /\ generated = [p \in Providers |-> 0]
  /\ noted = Nothing /\ served = [p \in Providers |-> 0] /\ made = 0 /\ strayed = FALSE

\* Ledger::record and upsert_session, each a statement of its own.
Record(s, p, spent) == entries' = [entries EXCEPT ![s][p] = Plus(@, spent)]
Upsert(s, total) == rows' = [rows EXCEPT ![s] = total]
\* usage_since for one provider: every session's entries, tokens only.
UsageOf(p) == SumFunction([s \in Sessions |-> entries[s][p].tokens])
Serve(p, spent) == served' = [served EXCEPT ![p] = @ + spent.tokens]
Answering == made < MaxCalls /\ made' = made + 1

-----------------------------------------------------------------------------
(* The agent.                                                              *)

Top ==
  /\ pc = "top"
  /\ steps' = steps + 1
  /\ pc' = IF steps = MaxSteps THEN "failed" ELSE "compact"
  /\ UNCHANGED <<prov, history, answer, nudges, migrations, ledger, chat, others,
                 noted, served, made, strayed>>

\* maybe_compact, with a summary by the model, which is in the ledger and not
\* in the row, or without.
Condensed ==
  LET cut == Len(history) - KeepTail
  IN  SubSeq(history, 1, KeepHead) \o <<SystemSays(<<Word>>)>> \o SubSeq(history, cut + 1, Len(history))

SkipCompaction ==
  /\ pc = "compact" /\ pc' = "ask"
  /\ UNCHANGED <<prov, history, answer, steps, nudges, migrations, ledger, chat, others,
                 noted, served, made, strayed>>

Compact ==
  /\ pc = "compact" /\ pc' = "ask"
  /\ Len(history) > KeepHead + KeepTail
  /\ history' = Condensed
  /\ \/ \E r \in Replies[Api[prov]] :
          LET reply == PlainChat(Api[prov], r)
              spent == Spent(prov, reply.tokens)
          IN  /\ reply.error = "" /\ Answering
              /\ Record(Agent, prov, spent)
              /\ noted' = Plus(noted, spent)
              /\ Serve(prov, spent)
     \/ UNCHANGED <<entries, noted, served, made>>
  /\ UNCHANGED <<prov, answer, steps, nudges, migrations, rows, chat, others, strayed>>

\* The body goes out in the provider's format, a reply or a failure comes back.
\* A provider that is busy has been asked four times when this shows.
Ask ==
  /\ pc = "ask"
  /\ \E r \in Replies[Api[prov]] :
       LET reply == ChatTools(Api[prov], r, steps)
       IN  \/ /\ reply.error = "" /\ Answering
              /\ pc' = "answered" /\ answer' = Answer(reply, r.usage)
              /\ Serve(prov, Spent(prov, reply.tokens))
           \/ /\ reply.error # ""
              /\ pc' = IF reply.error = "busy" THEN "exhausted" ELSE "failed"
              /\ UNCHANGED <<answer, served, made>>
  /\ UNCHANGED <<prov, history, steps, nudges, migrations, ledger, chat, others, noted, strayed>>

\* Another provider, if routing has one and none was chosen by hand.
Migrate ==
  /\ pc = "exhausted" /\ pc' = "ask" /\ migrations < MaxMigrations
  /\ prov' \in Called \ {prov}
  /\ migrations' = migrations + 1
  /\ UNCHANGED <<history, answer, steps, nudges, ledger, chat, others, noted, served, made, strayed>>

Fail ==
  /\ pc = "exhausted" /\ pc' = "failed"
  /\ UNCHANGED <<prov, history, answer, steps, nudges, migrations, ledger, chat, others,
                 noted, served, made, strayed>>

\* Mutant (ChargedToWhoServed): the call is booked on another provider.
BookedOnFirst == CHOOSE p \in Called : TRUE
BookedOn == prov

RecordCall ==
  /\ pc = "answered" /\ pc' = "recorded"
  /\ Record(Agent, BookedOn, Spent(prov, answer.tokens))
  /\ UNCHANGED <<prov, history, answer, steps, nudges, migrations, rows, chat, others,
                 noted, served, made, strayed>>

UpdateRow ==
  /\ pc = "recorded" /\ pc' = "act"
  /\ Upsert(Agent, Plus(rows[Agent], Spent(prov, answer.tokens)))
  /\ UNCHANGED <<prov, history, answer, steps, nudges, migrations, entries, chat, others,
                 noted, served, made, strayed>>

ToolCalls == IF answer.calls = <<>> THEN Salvaged(answer.text) ELSE answer.calls

\* The tools run one after the other; an outcome may be an error.
RunTools ==
  /\ pc = "act" /\ ToolCalls # <<>>
  /\ history' = history \o <<ModelSays(answer.text, ToolCalls),
                             ToolsSay([i \in DOMAIN ToolCalls |-> Outcome(ToolCalls[i])])>>
  /\ pc' = "top" /\ answer' = NoAnswer
  /\ UNCHANGED <<prov, steps, nudges, migrations, ledger, chat, others, noted, served, made, strayed>>

\* An output longer than 20 KB is cut at a byte that may be in the middle of a
\* character: the thread panics.
ToolPanics ==
  /\ pc = "act" /\ ToolCalls # <<>> /\ pc' = "panicked"
  /\ UNCHANGED <<prov, history, answer, steps, nudges, migrations, ledger, chat, others,
                 noted, served, made, strayed>>

Nudge ==
  /\ pc = "act" /\ ToolCalls = <<>> /\ nudges < MaxNudges
  /\ nudges' = nudges + 1
  /\ history' = history \o <<ModelSays(answer.text, <<>>), UserSays(<<Word>>)>>
  /\ pc' = "top" /\ answer' = NoAnswer
  /\ UNCHANGED <<prov, steps, migrations, ledger, chat, others, noted, served, made, strayed>>

Done ==
  /\ pc = "act" /\ ToolCalls = <<>> /\ pc' = "done"
  /\ UNCHANGED <<prov, history, answer, steps, nudges, migrations, ledger, chat, others,
                 noted, served, made, strayed>>

AgentNext == Top \/ SkipCompaction \/ Compact \/ Ask \/ Migrate \/ Fail \/ RecordCall
               \/ UpdateRow \/ RunTools \/ ToolPanics \/ Nudge \/ Done

-----------------------------------------------------------------------------
(* Quick Chat.                                                             *)

Open ==
  /\ win = 0 /\ opened < Windows
  /\ win' = opened + 1 /\ opened' = opened + 1
  /\ talk' = <<>> /\ busy' = FALSE /\ totals' = Nothing
  /\ UNCHANGED <<agent, ledger, slot, workers, sends, others, noted, served, made, strayed>>

\* A worker that is still at work goes on; its message finds no window.
Close ==
  /\ win # 0 /\ win' = 0
  /\ talk' = <<>> /\ busy' = FALSE /\ totals' = Nothing
  /\ UNCHANGED <<agent, ledger, opened, slot, workers, sends, others, noted, served, made, strayed>>

\* Mutant (TurnsAlternate): one may send while a reply is awaited.
MaySendAnyTime == win # 0 /\ sends < MaxSends
MaySend == win # 0 /\ ~busy /\ sends < MaxSends

Send ==
  /\ MaySend
  /\ LET j == sends + 1
         said == Append(talk, <<"user", j>>)
     IN  /\ sends' = j
         /\ talk' = said
         /\ \E p \in Called :
              slot' = [home |-> win, prov |-> p, turns |-> said, prior |-> totals]
         /\ workers' = [workers EXCEPT ![j] = [Idle EXCEPT !.at = "starting", !.home = win]]
  /\ busy' = TRUE
  /\ UNCHANGED <<agent, ledger, win, opened, totals, others, noted, served, made, strayed>>

\* chat_worker takes whatever job the slot holds; with none it ends silently.
Take(j) ==
  /\ workers[j].at = "starting"
  /\ workers' = [workers EXCEPT ![j].at = IF slot = NULL THEN "ended" ELSE "sending", ![j].job = slot]
  /\ slot' = NULL
  /\ strayed' = (strayed \/ slot = NULL \/ (slot # NULL /\ slot.home # workers[j].home))
  /\ UNCHANGED <<agent, ledger, window, others, noted, served, made>>

\* conversation::send: the reply, or none, or one that cannot be read ...
Reply(j) ==
  /\ workers[j].at = "sending"
  /\ LET p == workers[j].job.prov
     IN  \E r \in Replies[Api[p]] :
           LET reply == PlainChat(Api[p], r)
               spent == Spent(p, reply.tokens)
           IN  \/ /\ reply.error = "" /\ Answering
                  /\ workers' = [workers EXCEPT ![j].at = "replied", ![j].spent = spent]
                  /\ Serve(p, spent)
               \/ /\ reply.error # ""
                  /\ workers' = [workers EXCEPT ![j].at = "failing"]
                  /\ UNCHANGED <<served, made>>
  /\ UNCHANGED <<agent, ledger, window, slot, others, noted, strayed>>

\* ... its entry, and the row, which knows of the turns before only what the
\* job says.
RecordTurn(j) ==
  /\ workers[j].at = "replied"
  /\ Record(Chat(workers[j].job.home), workers[j].job.prov, workers[j].spent)
  /\ workers' = [workers EXCEPT ![j].at = "recorded"]
  /\ UNCHANGED <<agent, rows, window, slot, others, noted, served, made, strayed>>

\* Mutant (RowsAddUp): the row shows the last exchange only.
RowOfTurnOnly(w) == w.spent
RowOfTurn(w) == Plus(w.job.prior, w.spent)

UpdateChatRow(j) ==
  /\ workers[j].at = "recorded"
  /\ Upsert(Chat(workers[j].job.home), RowOfTurn(workers[j]))
  /\ workers' = [workers EXCEPT ![j].at = "notifying"]
  /\ UNCHANGED <<agent, entries, window, slot, others, noted, served, made, strayed>>

\* on_update, in the window that started the worker, if it is still there.
\* Mutant (RepliesArrive): a failure leaves the window waiting.
BusyAfterFailed(w) == w.at = "failing"
BusyAfter(w) == FALSE

Deliver(j) ==
  LET w == workers[j]
  IN  /\ w.at \in {"notifying", "failing"}
      /\ workers' = [workers EXCEPT ![j].at = "ended"]
      /\ IF w.home # win THEN UNCHANGED <<talk, busy, totals>>
         ELSE /\ busy' = BusyAfter(w)
              /\ IF w.at = "failing"
                 THEN /\ talk' = Front(talk)
                      /\ UNCHANGED totals
                 ELSE /\ talk' = Append(talk, <<"assistant", Last(w.job.turns)[2]>>)
                      /\ totals' = Plus(totals, w.spent)
      /\ UNCHANGED <<agent, ledger, win, opened, sends, slot, others, noted, served, made, strayed>>

Worker(j) == Take(j) \/ Reply(j) \/ RecordTurn(j) \/ UpdateChatRow(j) \/ Deliver(j)

ChatNext == Open \/ Close \/ Send \/ \E j \in Jobs : Worker(j)

-----------------------------------------------------------------------------
(* Wrapped CLIs of mission control.                                         *)

\* run_cli_task: nothing keeps one from launching the next.
Launch ==
  /\ launched < MaxTasks
  /\ launched' = launched + 1 /\ cliSlot' = launched + 1
  /\ cli' = [cli EXCEPT ![launched + 1].at = "starting"]
  /\ replaced' = replaced \cup ({cliSlot} \ {NULL})
  /\ UNCHANGED <<agent, ledger, chat, probes, texts, generated, noted, served, made, strayed>>

\* cli_task_worker: the task in the slot, whose launch ever put it there; or "no job".
TakeTask(j) ==
  /\ cli[j].at = "starting"
  /\ cli' = [cli EXCEPT ![j] = [at |-> IF cliSlot = NULL THEN "finished" ELSE "running", task |-> cliSlot]]
  /\ cliSlot' = NULL
  /\ UNCHANGED <<agent, ledger, chat, launched, replaced, probes, texts, generated, noted, served, made, strayed>>

\* No usage is reported, a quarter of the characters is taken for tokens.
CliTokens == [input |-> 1, read |-> 0, five |-> 0, hour |-> 0, output |-> 1]

\* The row, which has no cost, comes before the entry.  A run may fail before
\* either.
CliRow(j) ==
  /\ cli[j].at = "running"
  /\ \/ /\ cli' = [cli EXCEPT ![j].at = "rowed"]
        /\ Upsert(CliRun(j), [tokens |-> Spent(Cli, CliTokens).tokens, cost |-> 0])
        /\ Serve(Cli, Spent(Cli, CliTokens))
     \/ cli' = [cli EXCEPT ![j].at = "finished"] /\ UNCHANGED <<rows, served>>
  /\ UNCHANGED <<agent, entries, chat, launched, cliSlot, replaced, probes, texts, generated, noted, made, strayed>>

CliEntry(j) ==
  /\ cli[j].at = "rowed" /\ cli' = [cli EXCEPT ![j].at = "finished"]
  /\ Record(CliRun(j), Cli, Spent(Cli, CliTokens))
  /\ UNCHANGED <<agent, rows, chat, launched, cliSlot, replaced, probes, texts, generated, noted, served, made, strayed>>

\* CliTaskMsg::Finished arrives, with a dialog.
Finished(j) ==
  /\ cli[j].at = "finished" /\ cli' = [cli EXCEPT ![j].at = "ended"]
  /\ UNCHANGED <<agent, ledger, chat, launched, cliSlot, replaced, probes, texts, generated, noted, served, made, strayed>>

CliWorker(j) == TakeTask(j) \/ CliRow(j) \/ CliEntry(j) \/ Finished(j)

-----------------------------------------------------------------------------
\* test_prompt: an entry under a session that has no row.
Probe(p) ==
  /\ probes < MaxProbes /\ Answering
  /\ probes' = probes + 1
  /\ \E r \in Replies[Api[p]] :
       LET reply == PlainChat(Api[p], r)
           spent == Spent(p, reply.tokens)
       IN  reply.error = "" /\ Record(Probes, p, spent) /\ Serve(p, spent)
  /\ UNCHANGED <<agent, rows, chat, tasks, texts, generated, noted, strayed>>

\* generate::ask, for questions, requirements and task graphs: nothing is recorded.
Generate(p) ==
  /\ texts < MaxTexts /\ Answering
  /\ texts' = texts + 1
  /\ \E r \in Replies[Api[p]] :
       LET reply == PlainChat(Api[p], r)
       IN  /\ reply.error = ""
           /\ Serve(p, Spent(p, reply.tokens))
           /\ generated' = [generated EXCEPT ![p] = @ + Spent(p, reply.tokens).tokens]
  /\ UNCHANGED <<agent, ledger, chat, tasks, probes, noted, strayed>>

CliNext == Launch \/ \E j \in Tasks : CliWorker(j)

Next == AgentNext \/ ChatNext \/ CliNext \/ \E p \in Called : Probe(p) \/ Generate(p)

\* Workers run and their messages are handled; HTTP calls time out (client.rs:24-31),
\* and the CLI that a worker has started ends.
Spec == Init /\ [][Next]_vars /\ (\A j \in Jobs : WF_vars(Worker(j)))
                              /\ (\A j \in Tasks : WF_vars(CliWorker(j)))

-----------------------------------------------------------------------------
(* Properties.                                                             *)

\* The results of a message and the calls of the one before it: each result
\* goes to exactly one call, and that is the call it is the result of.
Addressed(answers, calls) ==
  /\ Len(answers) = Len(calls)
  /\ \A i \in DOMAIN answers :
       \E k \in DOMAIN calls :
         /\ calls[k].id = answers[i].id
         /\ calls[k].tool = answers[i].of.tool /\ calls[k].args = answers[i].of.args
         /\ \A other \in DOMAIN calls : calls[other].id = answers[i].id => other = k

OpenAiFits(body) ==
  \A j \in DOMAIN body :
    /\ body[j].role = "assistant" /\ body[j].calls # <<>> =>
         /\ j + Len(body[j].calls) <= Len(body)
         /\ LET next == SubSeq(body, j + 1, j + Len(body[j].calls))
            IN  /\ \A i \in DOMAIN next : next[i].role = "tool"
                /\ Addressed(next, body[j].calls)
    /\ body[j].role = "tool" =>
         \E i \in 1 .. j - 1 : body[i].role = "assistant" /\ j - i <= Len(body[i].calls)

AnthropicFits(messages) ==
  \A j \in DOMAIN messages :
    /\ messages[j].uses # <<>> =>
         j < Len(messages) /\ Addressed(messages[j + 1].results, messages[j].uses)
    /\ messages[j].results # <<>> => j > 1 /\ messages[j - 1].uses # <<>>

\* "history is provider-agnostic, so the session simply continues on the next
\* fallback" (agent.rs:414-415): whatever provider is asked next, and whichever
\* made up or left out the ids of the calls so far, the body in its format
\* tells it which result belongs to which call.
WireTellsHistory ==
  pc = "ask" =>
    /\ \A style \in {"openai", "ollama"} : OpenAiFits(OpenAiBody(history, style))
    /\ AnthropicFits(AnthropicBody(history).messages)

\* The prompt tokens a server counts in a report.
PromptTokens(api, u) ==
  IF api = "anthropic"
  THEN Or(u.input, 0) + Or(u.read, 0) + Or(u.written, 0)
  ELSE Or(u.input, 0)

\* The cache buckets are subsets of the input (pricing.rs:24-25): whatever a
\* format leaves out, repeats or gets wrong, each prompt token that a server
\* counts is billed, and in exactly one bucket.
BillsEachTokenOnce ==
  pc = "answered" =>
    LET b == Buckets(answer.tokens)
    IN  b.fresh + b.read + b.five + b.hour = PromptTokens(Api[prov], answer.usage)

\* Everything of a session that has been recorded.
Sum(s) == [tokens |-> SumFunction([p \in Providers |-> entries[s][p].tokens]),
           cost   |-> SumFunction([p \in Providers |-> entries[s][p].cost])]

\* A row is one for the whole session (conversation.rs:17-19): between an entry
\* and its row it tells what the entries of the session tell together, but for
\* the agent's summaries, which are in the entries only, and the cost of a CLI.
RowsAddUp ==
  /\ pc # "recorded" => Plus(rows[Agent], noted) = Sum(Agent)
  /\ \A w \in Chats :
       (\A j \in Jobs : workers[j].at = "recorded" => workers[j].job.home # w)
         => rows[Chat(w)] = Sum(Chat(w))
  /\ \A j \in Tasks : cli[j].at # "rowed" => rows[CliRun(j)].tokens = Sum(CliRun(j)).tokens

Unrecorded ==
  \/ pc = "answered"
  \/ \E j \in Tasks : cli[j].at = "rowed"
  \/ \E j \in Jobs : workers[j].at = "replied"

\* Budgets and alerts add up the entries of a provider (routing.rs:67-70): once
\* nothing is waiting to be recorded they are what that provider has reported,
\* through migrations and changes of provider, but for generated texts.
ChargedToWhoServed ==
  ~Unrecorded => \A p \in Providers : UsageOf(p) + generated[p] = served[p]

\* Two user messages in a row are refused by some providers (quick_chat.rs:
\* 304-305): every request alternates, ends with a question and has each
\* question followed by the reply to it.
TurnsAlternate ==
  \A j \in Jobs : workers[j].job # NULL =>
    LET turns == workers[j].job.turns
    IN  /\ Len(turns) % 2 = 1
        /\ \A i \in DOMAIN turns :
             IF i % 2 = 1 THEN turns[i][1] = "user"
             ELSE turns[i] = <<"assistant", turns[i - 1][2]>>

\* A window does not wait for ever (quick_chat.rs:94-96), unless it was opened
\* before the worker of a closed one had looked into the slot they share.  Of
\* every CLI task that is launched one worker, and no other, tells how it ended,
\* unless the next launch came before a worker had looked.
Told(t) == Cardinality({j \in Tasks : cli[j].task = t /\ cli[j].at = "ended"}) = 1
RepliesArrive ==
  /\ []<>(~busy) \/ <>strayed
  /\ \A t \in Tasks : cliSlot = t ~> (Told(t) \/ t \in replaced)
=============================================================================
