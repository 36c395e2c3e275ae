---------------------------- MODULE ProjectFile ----------------------------
(***************************************************************************)
(* rolen-project.yaml and the files made from it.  The agents of a batch   *)
(* record questions under a lock of their process and publish with a       *)
(* rename; the commands and dialogs of the user load the file, talk to the *)
(* user or to an LLM, and save the whole of it in place.  All of them run  *)
(* at once, in two processes, and either may die.                          *)
(***************************************************************************)
EXTENDS Naturals, Sequences, FiniteSets, SequencesExt

CONSTANTS Agents,        \* agent threads of one batch that call ask_user, once each
          Users,         \* one user interface per process: a terminal or a command
          Cli,           \* those of Users that are the command line
          Home,          \* the process, named by its user, that runs the agents
          MaxOps,        \* bound: commands and dialogs of all users
          MaxInterview,  \* bound: questions of one interview
          NULL

ASSUME ProjectOK == /\ Cli \subseteq Users /\ Home \in Users /\ Agents \cap Users = {}
                    /\ NULL \notin Agents \cup Users
                    /\ MaxInterview \in Nat

VARIABLES yaml,      \* rolen-project.yaml: [st, qs, skill]
          json,      \* REQUIREMENTS.json: [st, qs, skill]
          docs,      \* which of REQUIREMENTS.md, AGENTS.md, tasks.yaml exist
          pc,        \* where each agent is
          todo,      \* the steps each user's command or dialog has ahead
          copy,      \* the ProjectMeta each of them holds
          lock,      \* QUESTION_LOCK of Home
          refs,      \* question_refs of each terminal
          chosen,    \* the question whose dialog is open
          nanos,     \* the clock that names an agent's questions
          left,      \* how many commands and dialogs may still begin
          asked,     \* history: questions of which somebody was told they are recorded
          told,      \* history: questions whose answer was saved
          overlap,   \* history: a user held a copy while somebody else did
          died,      \* history: the processes that died
          unwritten  \* history: a refresh of the requirements could not write them

files == <<yaml, json, docs>>
history == <<asked, told, overlap, died, unwritten>>
agents == <<pc, lock, nanos>>
dialogs == <<todo, refs, chosen, left>>
vars == <<files, copy, agents, dialogs, history>>

Absent == [st |-> "absent", qs |-> <<>>, skill |-> FALSE]
Torn == [Absent EXCEPT !.st = "torn"]
Blank == [Absent EXCEPT !.st = "ok"]
Procs == Agents \cup Users
ProcOf(p) == IF p \in Agents THEN Home ELSE p

Ids(m) == {m.qs[i].id : i \in DOMAIN m.qs}
Having(m, statuses) == {m.qs[i].id : i \in {j \in DOMAIN m.qs : m.qs[j].status \in statuses}}
Open(m) == Having(m, {"pending", "deferred"})
Answered(m) == Having(m, {"answered"})

Push(m, id, status) == [m EXCEPT !.qs = Append(@, [id |-> id, status |-> status])]

\* iter_mut().find: the first question of that id, if there is one.
SetAnswered(m, id) ==
    [m EXCEPT !.qs = [i \in DOMAIN @ |->
        IF @[i].id = id /\ \A j \in 1..(i - 1) : @[j].id # id
          THEN [@[i] EXCEPT !.status = "answered"] ELSE @[i]]]

Holding == {p \in Procs : copy[p] # Absent}
\* A copy is taken; overlap notes that another one is held, not both by agents.
Take(p, m) ==
    /\ copy' = [copy EXCEPT ![p] = m]
    /\ overlap' = (overlap \/ \E h \in Holding \ {p} : {p, h} \cap Users # {})

Init ==
    /\ yaml \in {Absent, Push(Blank, <<"q", 1>>, "deferred")}
    /\ json = Absent /\ docs = {}
    /\ pc = [a \in Agents |-> "idle"]
    /\ todo = [u \in Users |-> <<>>]
    /\ copy = [p \in Procs |-> Absent]
    /\ lock = NULL
    /\ refs = [u \in Users |-> {}]
    /\ chosen = [u \in Users |-> NULL]
    /\ nanos = 0 /\ left = MaxOps
    /\ asked = {} /\ told = {} /\ overlap = FALSE /\ died = {} /\ unwritten = FALSE

-----------------------------------------------------------------------------
(* record_question_with_topic, by an agent *)

\* Mutant: without the lock.
LockIgnored(a) ==
    /\ pc[a] = "idle"
    /\ lock' = a
    /\ pc' = [pc EXCEPT ![a] = "load"]
    /\ UNCHANGED <<files, copy, nanos, dialogs, history>>

LockQuestions(a) ==
    /\ pc[a] = "idle" /\ lock = NULL
    /\ lock' = a
    /\ pc' = [pc EXCEPT ![a] = "load"]
    /\ UNCHANGED <<files, copy, nanos, dialogs, history>>

LoadFails(a) ==
    /\ pc[a] = "load" /\ yaml.st # "ok"
    /\ lock' = NULL
    /\ pc' = [pc EXCEPT ![a] = "refused"]
    /\ UNCHANGED <<files, copy, nanos, dialogs, history>>

LoadAndPush(a) ==
    /\ pc[a] = "load" /\ yaml.st = "ok"
    /\ nanos' = nanos + 1
    /\ Take(a, Push(yaml, <<"mq", nanos>>, "pending"))
    /\ pc' = [pc EXCEPT ![a] = "publish"]
    /\ UNCHANGED <<files, lock, dialogs, asked, told, died, unwritten>>

\* The temporary file is written and renamed; within one process nobody else
\* touches it.
Publish(a) ==
    /\ pc[a] = "publish"
    /\ yaml' = copy[a]
    /\ asked' = asked \cup {Last(copy[a].qs).id}
    /\ copy' = [copy EXCEPT ![a] = Absent]
    /\ lock' = NULL
    /\ pc' = [pc EXCEPT ![a] = "done"]
    /\ UNCHANGED <<json, docs, nanos, dialogs, told, overlap, died, unwritten>>

\* Either fails: the file is as it was, and the guard unlocks on the way out.
PublishFails(a) ==
    /\ pc[a] = "publish"
    /\ copy' = [copy EXCEPT ![a] = Absent]
    /\ lock' = NULL
    /\ pc' = [pc EXCEPT ![a] = "refused"]
    /\ UNCHANGED <<files, nanos, dialogs, history>>

Record(a) == LockQuestions(a) \/ LoadFails(a) \/ LoadAndPush(a) \/ Publish(a) \/ PublishFails(a)

-----------------------------------------------------------------------------
(* Commands and dialogs: the steps each takes once it holds the project.    *)
(* "ask" is a round of questions, "answer" and "skill" an edit of the copy, *)
(* "save" ProjectMeta::save.                                                *)

NewCommand == {<<"save">>, <<"save", "ask", "save">>}
InterviewCommand == {<<"ask", "save">>}
BuildCommand == {<<"llm", "md", "json", "agents", "save">>}
SkillsCommand(m) == {IF m.skill THEN <<>> ELSE <<"skill", "save">>}
NewDialog == {<<"save">>}
InterviewDialog == {<<"ask", "save">>}
BuildDialog == {<<"llm", "md", "json", "agents">>}
AnswerDialog == {<<"answer", "save", "reload">>}

Commands(m) == InterviewCommand \cup BuildCommand \cup SkillsCommand(m)
Dialogs == InterviewDialog \cup BuildDialog

Idle(u) == todo[u] = <<>> /\ copy[u] = Absent /\ u \notin died
At(u, step) == todo[u] # <<>> /\ Head(todo[u]) = step
Goto(u, steps) == todo' = [todo EXCEPT ![u] = steps]
Done(u) == Goto(u, Tail(todo[u]))

\* The timer of a terminal that shows no dialog: what is open is listed; a file
\* that does not load has nothing.
RefreshQuestions(u) ==
    /\ Idle(u) /\ u \notin Cli
    /\ refs' = [refs EXCEPT ![u] = Open(yaml)]
    /\ UNCHANGED <<files, copy, agents, todo, chosen, left, history>>

Begin(u) ==
    /\ Idle(u) /\ left > 0
    /\ left' = left - 1
    /\ UNCHANGED <<files, agents, refs, asked, told, died, unwritten>>

\* scaffold refuses a directory that has a project file, torn or not.
Scaffold(u) ==
    /\ Begin(u) /\ yaml.st = "absent"
    /\ Take(u, Blank)
    /\ \E steps \in IF u \in Cli THEN NewCommand ELSE NewDialog : Goto(u, steps)
    /\ UNCHANGED chosen

\* find_project: a project whose file does not load is not found.
FindProject(u) ==
    /\ Begin(u) /\ yaml.st = "ok"
    /\ Take(u, yaml)
    /\ \E steps \in IF u \in Cli THEN Commands(yaml) ELSE Dialogs : Goto(u, steps)
    /\ UNCHANGED chosen

\* answer_question looks the question up in the file it loads, and returns when
\* it is gone.
OpenAnswer(u, id) ==
    /\ u \notin Cli /\ id \in refs[u]
    /\ Begin(u) /\ yaml.st = "ok" /\ id \in Ids(yaml)
    /\ Take(u, yaml)
    /\ chosen' = [chosen EXCEPT ![u] = id]
    /\ \E steps \in AnswerDialog : Goto(u, steps)

\* The LLM fails or the dialog is cancelled: the copy is dropped, nothing written.
GiveUp(u) ==
    /\ At(u, "llm") \/ At(u, "answer") \/ At(u, "ask")
    /\ Goto(u, <<>>)
    /\ UNCHANGED <<files, copy, agents, refs, chosen, left, history>>

\* What a line typed to the command does, an empty one leaves the question for
\* later; and the form, which stays open on an empty text.  A cancelled form ends
\* the round and what there is is saved, so a round has any number of answers.
LineAnswers == {"answered", "deferred"}
FormAnswers == {"answered", "deferred"}
Rounds(u) ==
    UNION {[1..n -> IF u \in Cli THEN LineAnswers ELSE FormAnswers] : n \in 0..MaxInterview}

\* Each question is pushed with the number it has in the list.
QuestionId(n) == <<"q", n>>
PushAll(m, answers) ==
    [m EXCEPT !.qs = @ \o [i \in DOMAIN answers |->
        [id |-> QuestionId(Len(m.qs) + i), status |-> answers[i]]]]

Interview(u) ==
    /\ At(u, "ask")
    /\ \E answers \in Rounds(u) : copy' = [copy EXCEPT ![u] = PushAll(@, answers)]
    /\ Done(u)
    /\ UNCHANGED <<files, agents, refs, chosen, left, history>>

Edit(u) ==
    /\ At(u, "answer") \/ At(u, "skill") \/ At(u, "llm")
    /\ copy' = [copy EXCEPT ![u] =
                   CASE At(u, "answer") -> SetAnswered(@, chosen[u])
                     [] At(u, "skill") -> [@ EXCEPT !.skill = TRUE]
                     [] OTHER -> @]
    /\ Done(u)
    /\ UNCHANGED <<files, agents, refs, chosen, left, history>>

\* ProjectMeta::save is fs::write: the file is emptied, then filled.
SaveEmpties(u) ==
    /\ At(u, "save")
    /\ yaml' = Torn
    /\ Goto(u, <<"fill">> \o Tail(todo[u]))
    /\ UNCHANGED <<json, docs, copy, agents, refs, chosen, left, history>>

SaveFills(u) ==
    /\ At(u, "fill")
    /\ yaml' = copy[u]
    /\ told' = told \cup Answered(copy[u])
    /\ asked' = asked \cup {id \in Ids(copy[u]) : id[1] = "q"}
    /\ Done(u)
    /\ UNCHANGED <<json, docs, copy, agents, refs, chosen, left, overlap, died, unwritten>>

\* write_requirements: the text, then the JSON in place.
WriteMd(u) ==
    /\ At(u, "md")
    /\ docs' = docs \cup {"md"}
    /\ Done(u)
    /\ UNCHANGED <<yaml, json, copy, agents, refs, chosen, left, history>>

JsonEmpties(u) ==
    /\ At(u, "json")
    /\ json' = Torn
    /\ Goto(u, <<"jsonfill">> \o Tail(todo[u]))
    /\ UNCHANGED <<yaml, docs, copy, agents, refs, chosen, left, history>>

JsonFills(u) ==
    /\ At(u, "jsonfill")
    /\ json' = copy[u] /\ unwritten' = FALSE
    /\ Done(u)
    /\ UNCHANGED <<yaml, docs, copy, agents, refs, chosen, left, asked, told, overlap, died>>

\* AGENTS.md, and tasks.yaml when the planner's graph is valid.
WriteAgents(u) ==
    /\ At(u, "agents")
    /\ \E more \in {{"agents"}, {"agents", "tasks"}} : docs' = docs \cup more
    /\ Done(u)
    /\ UNCHANGED <<yaml, json, copy, agents, refs, chosen, left, history>>

\* What cannot be written ends the command or dialog: an error, except that the
\* dialog of a build goes on without AGENTS.md or tasks.yaml, its last files.
\* What was emptied by then stays empty.
WriteFails(u) ==
    /\ \E step \in {"save", "fill", "md", "json", "jsonfill", "agents"} : At(u, step)
    /\ unwritten' = (unwritten \/ todo[u] \in {<<"json">>, <<"jsonfill">>})
    /\ Goto(u, <<>>)
    /\ UNCHANGED <<files, copy, agents, refs, chosen, left, asked, told, overlap, died>>

\* Mutant: the requirements are left as they are.
ReloadNot(u) ==
    /\ At(u, "reload")
    /\ Done(u)
    /\ UNCHANGED <<files, copy, agents, refs, chosen, left, history>>

\* refresh_requirements_json_clarifications: without a JSON nothing; otherwise
\* the project is loaded again.  What does not load or parse is an error dialog.
Reload(u) ==
    /\ At(u, "reload")
    /\ IF json.st = "ok" /\ yaml.st = "ok"
         THEN Take(u, yaml) /\ Goto(u, <<"json">>)
         ELSE Done(u) /\ UNCHANGED <<copy, overlap>>
    /\ UNCHANGED <<files, agents, refs, chosen, left, asked, told, died, unwritten>>

\* The command ends; a dialog that answered lists the questions again.
End(u) ==
    /\ todo[u] = <<>> /\ copy[u] # Absent
    /\ copy' = [copy EXCEPT ![u] = Absent]
    /\ refs' = IF u \in Cli THEN refs ELSE [refs EXCEPT ![u] = Open(yaml)]
    /\ UNCHANGED <<files, agents, todo, chosen, left, history>>

\* A process dies: its threads stop where they are, and its copies are gone.
Die(u) ==
    /\ died = {} /\ died' = {u}
    /\ todo' = [todo EXCEPT ![u] = <<>>]
    /\ pc' = IF u = Home THEN [a \in Agents |-> "dead"] ELSE pc
    /\ copy' = [p \in Procs |-> IF ProcOf(p) = u THEN Absent ELSE copy[p]]
    /\ UNCHANGED <<files, lock, nanos, refs, chosen, left, asked, told, overlap, unwritten>>

Use(u) ==
    \/ RefreshQuestions(u) \/ Scaffold(u) \/ FindProject(u)
    \/ \E id \in refs[u] : OpenAnswer(u, id)
    \/ GiveUp(u) \/ Interview(u) \/ Edit(u)
    \/ SaveEmpties(u) \/ SaveFills(u) \/ WriteMd(u) \/ JsonEmpties(u)
    \/ JsonFills(u) \/ WriteAgents(u) \/ WriteFails(u) \/ Reload(u) \/ End(u) \/ Die(u)

Next == (\E a \in Agents : Record(a)) \/ (\E u \in Users : Use(u))

Spec == Init /\ [][Next]_vars

-----------------------------------------------------------------------------
(* Properties *)

\* As long as no user holds a copy of the project while somebody else holds one,
\* every question that record_question or an interview has recorded, and every
\* answer that was saved, is in the file: agents that ask at the same time do not
\* lose each other's questions.
NothingIsLost ==
    ~overlap /\ yaml.st = "ok" => asked \subseteq Ids(yaml) /\ told \subseteq Answered(yaml)

\* Once everybody is done, REQUIREMENTS.json says of no answered question that it
\* is open, under the same condition and unless a process died on its way there or a
\* refresh since they were last written could not write.
RequirementsTellAnswers ==
    ~overlap /\ died = {} /\ ~unwritten /\ (\A u \in Users : Idle(u))
        /\ yaml.st = "ok" /\ json.st = "ok" => Ids(json) \cap Answered(yaml) \subseteq Answered(json)

=============================================================================
