------------------------- MODULE ProjectFileProofs -------------------------
(***************************************************************************)
(* What ProjectFile promises of questions, answers and requirements, for   *)
(* any agents, users, commands and lengths of interviews.                  *)
(***************************************************************************)
EXTENDS ProjectFile, SequenceTheorems, TLAPS

Statuses == {"pending", "deferred", "answered"}
Id == {"q", "mq"} \X Nat
Question == [id : Id, status : Statuses]
Meta == [st : {"absent", "torn", "ok"}, qs : Seq(Question), skill : BOOLEAN]

\* What a user may have ahead: in the middle of a command or dialog.
Reads == {<<"llm", "md", "json", "agents", "save">>, <<"md", "json", "agents", "save">>,
          <<"json", "agents", "save">>, <<"jsonfill", "agents", "save">>, <<"agents", "save">>,
          <<"llm", "md", "json", "agents">>, <<"md", "json", "agents">>,
          <<"json", "agents">>, <<"jsonfill", "agents">>, <<"agents">>}
Tells == {<<"reload">>, <<"json">>, <<"jsonfill">>}
Answers == {<<"answer", "save", "reload">>, <<"save", "reload">>, <<"fill", "reload">>}
Edits == {<<"save">>, <<"fill">>, <<"save", "ask", "save">>, <<"fill", "ask", "save">>,
          <<"ask", "save">>, <<"skill", "save">>}
Todos == {<<>>} \cup Reads \cup Tells \cup Answers \cup Edits

TypeOK ==
    /\ yaml \in Meta /\ json \in Meta
    /\ pc \in [Agents -> {"idle", "load", "publish", "done", "refused", "dead"}]
    /\ todo \in [Users -> Todos]
    /\ copy \in [Procs -> Meta]
    /\ lock \in Agents \cup {NULL}
    /\ nanos \in Nat /\ overlap \in BOOLEAN /\ died \subseteq Users /\ unwritten \in BOOLEAN

-----------------------------------------------------------------------------
(* The inductive invariant.                                                *)

\* Who has steps ahead holds a copy of a whole file; an agent holds one only
\* under the lock, between its load and its rename, with its question in it.
Holders ==
    /\ \A p \in Holding : copy[p].st = "ok"
    /\ \A u \in Users : todo[u] # <<>> => u \in Holding
    /\ \A a \in Agents : a \in Holding <=> pc[a] = "publish"
    /\ \A a \in Agents : pc[a] \in {"load", "publish"} => lock = a
    /\ \A a \in Agents : a \in Holding => Len(copy[a].qs) > 0

\* Only answers that were saved are in the file.
Known ==
    /\ yaml.st = "ok" => Answered(yaml) \subseteq told
    /\ \A a \in Agents : a \in Holding => Answered(copy[a]) \subseteq told

\* The questions of interviews are numbered up to n.
Within(m, n) == \A id \in Ids(m) : id[1] = "q" => id[2] <= n
Numbered == Within(yaml, Len(yaml.qs)) /\ \A p \in Procs : Within(copy[p], Len(copy[p].qs))

\* What holds as long as nobody's copies overlap.  There is one copy at most ...
Alone == \A p, h \in Holding : p = h

\* ... and it has everything the file had.
Has(m) == asked \subseteq Ids(m) /\ told \subseteq Answered(m)
Complete ==
    /\ yaml.st = "ok" => Has(yaml)
    /\ yaml.st = "absent" => asked = {} /\ told = {} /\ json.st # "ok"
    /\ \A p \in Holding : Has(copy[p])

\* The requirements have no number that an interview could still give.
Behind ==
    json.st = "ok" =>
        /\ yaml.st = "ok" => Within(json, Len(yaml.qs))
        /\ \A p \in Holding : Within(json, Len(copy[p].qs))

\* Who makes documents has the questions of the file.
Reading ==
    \A u \in Users : todo[u] \in Reads \cup Tells => yaml.st = "ok" /\ copy[u].qs = yaml.qs

\* The requirements tell what was answered, or somebody is about to write them,
\* while no process died and no refresh failed.
Undisturbed == died = {} /\ ~unwritten
Telling ==
    Undisturbed /\ json.st = "ok" =>
        /\ \/ Ids(json) \cap told \subseteq Answered(json)
           \/ \E u \in Users : todo[u] \in Tells
        /\ \A u \in Users : todo[u] \in Reads \cup Edits =>
             Ids(json) \cap Answered(copy[u]) \subseteq Answered(json)

Sole == Alone /\ Complete /\ Behind /\ Reading /\ Telling

Filed == TypeOK /\ Holders /\ Known /\ Numbered /\ (~overlap => Sole)

-----------------------------------------------------------------------------
(* Questions of a project.                                                 *)

\* Ids and Having, one question at a time.
LEMMA Members ==
    ASSUME NEW m \in Meta
    PROVE  /\ \A x : x \in Ids(m) <=> \E i \in 1 .. Len(m.qs) : m.qs[i].id = x
           /\ \A x : x \in Answered(m) <=>
                 \E i \in 1 .. Len(m.qs) : m.qs[i].id = x /\ m.qs[i].status = "answered"
           /\ Answered(m) \subseteq Ids(m)
<1>1. DOMAIN m.qs = 1 .. Len(m.qs)
  BY DEF Meta
<1> QED BY <1>1 DEF Ids, Answered, Having

\* What keeps its questions in place, and their answers, loses none.
LEMMA MembersStay ==
    ASSUME NEW m \in Meta, NEW g \in Meta,
           \A i \in 1 .. Len(m.qs) :
              /\ i \in 1 .. Len(g.qs) /\ g.qs[i].id = m.qs[i].id
              /\ m.qs[i].status = "answered" => g.qs[i].status = "answered"
    PROVE  Ids(m) \subseteq Ids(g) /\ Answered(m) \subseteq Answered(g)
<1>1. ASSUME NEW x \in Ids(m) PROVE x \in Ids(g)
  <2>1. PICK i \in 1 .. Len(m.qs) : m.qs[i].id = x
    BY Members
  <2> QED BY <2>1, Members
<1>2. ASSUME NEW x \in Answered(m) PROVE x \in Answered(g)
  <2>1. PICK i \in 1 .. Len(m.qs) : m.qs[i].id = x /\ m.qs[i].status = "answered"
    BY Members
  <2> QED BY <2>1, Members
<1> QED BY <1>1, <1>2

\* A pushed question is the last.
LEMMA PushAdds ==
    ASSUME NEW m \in Meta, NEW id \in Id, NEW status \in Statuses
    PROVE  /\ Push(m, id, status) \in Meta /\ Push(m, id, status).st = m.st
           /\ Push(m, id, status).qs = Append(m.qs, [id |-> id, status |-> status])
           /\ Len(Push(m, id, status).qs) = Len(m.qs) + 1
           /\ Ids(Push(m, id, status)) = Ids(m) \cup {id}
           /\ status # "answered" => Answered(Push(m, id, status)) = Answered(m)
           /\ Answered(m) \subseteq Answered(Push(m, id, status))
<1> DEFINE q == [id |-> id, status |-> status]
           g == Push(m, id, status)
<1>1. q \in Question /\ q.id = id /\ q.status = status /\ m.qs \in Seq(Question)
  BY DEF Question, Meta
<1>2. g = [m EXCEPT !.qs = Append(m.qs, q)]
  BY DEF Push
<1>3. Append(m.qs, q) \in Seq(Question)
  BY <1>1
<1>4. g \in Meta /\ g.st = m.st /\ g.qs = Append(m.qs, q)
  BY <1>2, <1>3 DEF Meta
<1> HIDE DEF q, g
<1>5. /\ Len(g.qs) = Len(m.qs) + 1 /\ g.qs[Len(m.qs) + 1] = q
      /\ \A i \in 1 .. Len(m.qs) : g.qs[i] = m.qs[i]
  BY <1>1, <1>4
<1>6. Len(m.qs) \in Nat
  BY <1>1
<1>7. Ids(m) \subseteq Ids(g) /\ Answered(m) \subseteq Answered(g)
  <2>1. \A i \in 1 .. Len(m.qs) : i \in 1 .. Len(g.qs)
    BY <1>5, <1>6
  <2> QED BY <1>4, <1>5, <2>1, MembersStay
<1>8. id \in Ids(g)
  <2>1. Len(m.qs) + 1 \in 1 .. Len(g.qs)
    BY <1>5, <1>6
  <2> QED BY <1>1, <1>4, <1>5, <2>1, Members
<1>9. ASSUME NEW x, NEW i \in 1 .. Len(g.qs), g.qs[i].id = x
      PROVE  /\ x = id \/ x \in Ids(m)
             /\ status # "answered" /\ g.qs[i].status = "answered" => x \in Answered(m)
  <2>1. CASE i \in 1 .. Len(m.qs)
    BY <1>5, <1>9, <2>1, Members
  <2>2. CASE i = Len(m.qs) + 1
    BY <1>1, <1>5, <1>9, <2>2
  <2> QED BY <1>5, <1>6, <2>1, <2>2
<1>m. g \in Meta
  BY <1>4
<1>10. ASSUME NEW x \in Ids(g) PROVE x \in Ids(m) \cup {id}
  <2>1. PICK i \in 1 .. Len(g.qs) : g.qs[i].id = x
    BY <1>m, Members
  <2> QED BY <1>9, <2>1
<1>11. ASSUME status # "answered", NEW x \in Answered(g) PROVE x \in Answered(m)
  <2>1. PICK i \in 1 .. Len(g.qs) : g.qs[i].id = x /\ g.qs[i].status = "answered"
    BY <1>m, Members
  <2> QED BY <1>9, <1>11, <2>1
<1> QED BY <1>4, <1>5, <1>7, <1>8, <1>10, <1>11 DEF g, q

\* An interview pushes questions with the numbers that follow.
LEMMA PushAllAdds ==
    ASSUME NEW m \in Meta, NEW u \in Users, NEW answers \in Rounds(u)
    PROVE  LET g == PushAll(m, answers) IN
           /\ g \in Meta /\ g.st = m.st /\ Len(g.qs) >= Len(m.qs)
           /\ Ids(m) \subseteq Ids(g) /\ Answered(m) \subseteq Answered(g)
           /\ \A id \in Ids(g) \ Ids(m) : id[1] = "q" /\ id[2] \in Len(m.qs) + 1 .. Len(g.qs)
           /\ \A id \in Answered(g) \ Answered(m) :
                 id[1] = "q" /\ id[2] \in Len(m.qs) + 1 .. Len(g.qs)
<1> DEFINE g == PushAll(m, answers)
           new == [i \in DOMAIN answers |->
                     [id |-> QuestionId(Len(m.qs) + i), status |-> answers[i]]]
<1>1. PICK n \in Nat : DOMAIN answers = 1 .. n /\ \A i \in 1 .. n : answers[i] \in Statuses
  BY DEF Rounds, LineAnswers, FormAnswers, Statuses
<1>2. m.qs \in Seq(Question) /\ Len(m.qs) \in Nat
  BY DEF Meta
<1>3. \A i \in 1 .. n : new[i] \in Question /\ new[i].id = <<"q", Len(m.qs) + i>>
  BY <1>1, <1>2 DEF Question, Id, QuestionId
<1>4. new \in Seq(Question) /\ Len(new) = n
  BY <1>1, <1>3
<1>5. g = [m EXCEPT !.qs = m.qs \o new]
  BY DEF PushAll
<1> HIDE DEF new, g
<1>6. /\ m.qs \o new \in Seq(Question) /\ Len(m.qs \o new) = Len(m.qs) + n
      /\ \A i \in 1 .. Len(m.qs) + n :
           (m.qs \o new)[i] = IF i <= Len(m.qs) THEN m.qs[i] ELSE new[i - Len(m.qs)]
  BY <1>2, <1>4, ConcatProperties
<1>7. g \in Meta /\ g.st = m.st /\ g.qs = m.qs \o new
  BY <1>5, <1>6 DEF Meta
<1>8. \A i \in 1 .. Len(m.qs) : i \in 1 .. Len(g.qs) /\ g.qs[i] = m.qs[i]
  BY <1>1, <1>2, <1>6, <1>7
<1>9. \A i \in 1 .. Len(g.qs) : i > Len(m.qs) => g.qs[i].id = <<"q", i>>
  <2> TAKE i \in 1 .. Len(g.qs)
  <2> HAVE i > Len(m.qs)
  <2>1. i - Len(m.qs) \in 1 .. n /\ g.qs[i] = new[i - Len(m.qs)] /\ Len(m.qs) + (i - Len(m.qs)) = i
    BY <1>1, <1>2, <1>6, <1>7
  <2> QED BY <2>1, <1>3
<1>10. Ids(m) \subseteq Ids(g) /\ Answered(m) \subseteq Answered(g)
  BY <1>7, <1>8, MembersStay
<1>m. g \in Meta /\ Len(g.qs) \in Nat
  BY <1>7 DEF Meta
<1>n. ASSUME NEW i \in 1 .. Len(g.qs), i \notin 1 .. Len(m.qs)
      PROVE  g.qs[i].id = <<"q", i>> /\ i \in Len(m.qs) + 1 .. Len(g.qs)
  <2>1. i > Len(m.qs)
    BY <1>n, <1>2
  <2> QED BY <2>1, <1>2, <1>m, <1>9
<1>11. ASSUME NEW id \in Ids(g), id \notin Ids(m)
       PROVE  id[1] = "q" /\ id[2] \in Len(m.qs) + 1 .. Len(g.qs)
  <2>1. PICK i \in 1 .. Len(g.qs) : g.qs[i].id = id
    BY <1>m, Members
  <2>2. i \notin 1 .. Len(m.qs)
    BY <1>8, <1>11, <2>1, Members
  <2> QED BY <2>1, <2>2, <1>n
<1>13. ASSUME NEW id \in Answered(g), id \notin Answered(m)
       PROVE  id[1] = "q" /\ id[2] \in Len(m.qs) + 1 .. Len(g.qs)
  <2>1. PICK i \in 1 .. Len(g.qs) : g.qs[i].id = id /\ g.qs[i].status = "answered"
    BY <1>m, Members
  <2>2. i \notin 1 .. Len(m.qs)
    BY <1>8, <1>13, <2>1, Members
  <2> QED BY <2>1, <2>2, <1>n
<1>12. Len(g.qs) >= Len(m.qs)
  BY <1>1, <1>2, <1>6, <1>7
<1> QED BY <1>7, <1>10, <1>11, <1>12, <1>13 DEF g

\* An answer changes no id and takes back no other answer.
LEMMA SetAnsweredKeeps ==
    ASSUME NEW m \in Meta, NEW id
    PROVE  LET g == SetAnswered(m, id) IN
           /\ g \in Meta /\ g.st = m.st /\ Len(g.qs) = Len(m.qs)
           /\ Ids(g) = Ids(m) /\ Answered(m) \subseteq Answered(g)
<1> DEFINE g == SetAnswered(m, id)
           new == [i \in DOMAIN m.qs |->
                     IF m.qs[i].id = id /\ \A j \in 1..(i - 1) : m.qs[j].id # id
                       THEN [m.qs[i] EXCEPT !.status = "answered"] ELSE m.qs[i]]
<1>1. m.qs \in Seq(Question) /\ Len(m.qs) \in Nat /\ DOMAIN m.qs = 1 .. Len(m.qs)
  BY DEF Meta
<1>2. g = [m EXCEPT !.qs = new]
  BY DEF SetAnswered
<1>3. /\ \A i \in 1 .. Len(m.qs) : new[i] \in Question
      /\ \A i \in 1 .. Len(m.qs) : new[i].id = m.qs[i].id
      /\ \A i \in 1 .. Len(m.qs) : m.qs[i].status = "answered" => new[i].status = "answered"
  <2>1. ASSUME NEW i \in 1 .. Len(m.qs)
        PROVE  /\ new[i] \in Question /\ new[i].id = m.qs[i].id
               /\ m.qs[i].status = "answered" => new[i].status = "answered"
    <3>1. m.qs[i] \in Question
      BY <1>1
    <3>2. new[i] = [m.qs[i] EXCEPT !.status = "answered"] \/ new[i] = m.qs[i]
      BY <1>1
    <3> HIDE DEF new
    <3> QED BY <3>1, <3>2 DEF Question, Statuses
  <2> HIDE DEF new
  <2> QED BY <2>1
<1>f. new = [i \in 1 .. Len(m.qs) |-> new[i]]
  BY <1>1
<1> HIDE DEF new, g
<1>4. new \in Seq(Question) /\ Len(new) = Len(m.qs)
  <2>1. new \in [1 .. Len(m.qs) -> Question]
    BY <1>3, <1>f
  <2> QED BY <1>1, <2>1
<1>5. g \in Meta /\ g.st = m.st /\ g.qs = new
  BY <1>2, <1>4 DEF Meta
<1>m. g \in Meta /\ Len(g.qs) = Len(m.qs)
  BY <1>4, <1>5
<1>6. Ids(m) \subseteq Ids(g) /\ Answered(m) \subseteq Answered(g)
  <2>1. \A i \in 1 .. Len(m.qs) :
           /\ i \in 1 .. Len(g.qs) /\ g.qs[i].id = m.qs[i].id
           /\ m.qs[i].status = "answered" => g.qs[i].status = "answered"
    BY <1>m, <1>3, <1>5
  <2> QED BY <1>m, <2>1, MembersStay
<1>7. Ids(g) \subseteq Ids(m)
  <2>1. ASSUME NEW x \in Ids(g) PROVE x \in Ids(m)
    <3>1. PICK i \in 1 .. Len(g.qs) : g.qs[i].id = x
      BY <1>m, Members
    <3>2. i \in 1 .. Len(m.qs) /\ m.qs[i].id = x
      BY <1>m, <1>3, <1>5, <3>1
    <3> QED BY <3>2, Members
  <2> QED BY <2>1
<1> QED BY <1>m, <1>5, <1>6, <1>7 DEF g

\* A project without questions has none that are asked or answered.
LEMMA NoQuestions ==
    /\ Absent \in Meta /\ Torn \in Meta /\ Blank \in Meta
    /\ Absent.st = "absent" /\ Torn.st = "torn" /\ Blank.st = "ok"
    /\ Absent.qs = <<>> /\ Torn.qs = <<>> /\ Blank.qs = <<>>
    /\ Ids(Absent) = {} /\ Ids(Torn) = {} /\ Ids(Blank) = {} /\ Answered(Blank) = {}
<1>1. <<>> \in Seq(Question) /\ DOMAIN <<>> = {}
  OBVIOUS
<1>2. Absent \in Meta /\ Absent.st = "absent" /\ Absent.qs = <<>>
  BY <1>1 DEF Absent, Meta
<1>3. /\ Torn \in Meta /\ Torn.st = "torn" /\ Torn.qs = <<>>
      /\ Blank \in Meta /\ Blank.st = "ok" /\ Blank.qs = <<>>
  BY <1>2 DEF Torn, Blank, Meta
<1>4. ASSUME NEW m, m.qs = <<>> PROVE Ids(m) = {} /\ Answered(m) = {}
  BY <1>1, <1>4 DEF Ids, Answered, Having
<1> QED BY <1>2, <1>3, <1>4

-----------------------------------------------------------------------------
(* The steps that users have ahead.                                        *)

LEMMA KindsOfSteps ==
    /\ Reads \cap Tells = {} /\ Reads \cap Answers = {} /\ Reads \cap Edits = {}
    /\ Tells \cap Answers = {} /\ Tells \cap Edits = {} /\ Answers \cap Edits = {}
    /\ <<>> \notin Reads \cup Tells \cup Answers \cup Edits
BY DEF Reads, Tells, Answers, Edits

\* How each command and dialog begins.
LEMMA Begins ==
    /\ NewCommand \subseteq Edits /\ NewDialog \subseteq Edits
    /\ InterviewCommand \subseteq Edits /\ InterviewDialog \subseteq Edits
    /\ BuildCommand \subseteq Reads /\ BuildDialog \subseteq Reads
    /\ \A m : SkillsCommand(m) \subseteq Edits \cup {<<>>}
    /\ AnswerDialog \subseteq Answers /\ <<"json">> \in Tells
BY DEF NewCommand, NewDialog, InterviewCommand, InterviewDialog, BuildCommand, BuildDialog,
       SkillsCommand, AnswerDialog, Reads, Tells, Answers, Edits

LEMMA Tuples ==
    /\ \A a : Head(<<a>>) = a /\ Tail(<<a>>) = <<>>
    /\ \A a, b : Head(<<a, b>>) = a /\ Tail(<<a, b>>) = <<b>> /\ <<a>> \o <<b>> = <<a, b>>
    /\ \A a, b, c : /\ Head(<<a, b, c>>) = a /\ Tail(<<a, b, c>>) = <<b, c>>
                    /\ <<a>> \o <<b, c>> = <<a, b, c>>
    /\ \A a, b, c, d : Head(<<a, b, c, d>>) = a /\ Tail(<<a, b, c, d>>) = <<b, c, d>>
    /\ \A a, b, c, d, e :
         Head(<<a, b, c, d, e>>) = a /\ Tail(<<a, b, c, d, e>>) = <<b, c, d, e>>
    /\ \A a : <<a>> \o <<>> = <<a>>
<1>1. \A a : Head(<<a>>) = a /\ Tail(<<a>>) = <<>>
  OBVIOUS
<1>2. \A a, b : Head(<<a, b>>) = a /\ Tail(<<a, b>>) = <<b>>
  OBVIOUS
<1>3. \A a, b, c : Head(<<a, b, c>>) = a /\ Tail(<<a, b, c>>) = <<b, c>>
  OBVIOUS
<1>4. \A a, b, c, d : Head(<<a, b, c, d>>) = a /\ Tail(<<a, b, c, d>>) = <<b, c, d>>
  OBVIOUS
<1>5. \A a, b, c, d, e : Head(<<a, b, c, d, e>>) = a /\ Tail(<<a, b, c, d, e>>) = <<b, c, d, e>>
  OBVIOUS
<1>6. ASSUME NEW a, NEW b PROVE <<a>> \o <<b>> = <<a, b>>
  <2>1. <<a>> \in Seq({a, b}) /\ <<b>> \in Seq({a, b}) /\ <<a, b>> \in Seq({a, b})
    OBVIOUS
  <2>2. /\ <<a>> \o <<b>> \in Seq({a, b}) /\ Len(<<a>> \o <<b>>) = 2
        /\ \A i \in 1 .. 2 : (<<a>> \o <<b>>)[i] = IF i <= 1 THEN <<a>>[i] ELSE <<b>>[i - 1]
    BY <2>1, ConcatProperties
  <2>3. Len(<<a, b>>) = 2 /\ \A i \in 1 .. 2 : (<<a>> \o <<b>>)[i] = <<a, b>>[i]
    BY <2>2
  <2> QED BY <2>1, <2>2, <2>3, SeqEqual
<1>7. ASSUME NEW a, NEW b, NEW c PROVE <<a>> \o <<b, c>> = <<a, b, c>>
  <2>1. <<a>> \in Seq({a, b, c}) /\ <<b, c>> \in Seq({a, b, c}) /\ <<a, b, c>> \in Seq({a, b, c})
    OBVIOUS
  <2>2. /\ <<a>> \o <<b, c>> \in Seq({a, b, c}) /\ Len(<<a>> \o <<b, c>>) = 3
        /\ \A i \in 1 .. 3 : (<<a>> \o <<b, c>>)[i] = IF i <= 1 THEN <<a>>[i] ELSE <<b, c>>[i - 1]
    BY <2>1, ConcatProperties
  <2>3. Len(<<a, b, c>>) = 3 /\ \A i \in 1 .. 3 : (<<a>> \o <<b, c>>)[i] = <<a, b, c>>[i]
    BY <2>2
  <2> QED BY <2>1, <2>2, <2>3, SeqEqual
<1>8. \A a : <<a>> \o <<>> = <<a>>
  OBVIOUS
<1> QED BY <1>1, <1>2, <1>3, <1>4, <1>5, <1>6, <1>7, <1>8

\* And how each goes on: nobody saves while reading, and who answers tells.
LEMMA Stages ==
    ASSUME NEW t \in Todos, t # <<>>
    PROVE  /\ Head(t) \in {"ask", "skill"} => t \in Edits /\ Tail(t) \in Edits
           /\ Head(t) = "answer" => t \in Answers /\ Tail(t) \in Answers
           /\ Head(t) \in {"llm", "md"} => t \in Reads /\ Tail(t) \in Reads
           /\ Head(t) = "agents" => t \in Reads /\ Tail(t) \in Edits \cup {<<>>}
           /\ Head(t) = "reload" => t \in Tells /\ Tail(t) = <<>>
           /\ Head(t) = "save" => \/ t \in Edits /\ <<"fill">> \o Tail(t) \in Edits
                                  \/ t \in Answers /\ <<"fill">> \o Tail(t) \in Answers
           /\ Head(t) = "fill" => \/ t \in Edits /\ Tail(t) \in Edits \cup {<<>>}
                                  \/ t \in Answers /\ Tail(t) \in Tells
           /\ Head(t) = "json" => \/ t \in Reads /\ <<"jsonfill">> \o Tail(t) \in Reads
                                  \/ t \in Tells /\ <<"jsonfill">> \o Tail(t) \in Tells
           /\ Head(t) = "jsonfill" => \/ t \in Reads /\ Tail(t) \in Reads
                                      \/ t \in Tells /\ Tail(t) = <<>>
<1>1. CASE t \in Reads
  <2>1. CASE t = <<"llm", "md", "json", "agents", "save">>
    BY <2>1, Tuples DEF Reads, Edits
  <2>2. CASE t = <<"md", "json", "agents", "save">>
    BY <2>2, Tuples DEF Reads, Edits
  <2>3. CASE t = <<"json", "agents", "save">>
    BY <2>3, Tuples DEF Reads, Edits
  <2>4. CASE t = <<"jsonfill", "agents", "save">>
    BY <2>4, Tuples DEF Reads, Edits
  <2>5. CASE t = <<"agents", "save">>
    BY <2>5, Tuples DEF Reads, Edits
  <2>6. CASE t = <<"llm", "md", "json", "agents">>
    BY <2>6, Tuples DEF Reads, Edits
  <2>7. CASE t = <<"md", "json", "agents">>
    BY <2>7, Tuples DEF Reads, Edits
  <2>8. CASE t = <<"json", "agents">>
    BY <2>8, Tuples DEF Reads, Edits
  <2>9. CASE t = <<"jsonfill", "agents">>
    BY <2>9, Tuples DEF Reads, Edits
  <2>10. CASE t = <<"agents">>
    BY <2>10, Tuples DEF Reads, Edits
  <2> QED BY <1>1, <2>1, <2>2, <2>3, <2>4, <2>5, <2>6, <2>7, <2>8, <2>9, <2>10 DEF Reads
<1>2. CASE t \in Tells
  <2>1. CASE t = <<"reload">>
    BY <2>1, Tuples DEF Tells
  <2>2. CASE t = <<"json">>
    BY <2>2, Tuples DEF Tells
  <2>3. CASE t = <<"jsonfill">>
    BY <2>3, Tuples DEF Tells
  <2> QED BY <1>2, <2>1, <2>2, <2>3 DEF Tells
<1>3. CASE t \in Answers
  <2>1. CASE t = <<"answer", "save", "reload">>
    BY <2>1, Tuples DEF Answers, Tells
  <2>2. CASE t = <<"save", "reload">>
    BY <2>2, Tuples DEF Answers, Tells
  <2>3. CASE t = <<"fill", "reload">>
    BY <2>3, Tuples DEF Answers, Tells
  <2> QED BY <1>3, <2>1, <2>2, <2>3 DEF Answers
<1>4. CASE t \in Edits
  <2>1. CASE t = <<"save">>
    BY <2>1, Tuples DEF Edits
  <2>2. CASE t = <<"fill">>
    BY <2>2, Tuples DEF Edits
  <2>3. CASE t = <<"save", "ask", "save">>
    BY <2>3, Tuples DEF Edits
  <2>4. CASE t = <<"fill", "ask", "save">>
    BY <2>4, Tuples DEF Edits
  <2>5. CASE t = <<"ask", "save">>
    BY <2>5, Tuples DEF Edits
  <2>6. CASE t = <<"skill", "save">>
    BY <2>6, Tuples DEF Edits
  <2> QED BY <1>4, <2>1, <2>2, <2>3, <2>4, <2>5, <2>6 DEF Edits
<1> QED BY <1>1, <1>2, <1>3, <1>4 DEF Todos

-----------------------------------------------------------------------------
(* What the actions do, for whoever does not need to know how.             *)

\* A copy is taken: without overlap, there was no other.
LEMMA TakeHolds ==
    ASSUME TypeOK, NEW p \in Procs, NEW m \in Meta, m.st = "ok", Take(p, m)
    PROVE  /\ copy' \in [Procs -> Meta] /\ copy'[p] = m
           /\ \A h \in Procs : h # p => copy'[h] = copy[h]
           /\ Holding' = Holding \cup {p}
           /\ overlap' \in BOOLEAN /\ (~overlap' => ~overlap)
           /\ ~overlap' => \A h \in Holding : h = p \/ {p, h} \cap Users = {}
<1>1. copy \in [Procs -> Meta] /\ copy' = [copy EXCEPT ![p] = m] /\ overlap \in BOOLEAN
  BY DEF TypeOK, Take
<1>2. m # Absent
  BY NoQuestions
<1>3. Holding' = Holding \cup {p}
  BY <1>1, <1>2 DEF Holding
<1>4. overlap' = (overlap \/ \E h \in Holding \ {p} : {p, h} \cap Users # {})
  BY DEF Take
<1> QED BY <1>1, <1>3, <1>4

\* The steps ahead of a user change, and nobody else's.
LEMMA AheadStays ==
    ASSUME TypeOK, NEW u \in Users, NEW t \in Todos, todo' = [todo EXCEPT ![u] = t]
    PROVE  /\ todo' \in [Users -> Todos] /\ todo'[u] = t
           /\ \A v \in Users : v # u => todo'[v] = todo[v]
BY DEF TypeOK

\* An interview or an edit of the copy a user holds: it forgets nothing, and only
\* the dialog for it answers questions that were there.
LEMMA EditGrows ==
    ASSUME TypeOK, Holders, NEW u \in Users, Interview(u) \/ Edit(u)
    PROVE  /\ u \in Holding /\ copy' \in [Procs -> Meta]
           /\ \A p \in Procs : p # u => copy'[p] = copy[p]
           /\ copy'[u].st = copy[u].st /\ Len(copy'[u].qs) >= Len(copy[u].qs)
           /\ Ids(copy[u]) \subseteq Ids(copy'[u]) /\ Answered(copy[u]) \subseteq Answered(copy'[u])
           /\ \A id \in Ids(copy'[u]) \ Ids(copy[u]) :
                id[1] = "q" /\ id[2] \in Len(copy[u].qs) + 1 .. Len(copy'[u].qs)
           /\ todo[u] \notin Answers => \A id \in Answered(copy'[u]) \ Answered(copy[u]) :
                id[1] = "q" /\ id[2] \in Len(copy[u].qs) + 1 .. Len(copy'[u].qs)
           /\ todo[u] \in Reads => copy'[u].qs = copy[u].qs
           /\ todo[u] \notin Tells
<1>1. u \in Procs /\ copy \in [Procs -> Meta] /\ copy[u] \in Meta /\ todo[u] \in Todos
  BY DEF TypeOK, Procs
<1>2. todo[u] # <<>> /\ Head(todo[u]) \in {"ask", "answer", "skill", "llm"}
  BY DEF Interview, Edit, At
<1>3. u \in Holding
  BY <1>2 DEF Holders
<1>4. todo[u] \in Edits \cup Answers \cup Reads /\ todo[u] \notin Tells
  BY <1>1, <1>2, Stages, KindsOfSteps
<1>5. CASE Interview(u)
  <2>1. PICK answers \in Rounds(u) : copy' = [copy EXCEPT ![u] = PushAll(copy[u], answers)]
    BY <1>1, <1>5 DEF Interview
  <2>2. todo[u] \in Edits
    BY <1>1, <1>5, Stages DEF Interview, At
  <2> DEFINE g == PushAll(copy[u], answers)
  <2>3. /\ g \in Meta /\ g.st = copy[u].st /\ Len(g.qs) >= Len(copy[u].qs)
        /\ Ids(copy[u]) \subseteq Ids(g) /\ Answered(copy[u]) \subseteq Answered(g)
        /\ \A id \in Ids(g) \ Ids(copy[u]) : id[1] = "q" /\ id[2] \in Len(copy[u].qs) + 1 .. Len(g.qs)
        /\ \A id \in Answered(g) \ Answered(copy[u]) :
              id[1] = "q" /\ id[2] \in Len(copy[u].qs) + 1 .. Len(g.qs)
    BY <1>1, PushAllAdds
  <2> HIDE DEF g
  <2>4. copy' = [copy EXCEPT ![u] = g]
    BY <2>1 DEF g
  <2>5. copy'[u] = g /\ copy' \in [Procs -> Meta] /\ \A p \in Procs : p # u => copy'[p] = copy[p]
    BY <1>1, <2>3, <2>4
  <2> QED BY <1>3, <1>4, <2>2, <2>3, <2>5, KindsOfSteps
<1>6. CASE Edit(u) /\ At(u, "answer")
  <2> DEFINE g == SetAnswered(copy[u], chosen[u])
  <2>1. copy' = [copy EXCEPT ![u] = g]
    BY <1>1, <1>6 DEF Edit, At
  <2>2. /\ g \in Meta /\ g.st = copy[u].st /\ Len(g.qs) = Len(copy[u].qs) /\ Len(g.qs) \in Nat
        /\ Ids(g) = Ids(copy[u]) /\ Answered(copy[u]) \subseteq Answered(g)
    BY <1>1, SetAnsweredKeeps DEF Meta
  <2>3. todo[u] \in Answers
    BY <1>1, <1>6, Stages DEF At
  <2> HIDE DEF g
  <2>4. copy'[u] = g /\ copy' \in [Procs -> Meta] /\ \A p \in Procs : p # u => copy'[p] = copy[p]
    BY <1>1, <2>1, <2>2
  <2> QED BY <1>3, <1>4, <2>2, <2>3, <2>4, KindsOfSteps
<1>7. CASE Edit(u) /\ ~At(u, "answer")
  <2>1. PICK g \in Meta : copy' = [copy EXCEPT ![u] = g] /\ g.st = copy[u].st /\ g.qs = copy[u].qs
    <3>1. CASE copy' = [copy EXCEPT ![u] = [copy[u] EXCEPT !.skill = TRUE]]
      <4> DEFINE g == [copy[u] EXCEPT !.skill = TRUE]
      <4>1. g \in Meta /\ g.st = copy[u].st /\ g.qs = copy[u].qs
        BY <1>1 DEF Meta
      <4> QED BY <3>1, <4>1
    <3>2. CASE copy' = [copy EXCEPT ![u] = copy[u]]
      BY <1>1, <3>2
    <3> QED BY <1>1, <1>7, <3>1, <3>2 DEF Edit, At
  <2>2. copy'[u] = g /\ copy' \in [Procs -> Meta] /\ \A p \in Procs : p # u => copy'[p] = copy[p]
    BY <1>1, <2>1
  <2>3. Ids(g) = Ids(copy[u]) /\ Answered(g) = Answered(copy[u]) /\ Len(g.qs) \in Nat
    BY <2>1 DEF Ids, Answered, Having, Meta
  <2> QED BY <1>3, <1>4, <2>1, <2>2, <2>3
<1> QED BY <1>5, <1>6, <1>7

-----------------------------------------------------------------------------
(* The steps of the invariant.                                             *)

LEMMA InitFiled == Init => Filed
<1> SUFFICES ASSUME Init PROVE Filed
  OBVIOUS
<1> DEFINE one == Push(Blank, <<"q", 1>>, "deferred")
<1>1. /\ one \in Meta /\ one.st = "ok" /\ Len(one.qs) = 1
      /\ Ids(one) = {<<"q", 1>>} /\ Answered(one) = {}
  <2>1. <<"q", 1>> \in Id /\ "deferred" \in Statuses
    BY DEF Id, Statuses
  <2>2. Blank \in Meta /\ Blank.st = "ok" /\ Blank.qs = <<>> /\ Ids(Blank) = {} /\ Answered(Blank) = {}
    BY NoQuestions
  <2>3. Len(Blank.qs) = 0
    BY <2>2
  <2>4. /\ one \in Meta /\ one.st = Blank.st /\ Len(one.qs) = Len(Blank.qs) + 1
        /\ Ids(one) = Ids(Blank) \cup {<<"q", 1>>}
        /\ "deferred" # "answered" => Answered(one) = Answered(Blank)
    BY <2>1, <2>2, PushAdds
  <2> HIDE DEF one
  <2> QED BY <2>2, <2>3, <2>4
<1> USE DEF Init
<1> HIDE DEF one
<1>2. yaml \in {Absent, one} /\ json = Absent
  BY DEF one
<1>3. yaml \in Meta /\ json \in Meta /\ json.st = "absent"
  BY <1>1, <1>2, NoQuestions
<1>4. TypeOK
  BY <1>3, NoQuestions DEF TypeOK, Todos
<1>5. Holding = {}
  BY DEF Holding
<1>6. Holders /\ Alone
  BY <1>5 DEF Holders, Alone
<1>7. Complete /\ Known
  <2>1. yaml.st = "ok" => Answered(yaml) = {}
    BY <1>1, <1>2, NoQuestions
  <2> QED BY <1>3, <1>5, <2>1 DEF Complete, Known, Has
<1>8. Numbered
  <2>1. Within(one, Len(one.qs))
    BY <1>1 DEF Within
  <2>2. Within(Absent, Len(Absent.qs))
    BY NoQuestions DEF Within
  <2> QED BY <1>2, <2>1, <2>2 DEF Numbered
<1>9. Behind /\ Reading /\ Telling
  BY <1>3, KindsOfSteps DEF Behind, Reading, Telling
<1> QED BY <1>4, <1>6, <1>7, <1>8, <1>9 DEF Filed, Sole

LEMMA TypeStep == Filed /\ [Next]_vars => TypeOK'
<1> SUFFICES ASSUME Filed, [Next]_vars PROVE TypeOK'
  OBVIOUS
<1>0. TypeOK /\ Holders
  BY DEF Filed
<1> USE DEF TypeOK, files, history, agents, dialogs
<1>1. ASSUME NEW a \in Agents, Record(a) PROVE TypeOK'
  <2>1. CASE LockQuestions(a) \/ LoadFails(a)
    BY <1>0, <2>1 DEF LockQuestions, LoadFails
  <2>2. CASE LoadAndPush(a)
    <3> DEFINE g == Push(yaml, <<"mq", nanos>>, "pending")
    <3>1. g \in Meta /\ g.st = "ok" /\ a \in Procs /\ Take(a, g)
      <4>1. <<"mq", nanos>> \in Id /\ "pending" \in Statuses
        BY <1>0 DEF Id, Statuses
      <4> QED BY <1>0, <2>2, <4>1, PushAdds DEF LoadAndPush, Procs
    <3> HIDE DEF g
    <3>2. copy' \in [Procs -> Meta] /\ overlap' \in BOOLEAN
      BY <1>0, <3>1, TakeHolds
    <3> QED BY <1>0, <2>2, <3>2 DEF LoadAndPush
  <2>3. CASE Publish(a)
    <3>1. yaml' \in Meta /\ copy' \in [Procs -> Meta]
      BY <1>0, <2>3, NoQuestions DEF Publish, Procs
    <3> QED BY <1>0, <2>3, <3>1 DEF Publish
  <2>4. CASE PublishFails(a)
    <3>1. copy' \in [Procs -> Meta]
      BY <1>0, <2>4, NoQuestions DEF PublishFails, Procs
    <3> QED BY <1>0, <2>4, <3>1 DEF PublishFails
  <2> QED BY <1>1, <2>1, <2>2, <2>3, <2>4 DEF Record
<1>2. ASSUME NEW u \in Users, Use(u) PROVE TypeOK'
  <2>0. u \in Procs /\ todo[u] \in Todos /\ copy[u] \in Meta
    BY <1>0 DEF Procs
  <2>1. CASE RefreshQuestions(u)
    BY <1>0, <2>1 DEF RefreshQuestions
  <2>2. ASSUME NEW m \in Meta, m.st = "ok", Take(u, m), NEW t \in Todos, Goto(u, t), Begin(u)
        PROVE  TypeOK'
    <3>1. copy' \in [Procs -> Meta] /\ overlap' \in BOOLEAN
      BY <1>0, <2>0, <2>2, TakeHolds
    <3>2. todo' \in [Users -> Todos]
      BY <1>0, <2>2, AheadStays DEF Goto
    <3> QED BY <1>0, <2>2, <3>1, <3>2 DEF Begin
  <2>3. CASE Scaffold(u)
    BY <2>2, <2>3, Begins, NoQuestions DEF Scaffold, Todos
  <2>4. CASE FindProject(u)
    BY <1>0, <2>2, <2>4, Begins DEF FindProject, Commands, Dialogs, Todos
  <2>5. ASSUME NEW id, OpenAnswer(u, id) PROVE TypeOK'
    BY <1>0, <2>2, <2>5, Begins DEF OpenAnswer, Todos
  <2>6. ASSUME NEW t \in Todos, Goto(u, t), UNCHANGED <<pc, lock, nanos, overlap, died>>,
               unwritten' \in BOOLEAN, yaml' \in Meta, json' \in Meta, copy' \in [Procs -> Meta]
        PROVE  TypeOK'
    <3>1. todo' \in [Users -> Todos]
      BY <1>0, <2>6, AheadStays DEF Goto
    <3> QED BY <1>0, <2>6, <3>1
  <2>7. CASE GiveUp(u)
    BY <1>0, <2>6, <2>7 DEF GiveUp, Todos
  <2>8. CASE Interview(u) \/ Edit(u)
    <3>1. copy' \in [Procs -> Meta]
      BY <1>0, <2>8, EditGrows
    <3>2. Tail(todo[u]) \in Todos /\ Goto(u, Tail(todo[u]))
      BY <2>0, <2>8, Stages DEF Interview, Edit, At, Done, Todos
    <3> QED BY <1>0, <2>6, <2>8, <3>1, <3>2 DEF Interview, Edit
  <2>9. CASE SaveEmpties(u)
    <3>1. <<"fill">> \o Tail(todo[u]) \in Todos
      BY <2>0, <2>9, Stages DEF SaveEmpties, At, Todos
    <3> QED BY <1>0, <2>6, <2>9, <3>1, NoQuestions DEF SaveEmpties
  <2>10. CASE SaveFills(u)
    <3>1. Tail(todo[u]) \in Todos
      BY <2>0, <2>10, Stages DEF SaveFills, At, Todos
    <3> QED BY <1>0, <2>0, <2>6, <2>10, <3>1 DEF SaveFills, Done
  <2>11. CASE WriteMd(u) \/ WriteAgents(u)
    <3>1. Tail(todo[u]) \in Todos
      BY <2>0, <2>11, Stages DEF WriteMd, WriteAgents, At, Todos
    <3> QED BY <1>0, <2>6, <2>11, <3>1 DEF WriteMd, WriteAgents, Done
  <2>12. CASE JsonEmpties(u)
    <3>1. <<"jsonfill">> \o Tail(todo[u]) \in Todos
      BY <2>0, <2>12, Stages DEF JsonEmpties, At, Todos
    <3> QED BY <1>0, <2>6, <2>12, <3>1, NoQuestions DEF JsonEmpties
  <2>13. CASE JsonFills(u)
    <3>1. Tail(todo[u]) \in Todos
      BY <2>0, <2>13, Stages DEF JsonFills, At, Todos
    <3> QED BY <1>0, <2>0, <2>6, <2>13, <3>1 DEF JsonFills, Done
  <2>14. CASE Reload(u)
    <3>1. CASE yaml.st = "ok" /\ Take(u, yaml) /\ Goto(u, <<"json">>)
      <4>1. copy' \in [Procs -> Meta] /\ overlap' \in BOOLEAN
        BY <1>0, <2>0, <3>1, TakeHolds
      <4>2. todo' \in [Users -> Todos]
        BY <1>0, <3>1, AheadStays, Begins DEF Goto, Todos
      <4> QED BY <1>0, <2>14, <4>1, <4>2 DEF Reload
    <3>2. CASE Done(u) /\ UNCHANGED <<copy, overlap>>
      <4>1. Tail(todo[u]) \in Todos
        BY <2>0, <2>14, Stages DEF Reload, At, Todos
      <4> QED BY <1>0, <2>6, <2>14, <3>2, <4>1 DEF Reload, Done
    <3> QED BY <2>14, <3>1, <3>2 DEF Reload
  <2>17. CASE WriteFails(u)
    BY <1>0, <2>6, <2>17 DEF WriteFails, Todos
  <2>15. CASE End(u)
    BY <1>0, <2>0, <2>15, NoQuestions DEF End
  <2>16. CASE Die(u)
    <3>1. copy' \in [Procs -> Meta]
      BY <1>0, <2>16, NoQuestions DEF Die
    <3>2. todo' \in [Users -> Todos]
      BY <1>0, <2>16 DEF Die, Todos
    <3> QED BY <1>0, <2>16, <3>1, <3>2 DEF Die
  <2> QED BY <1>2, <2>1, <2>3, <2>4, <2>5, <2>7, <2>8, <2>9, <2>10, <2>11, <2>12, <2>13,
             <2>14, <2>15, <2>16, <2>17 DEF Use
<1>3. CASE UNCHANGED vars
  BY <1>0, <1>3 DEF vars
<1> QED BY <1>1, <1>2, <1>3 DEF Next

\* What a user does to copies, as far as Holders is concerned.
LEMMA UserHolds ==
    ASSUME TypeOK, Holders, NEW u \in Users, Use(u), ~Die(u)
    PROVE  /\ Holding' \ {u} = Holding \ {u} /\ \A h \in Procs : h # u => copy'[h] = copy[h]
           /\ u \in Holding' => copy'[u].st = "ok"
           /\ \A v \in Users : v # u => todo'[v] = todo[v]
           /\ todo'[u] # <<>> => u \in Holding'
<1>0. u \in Procs /\ copy \in [Procs -> Meta] /\ yaml \in Meta /\ todo \in [Users -> Todos]
  BY DEF TypeOK, Procs
<1>1. ASSUME NEW m \in Meta, m.st = "ok", Take(u, m)
      PROVE  /\ Holding' \ {u} = Holding \ {u} /\ \A h \in Procs : h # u => copy'[h] = copy[h]
             /\ copy'[u].st = "ok" /\ u \in Holding'
  <2>1. /\ Holding' = Holding \cup {u} /\ copy'[u] = m
        /\ \A h \in Procs : h # u => copy'[h] = copy[h]
    BY <1>0, <1>1, TakeHolds
  <2> QED BY <1>1, <2>1
<1>2. CASE Scaffold(u) \/ FindProject(u) \/ \E id \in refs[u] : OpenAnswer(u, id)
  <2>1. PICK m \in Meta : m.st = "ok" /\ Take(u, m)
    BY <1>0, <1>2, NoQuestions DEF Scaffold, FindProject, OpenAnswer
  <2>2. \A v \in Users : v # u => todo'[v] = todo[v]
    BY <1>0, <1>2 DEF Scaffold, FindProject, OpenAnswer, Goto
  <2> QED BY <1>1, <2>1, <2>2
<1>3. CASE Interview(u) \/ Edit(u)
  <2>1. /\ u \in Holding /\ copy' \in [Procs -> Meta] /\ copy'[u].st = copy[u].st
        /\ \A h \in Procs : h # u => copy'[h] = copy[h]
    BY <1>3, EditGrows
  <2>2. copy'[u].st = "ok"
    BY <2>1 DEF Holders
  <2>3. Holding' = Holding
    BY <2>1, <2>2, NoQuestions DEF Holding
  <2>4. \A v \in Users : v # u => todo'[v] = todo[v]
    BY <1>0, <1>3 DEF Interview, Edit, Done, Goto
  <2> QED BY <2>1, <2>2, <2>3, <2>4
<1>4. CASE End(u)
  <2>1. todo' = todo /\ todo[u] = <<>> /\ copy' = [copy EXCEPT ![u] = Absent]
    BY <1>4 DEF End
  <2>2. /\ Holding' = Holding \ {u} /\ \A h \in Procs : h # u => copy'[h] = copy[h]
    BY <1>0, <2>1 DEF Holding
  <2> QED BY <2>1, <2>2
<1>5. ASSUME copy' = copy, NEW t, todo' = [todo EXCEPT ![u] = t], todo[u] # <<>>
      PROVE  /\ Holding' = Holding /\ u \in Holding
             /\ \A v \in Users : v # u => todo'[v] = todo[v]
  BY <1>0, <1>5 DEF Holding, Holders
<1>6. CASE GiveUp(u) \/ SaveEmpties(u) \/ SaveFills(u) \/ WriteMd(u) \/ JsonEmpties(u)
           \/ JsonFills(u) \/ WriteAgents(u) \/ WriteFails(u)
  <2>1. /\ copy' = copy /\ todo[u] # <<>> /\ \E t : todo' = [todo EXCEPT ![u] = t]
    BY <1>6 DEF GiveUp, SaveEmpties, SaveFills, WriteMd, JsonEmpties, JsonFills, WriteAgents,
                WriteFails, At, Done, Goto
  <2> QED BY <1>5, <2>1 DEF Holders
<1>7. CASE Reload(u)
  <2>1. todo[u] # <<>> /\ \E t : todo' = [todo EXCEPT ![u] = t]
    BY <1>7 DEF Reload, At, Done, Goto
  <2>2. (yaml.st = "ok" /\ Take(u, yaml)) \/ copy' = copy
    BY <1>7 DEF Reload
  <2>3. \A v \in Users : v # u => todo'[v] = todo[v]
    BY <1>0, <2>1
  <2> QED BY <1>0, <1>1, <1>5, <2>1, <2>2, <2>3 DEF Holders
<1>8. CASE RefreshQuestions(u)
  <2>1. todo' = todo /\ copy' = copy
    BY <1>8 DEF RefreshQuestions
  <2> QED BY <2>1 DEF Holding, Holders
<1> QED BY <1>2, <1>3, <1>4, <1>6, <1>7, <1>8 DEF Use

LEMMA HoldersStep == Filed /\ [Next]_vars => Holders'
<1> SUFFICES ASSUME Filed, [Next]_vars PROVE Holders'
  OBVIOUS
<1>0. /\ TypeOK /\ Holders /\ Agents \cap Users = {} /\ NULL \notin Agents /\ Holding \subseteq Procs
      /\ Agents \subseteq Procs /\ Users \subseteq Procs /\ copy \in [Procs -> Meta] /\ yaml \in Meta
  BY ProjectOK DEF Filed, Holding, Procs, TypeOK
<1>2. ASSUME NEW a \in Agents, Record(a) PROVE Holders'
  <2>1. todo' = todo
    BY <1>2 DEF Record, LockQuestions, LoadFails, LoadAndPush, Publish, PublishFails, dialogs
  <2>2. ASSUME NEW g \in Meta, g.st = "ok", Len(g.qs) > 0, Take(a, g), pc[a] = "load",
               pc' = [pc EXCEPT ![a] = "publish"], lock' = lock
        PROVE  Holders'
    <3>1. Holding' = Holding \cup {a} /\ copy'[a] = g /\ \A h \in Procs : h # a => copy'[h] = copy[h]
      BY <1>0, <2>2, TakeHolds
    <3> QED BY <1>0, <2>1, <2>2, <3>1 DEF Holders, TypeOK
  <2>3. CASE LoadAndPush(a)
    <3>1. <<"mq", nanos>> \in Id /\ "pending" \in Statuses
      BY <1>0 DEF TypeOK, Id, Statuses
    <3> DEFINE g == Push(yaml, <<"mq", nanos>>, "pending")
    <3>2. g \in Meta /\ g.st = yaml.st /\ Len(g.qs) = Len(yaml.qs) + 1
      BY <1>0, <3>1, PushAdds
    <3> HIDE DEF g
    <3>3. Len(yaml.qs) \in Nat
      BY <1>0 DEF Meta
    <3>4. Len(g.qs) > 0
      BY <3>2, <3>3
    <3>5. /\ Take(a, g) /\ pc[a] = "load" /\ yaml.st = "ok"
          /\ pc' = [pc EXCEPT ![a] = "publish"] /\ lock' = lock
      BY <2>3 DEF LoadAndPush, g
    <3> QED BY <2>2, <3>2, <3>4, <3>5
  <2>4. CASE Publish(a) \/ PublishFails(a)
    <3>1. Holding' = Holding \ {a} /\ \A h \in Procs : h # a => copy'[h] = copy[h]
      BY <1>0, <2>4 DEF Publish, PublishFails, Holding
    <3> QED BY <1>0, <2>1, <2>4, <3>1 DEF Holders, Publish, PublishFails, TypeOK
  <2>5. CASE LockQuestions(a) \/ LoadFails(a)
    <3>1. Holding' = Holding /\ copy' = copy
      BY <2>5 DEF LockQuestions, LoadFails, Holding
    <3> QED BY <1>0, <2>1, <2>5, <3>1 DEF Holders, LockQuestions, LoadFails, TypeOK
  <2> QED BY <1>2, <2>3, <2>4, <2>5 DEF Record
<1>3. ASSUME NEW u \in Users, Use(u), ~Die(u) PROVE Holders'
  <2>1. pc' = pc /\ lock' = lock
    BY <1>3 DEF Use, RefreshQuestions, Scaffold, FindProject, OpenAnswer, Begin, GiveUp, Interview,
                Edit, SaveEmpties, SaveFills, WriteMd, JsonEmpties, JsonFills, WriteAgents, WriteFails,
                Reload, End, agents
  <2>0. /\ Holding' \ {u} = Holding \ {u} /\ \A h \in Procs : h # u => copy'[h] = copy[h]
        /\ u \in Holding' => copy'[u].st = "ok"
        /\ \A v \in Users : v # u => todo'[v] = todo[v]
        /\ todo'[u] # <<>> => u \in Holding'
    BY <1>0, <1>3, UserHolds
  <2>2. \A a \in Agents : (a \in Holding' <=> a \in Holding) /\ copy'[a] = copy[a]
    BY <1>0, <2>0
  <2>3. \A v \in Users : todo'[v] # <<>> => v \in Holding'
    BY <1>0, <2>0 DEF Holders
  <2>4. \A p \in Holding' : copy'[p].st = "ok"
    BY <1>0, <2>0 DEF Holders, Holding
  <2> QED BY <1>0, <2>1, <2>2, <2>3, <2>4 DEF Holders
<1>4. ASSUME NEW u \in Users, Die(u) PROVE Holders'
  <2>1. Holding' = {p \in Holding : ProcOf(p) # u} /\ \A h \in Holding' : copy'[h] = copy[h]
    BY <1>0, <1>4 DEF Die, Holding
  <2>2. \A a \in Agents : ProcOf(a) = Home
    BY DEF ProcOf
  <2>3. \A v \in Users : ProcOf(v) = v
    BY <1>0 DEF ProcOf
  <2>4. lock' = lock /\ todo' = [todo EXCEPT ![u] = <<>>]
        /\ pc' = IF u = Home THEN [a \in Agents |-> "dead"] ELSE pc
    BY <1>4 DEF Die
  <2> QED BY <1>0, <2>1, <2>2, <2>3, <2>4 DEF Holders, TypeOK
<1>5. CASE UNCHANGED vars
  BY <1>0, <1>5 DEF Holders, vars, dialogs, agents, Holding
<1> QED BY <1>2, <1>3, <1>4, <1>5 DEF Next

\* What an agent pushes: one more question, open, of no interview.
LEMMA AgentPushes ==
    ASSUME TypeOK, NEW a \in Agents, LoadAndPush(a)
    PROVE  /\ Take(a, copy'[a]) /\ copy'[a] \in Meta /\ copy'[a].st = "ok" /\ yaml.st = "ok"
           /\ \A p \in Procs : p # a => copy'[p] = copy[p]
           /\ Len(copy'[a].qs) = Len(yaml.qs) + 1 /\ Answered(copy'[a]) = Answered(yaml)
           /\ Ids(yaml) \subseteq Ids(copy'[a])
           /\ \A id \in Ids(copy'[a]) \ Ids(yaml) : id[1] = "mq"
<1> DEFINE g == Push(yaml, <<"mq", nanos>>, "pending")
<1>1. <<"mq", nanos>> \in Id /\ "pending" \in Statuses /\ yaml \in Meta /\ a \in Procs
  BY DEF TypeOK, Id, Statuses, Procs
<1>2. /\ g \in Meta /\ g.st = yaml.st /\ Len(g.qs) = Len(yaml.qs) + 1
      /\ Ids(g) = Ids(yaml) \cup {<<"mq", nanos>>}
      /\ "pending" # "answered" => Answered(g) = Answered(yaml)
  BY <1>1, PushAdds
<1>3. yaml.st = "ok" /\ Take(a, g)
  BY DEF LoadAndPush
<1> HIDE DEF g
<1>4. copy'[a] = g /\ \A p \in Procs : p # a => copy'[p] = copy[p]
  BY <1>1, <1>2, <1>3, TakeHolds
<1> QED BY <1>2, <1>3, <1>4

\* Only agents and users that save change the file, and only what they hold does.
LEMMA FileStays ==
    ASSUME [Next]_vars
    PROVE  \/ (yaml' = yaml /\ told' = told)
           \/ \E a \in Agents : Publish(a)
           \/ \E u \in Users : SaveEmpties(u) \/ SaveFills(u)
<1>1. ASSUME NEW a \in Agents, Record(a), ~Publish(a) PROVE yaml' = yaml /\ told' = told
  BY <1>1 DEF Record, LockQuestions, LoadFails, LoadAndPush, PublishFails, files, history
<1>2. ASSUME NEW u \in Users, Use(u), ~SaveEmpties(u), ~SaveFills(u) PROVE yaml' = yaml /\ told' = told
  BY <1>2 DEF Use, RefreshQuestions, Scaffold, FindProject, OpenAnswer, Begin, GiveUp, Interview,
              Edit, WriteMd, JsonEmpties, JsonFills, WriteAgents, WriteFails, Reload, End, Die, files,
              history
<1>3. CASE UNCHANGED vars
  BY <1>3 DEF vars, files, history
<1> QED BY <1>1, <1>2, <1>3 DEF Next

\* What becomes of a copy.
LEMMA CopiesStep ==
    ASSUME TypeOK, [Next]_vars, NEW p \in Procs
    PROVE  \/ copy'[p] \in {copy[p], yaml, Blank, Absent}
           \/ (p \in Agents /\ LoadAndPush(p))
           \/ p \in Users /\ (Interview(p) \/ Edit(p))
<1>0. copy \in [Procs -> Meta] /\ Agents \subseteq Procs /\ Users \subseteq Procs
  BY DEF TypeOK, Procs
<1>1. ASSUME NEW q \in Procs, NEW m, copy' = [copy EXCEPT ![q] = m]
      PROVE  copy'[p] = IF p = q THEN m ELSE copy[p]
  BY <1>0, <1>1
<1>2. ASSUME NEW a \in Agents, Record(a)
      PROVE  \/ p = a /\ LoadAndPush(a)
             \/ copy'[p] \in {copy[p], Absent}
  BY <1>0, <1>1, <1>2 DEF Record, LockQuestions, LoadFails, LoadAndPush, Take, Publish, PublishFails
<1>3. ASSUME NEW u \in Users, Use(u)
      PROVE  \/ p = u /\ (Interview(u) \/ Edit(u))
             \/ copy'[p] \in {copy[p], yaml, Blank, Absent}
  <2>1. CASE Scaffold(u) \/ FindProject(u) \/ \E id \in refs[u] : OpenAnswer(u, id)
    BY <1>0, <1>1, <2>1 DEF Scaffold, FindProject, OpenAnswer, Take
  <2>2. CASE Interview(u) \/ Edit(u)
    <3>1. \E m : copy' = [copy EXCEPT ![u] = m]
      BY <2>2 DEF Interview, Edit
    <3> QED BY <1>0, <1>1, <2>2, <3>1
  <2>3. CASE Reload(u) \/ End(u)
    BY <1>0, <1>1, <2>3 DEF Reload, End, Take
  <2>4. CASE Die(u)
    BY <1>0, <2>4 DEF Die
  <2> QED BY <1>3, <2>1, <2>2, <2>3, <2>4 DEF Use, RefreshQuestions, GiveUp, SaveEmpties,
          SaveFills, WriteMd, JsonEmpties, JsonFills, WriteAgents, WriteFails
<1>4. CASE UNCHANGED vars
  BY <1>4 DEF vars
<1> QED BY <1>2, <1>3, <1>4 DEF Next

\* An agent's copy is what it pushed to until it is published or lost.
LEMMA AgentCopies ==
    ASSUME TypeOK, Holders, [Next]_vars, NEW a \in Agents
    PROVE  (copy'[a] \in {copy[a], Absent}) \/ LoadAndPush(a)
<1>0. copy \in [Procs -> Meta] /\ a \in Procs /\ a \notin Users
  BY ProjectOK DEF TypeOK, Procs
<1>1. ASSUME NEW u \in Users, Use(u), ~Die(u) PROVE copy'[a] = copy[a]
  BY <1>0, <1>1, UserHolds
<1>2. ASSUME NEW u \in Users, Die(u) PROVE copy'[a] \in {copy[a], Absent}
  BY <1>0, <1>2 DEF Die
<1>3. ASSUME NEW b \in Agents, Record(b) PROVE copy'[a] \in {copy[a], Absent} \/ LoadAndPush(a)
  <2>1. CASE LoadAndPush(b) /\ b # a
    BY <1>0, <2>1, AgentPushes
  <2> QED BY <1>0, <1>3, <2>1 DEF Record, LockQuestions, LoadFails, Publish, PublishFails
<1>4. CASE UNCHANGED vars
  BY <1>4 DEF vars
<1> QED BY <1>1, <1>2, <1>3, <1>4 DEF Next

\* The same up to more than n.
LEMMA WithinMore ==
    ASSUME NEW m \in Meta, NEW k \in Nat, NEW n \in Nat, Within(m, k), k <= n
    PROVE  Within(m, n)
<1>1. ASSUME NEW id \in Ids(m) PROVE id \in Id
  <2>1. PICK i \in 1 .. Len(m.qs) : m.qs[i].id = id
    BY <1>1, Members
  <2>2. m.qs \in Seq(Question)
    BY DEF Meta
  <2>3. m.qs[i] \in Question
    BY <2>1, <2>2
  <2> QED BY <2>1, <2>3 DEF Question
<1>2. \A id \in Id : id[2] \in Nat
  BY DEF Id
<1> QED BY <1>1, <1>2 DEF Within

\* More questions with numbers up to n.
LEMMA Grown ==
    ASSUME NEW m \in Meta, NEW g \in Meta, Within(m, Len(m.qs)), Len(g.qs) >= Len(m.qs),
           \A id \in Ids(g) \ Ids(m) : id[1] = "q" => id[2] <= Len(g.qs)
    PROVE  Within(g, Len(g.qs))
<1>1. Len(m.qs) \in Nat /\ Len(g.qs) \in Nat
  BY DEF Meta
<1>2. Within(m, Len(g.qs))
  BY <1>1, WithinMore
<1> QED BY <1>2 DEF Within

LEMMA KnownStep == Filed /\ [Next]_vars => Known'
<1> SUFFICES ASSUME Filed, [Next]_vars PROVE Known'
  OBVIOUS
<1>0. /\ TypeOK /\ Holders /\ Known /\ Agents \cap Users = {} /\ Holding \subseteq Procs
      /\ Agents \subseteq Procs /\ Users \subseteq Procs /\ copy \in [Procs -> Meta] /\ yaml \in Meta
  BY ProjectOK DEF Filed, Holding, Procs, TypeOK
<1>1. told \subseteq told'
  BY FileStays DEF Publish, SaveEmpties, SaveFills, history
<1>2. yaml'.st = "ok" => Answered(yaml') \subseteq told'
  <2>1. CASE yaml' = yaml
    BY <1>0, <1>1, <2>1 DEF Known
  <2>2. ASSUME NEW a \in Agents, Publish(a) PROVE Answered(yaml') \subseteq told'
    BY <1>0, <1>1, <2>2 DEF Publish, Known, Holders
  <2>3. ASSUME NEW u \in Users, SaveEmpties(u) PROVE yaml'.st # "ok"
    BY <2>3, NoQuestions DEF SaveEmpties
  <2>4. ASSUME NEW u \in Users, SaveFills(u) PROVE Answered(yaml') \subseteq told'
    BY <2>4 DEF SaveFills
  <2> QED BY <2>1, <2>2, <2>3, <2>4, FileStays
<1>3. ASSUME NEW a \in Agents, a \in Holding' PROVE Answered(copy'[a]) \subseteq told'
  <2>1. CASE LoadAndPush(a)
    BY <1>0, <1>1, <2>1, AgentPushes DEF Known
  <2>2. CASE a \in Holding /\ copy'[a] = copy[a]
    BY <1>0, <1>1, <2>2 DEF Known
  <2>3. LoadAndPush(a) \/ (a \in Holding /\ copy'[a] = copy[a])
    BY <1>0, <1>3, AgentCopies DEF Holding
  <2> QED BY <2>1, <2>2, <2>3
<1> QED BY <1>2, <1>3 DEF Known

LEMMA NumberedStep == Filed /\ [Next]_vars => Numbered'
<1> SUFFICES ASSUME Filed, [Next]_vars PROVE Numbered'
  OBVIOUS
<1>0. /\ TypeOK /\ TypeOK' /\ Holders /\ Numbered /\ Agents \subseteq Procs /\ Users \subseteq Procs
      /\ copy \in [Procs -> Meta] /\ yaml \in Meta
  BY TypeStep DEF Filed, Procs, TypeOK
<1>1. Within(Absent, Len(Absent.qs)) /\ Within(Torn, Len(Torn.qs)) /\ Within(Blank, Len(Blank.qs))
  BY NoQuestions DEF Within
<1>2. Within(yaml', Len(yaml'.qs))
  <2>1. yaml' \in {yaml, Torn} \/ \E p \in Procs : yaml' = copy[p]
    BY <1>0, FileStays DEF Publish, SaveEmpties, SaveFills
  <2> QED BY <1>0, <1>1, <2>1 DEF Numbered
<1>3. ASSUME NEW p \in Procs PROVE Within(copy'[p], Len(copy'[p].qs))
  <2>1. CASE copy'[p] \in {copy[p], yaml, Blank, Absent}
    BY <1>0, <1>1, <1>3, <2>1 DEF Numbered
  <2>2. CASE p \in Agents /\ LoadAndPush(p)
    <3>1. /\ Len(copy'[p].qs) = Len(yaml.qs) + 1 /\ copy'[p] \in Meta
          /\ \A id \in Ids(copy'[p]) \ Ids(yaml) : id[1] = "mq"
      BY <1>0, <2>2, AgentPushes
    <3>2. Within(yaml, Len(yaml.qs)) /\ yaml \in Meta /\ Len(yaml.qs) \in Nat
      BY <1>0 DEF Numbered, Meta
    <3>3. Len(copy'[p].qs) >= Len(yaml.qs)
      BY <3>1, <3>2
    <3>4. \A id \in Ids(copy'[p]) \ Ids(yaml) : id[1] = "q" => id[2] <= Len(copy'[p].qs)
      BY <3>1
    <3> QED BY <3>1, <3>2, <3>3, <3>4, Grown
  <2>3. CASE p \in Users /\ (Interview(p) \/ Edit(p))
    <3>1. /\ Len(copy'[p].qs) >= Len(copy[p].qs) /\ copy'[p] \in Meta /\ copy[p] \in Meta
          /\ \A id \in Ids(copy'[p]) \ Ids(copy[p]) :
               id[1] = "q" /\ id[2] \in Len(copy[p].qs) + 1 .. Len(copy'[p].qs)
      BY <1>0, <1>3, <2>3, EditGrows
    <3>2. Len(copy'[p].qs) \in Nat /\ Len(copy[p].qs) \in Nat
      BY <3>1 DEF Meta
    <3>3. Within(copy[p], Len(copy[p].qs))
      BY <1>0, <1>3 DEF Numbered
    <3>4. \A id \in Ids(copy'[p]) \ Ids(copy[p]) : id[1] = "q" => id[2] <= Len(copy'[p].qs)
      BY <3>1, <3>2
    <3> QED BY <3>1, <3>2, <3>3, <3>4, Grown
  <2> QED BY <1>0, <1>3, <2>1, <2>2, <2>3, CopiesStep
<1> QED BY <1>2, <1>3 DEF Numbered

-----------------------------------------------------------------------------
(* Without overlap there is one actor at a time.                           *)

\* What Sole says where u alone may hold a copy.
SoleUser(u) ==
    /\ Holding \subseteq {u} /\ \A v \in Users : v # u => todo[v] = <<>>
    /\ yaml.st = "ok" => Has(yaml)
    /\ yaml.st = "absent" => asked = {} /\ told = {} /\ json.st # "ok"
    /\ u \in Holding => Has(copy[u])
    /\ json.st = "ok" =>
         /\ yaml.st = "ok" => Within(json, Len(yaml.qs))
         /\ u \in Holding => Within(json, Len(copy[u].qs))
    /\ todo[u] \in Reads \cup Tells => yaml.st = "ok" /\ copy[u].qs = yaml.qs
    /\ Undisturbed /\ json.st = "ok" =>
         /\ todo[u] \in Tells \/ Ids(json) \cap told \subseteq Answered(json)
         /\ todo[u] \in Reads \cup Edits => Ids(json) \cap Answered(copy[u]) \subseteq Answered(json)

LEMMA ToSoleUser ==
    ASSUME TypeOK, Holders, Sole, NEW u \in Users, Holding \subseteq {u}
    PROVE  SoleUser(u)
<1>1. \A v \in Users : v # u => todo[v] = <<>>
  BY DEF Holders
<1>2. \A v \in Users : todo[v] \in Tells => v = u
  BY <1>1, KindsOfSteps
<1>3. Undisturbed /\ json.st = "ok" =>
        /\ todo[u] \in Tells \/ Ids(json) \cap told \subseteq Answered(json)
        /\ todo[u] \in Reads \cup Edits => Ids(json) \cap Answered(copy[u]) \subseteq Answered(json)
  BY <1>2 DEF Sole, Telling
<1>4. /\ yaml.st = "ok" => Has(yaml)
      /\ yaml.st = "absent" => asked = {} /\ told = {} /\ json.st # "ok"
      /\ u \in Holding => Has(copy[u])
  BY DEF Sole, Complete
<1>5. json.st = "ok" =>
        /\ yaml.st = "ok" => Within(json, Len(yaml.qs))
        /\ u \in Holding => Within(json, Len(copy[u].qs))
  BY DEF Sole, Behind
<1>6. todo[u] \in Reads \cup Tells => yaml.st = "ok" /\ copy[u].qs = yaml.qs
  BY DEF Sole, Reading
<1> QED BY <1>1, <1>3, <1>4, <1>5, <1>6 DEF SoleUser

LEMMA FromSoleUser ==
    ASSUME NEW u \in Users, SoleUser(u)'
    PROVE  Sole'
<1>1. \A v \in Users : v # u => todo'[v] \notin Reads \cup Tells \cup Answers \cup Edits
  BY KindsOfSteps DEF SoleUser
<1>2. Alone'
  BY DEF SoleUser, Alone
<1>3. Complete'
  BY DEF SoleUser, Complete
<1>4. Behind'
  BY DEF SoleUser, Behind
<1>5. Reading'
  BY <1>1 DEF SoleUser, Reading
<1>6. Telling'
  BY <1>1 DEF SoleUser, Telling
<1> QED BY <1>2, <1>3, <1>4, <1>5, <1>6 DEF Sole

\* Who has steps ahead is the one.
LEMMA Acting ==
    ASSUME Filed, ~overlap, NEW u \in Users, u \in Holding
    PROVE  SoleUser(u) /\ Has(copy[u]) /\ copy[u].st = "ok" /\ copy[u] \in Meta
<1>1. TypeOK /\ Holders /\ Sole
  BY DEF Filed
<1>2. Holding \subseteq {u}
  BY <1>1 DEF Sole, Alone
<1>3. SoleUser(u)
  BY <1>1, <1>2, ToSoleUser
<1> QED BY <1>1, <1>3 DEF SoleUser, Holders, TypeOK, Procs

\* An agent that loads or publishes is alone.
LEMMA SolePush ==
    ASSUME Filed, NEW a \in Agents, LoadAndPush(a), ~overlap'
    PROVE  Sole'
<1>0. /\ TypeOK /\ Holders /\ a \in Procs /\ Agents \cap Users = {} /\ Holding \subseteq Procs
  BY ProjectOK DEF Filed, Holding, Procs
<1>1. /\ Take(a, copy'[a]) /\ copy'[a] \in Meta /\ copy'[a].st = "ok" /\ yaml.st = "ok"
      /\ Len(copy'[a].qs) = Len(yaml.qs) + 1 /\ Answered(copy'[a]) = Answered(yaml)
      /\ Ids(yaml) \subseteq Ids(copy'[a])
  BY <1>0, AgentPushes
<1>2. /\ Holding' = Holding \cup {a} /\ ~overlap
      /\ \A h \in Holding : h = a \/ {a, h} \cap Users = {}
  BY <1>0, <1>1, TakeHolds
<1>3. Sole
  BY <1>2 DEF Filed
<1>4. Holding = {} /\ Holding' = {a}
  <2>1. ASSUME NEW h \in Holding PROVE FALSE
    <3>1. h \in Agents
      BY <1>0, <1>2, <2>1 DEF Procs
    <3>2. pc[h] = "publish" /\ pc[a] = "load" /\ lock = h /\ lock = a
      BY <1>0, <2>1, <3>1 DEF Holders, LoadAndPush
    <3> QED BY <3>2
  <2> QED BY <1>2, <2>1
<1>5. \A v \in Users : todo[v] = <<>>
  BY <1>0, <1>4 DEF Holders
<1>6. \A v \in Users : todo[v] \notin Reads \cup Tells \cup Edits
  BY <1>5, KindsOfSteps
<1>7. /\ yaml' = yaml /\ json' = json /\ todo' = todo /\ asked' = asked /\ told' = told
      /\ Undisturbed' = Undisturbed
  BY DEF LoadAndPush, files, dialogs, Undisturbed
<1>8. Alone'
  BY <1>4 DEF Alone
<1>9. Complete'
  BY <1>1, <1>3, <1>4, <1>7 DEF Complete, Sole, Has
<1>10. Behind'
  <2>1. ASSUME json.st = "ok" PROVE Within(json, Len(copy'[a].qs))
    <3>1. Within(json, Len(yaml.qs)) /\ json \in Meta /\ yaml \in Meta
      BY <1>0, <1>1, <1>3, <2>1 DEF Sole, Behind, TypeOK
    <3>2. Len(yaml.qs) \in Nat
      BY <3>1 DEF Meta
    <3> QED BY <1>1, <3>1, <3>2, WithinMore
  <2> QED BY <1>3, <1>4, <1>7, <2>1 DEF Behind, Sole
<1>11. Reading'
  BY <1>6, <1>7 DEF Reading
<1>12. Telling'
  BY <1>3, <1>6, <1>7 DEF Telling, Sole
<1> QED BY <1>8, <1>9, <1>10, <1>11, <1>12 DEF Sole

LEMMA SolePublish ==
    ASSUME Filed, NEW a \in Agents, Publish(a), ~overlap'
    PROVE  Sole'
<1>0. /\ TypeOK /\ Holders /\ a \in Procs /\ Agents \cap Users = {} /\ Holding \subseteq Procs
  BY ProjectOK DEF Filed, Holding, Procs
<1>1. /\ yaml' = copy[a] /\ asked' = asked \cup {Last(copy[a].qs).id} /\ told' = told
      /\ copy' = [copy EXCEPT ![a] = Absent] /\ json' = json /\ todo' = todo
      /\ overlap' = overlap /\ Undisturbed' = Undisturbed /\ pc[a] = "publish"
  BY DEF Publish, dialogs, Undisturbed
<1>2. Sole
  BY <1>1 DEF Filed
<1>3. a \in Holding /\ Holding = {a}
  BY <1>0, <1>1, <1>2 DEF Holders, Sole, Alone
<1>4. Holding' = {}
  BY <1>0, <1>1, <1>3 DEF Holding, TypeOK
<1>5. \A v \in Users : todo[v] \notin Reads \cup Tells \cup Edits
  BY <1>0, <1>3, KindsOfSteps DEF Holders
<1>6. Last(copy[a].qs).id \in Ids(copy[a])
  <2>1. copy[a] \in Meta /\ Len(copy[a].qs) > 0 /\ Len(copy[a].qs) \in Nat
    BY <1>0, <1>3 DEF Holders, TypeOK, Meta
  <2>2. Last(copy[a].qs) = copy[a].qs[Len(copy[a].qs)] /\ Len(copy[a].qs) \in 1 .. Len(copy[a].qs)
    BY <2>1 DEF Last
  <2> QED BY <2>1, <2>2, Members
<1>7. Complete'
  BY <1>0, <1>1, <1>2, <1>3, <1>4, <1>6 DEF Complete, Sole, Has, Holders
<1>8. Behind'
  BY <1>1, <1>2, <1>3, <1>4 DEF Behind, Sole
<1>9. Alone' /\ Reading'
  BY <1>1, <1>4, <1>5 DEF Alone, Reading
<1>10. Telling'
  BY <1>1, <1>2, <1>5 DEF Telling, Sole
<1> QED BY <1>7, <1>8, <1>9, <1>10 DEF Sole

\* A command or dialog begins with a fresh copy when nobody has one.
LEMMA SoleBegin ==
    ASSUME Filed, NEW u \in Users, Begin(u), ~overlap',
           NEW m \in Meta, m.st = "ok", Take(u, m), NEW t \in Todos \ Tells, Goto(u, t),
           \/ yaml.st = "ok" /\ m = yaml
           \/ yaml.st = "absent" /\ m = Blank /\ t \notin Reads
    PROVE  Sole'
<1>0. TypeOK /\ Holders /\ Known /\ u \in Procs
  BY DEF Filed, Procs
<1>1. /\ Holding' = Holding \cup {u} /\ ~overlap /\ copy'[u] = m
      /\ \A h \in Holding : h = u \/ {u, h} \cap Users = {}
  BY <1>0, TakeHolds
<1>2. /\ yaml' = yaml /\ json' = json /\ asked' = asked /\ told' = told
      /\ Undisturbed' = Undisturbed /\ copy[u] = Absent
  BY DEF Begin, files, Idle, Undisturbed
<1>3. Sole
  BY <1>1 DEF Filed
<1>4. Holding = {}
  BY <1>1, <1>2 DEF Holding
<1>5. \A v \in Users : todo[v] = <<>>
  BY <1>0, <1>4 DEF Holders
<1>6. todo'[u] = t /\ \A v \in Users : v # u => todo'[v] = <<>>
  BY <1>0, <1>5, AheadStays DEF Goto
<1>7. Has(m)' /\ (yaml.st = "ok" => Has(yaml))'
  <2>1. Ids(Blank) = {} /\ Answered(Blank) = {}
    BY NoQuestions
  <2> QED BY <1>2, <1>3, <2>1 DEF Sole, Complete, Has
<1>8. (yaml.st = "absent" => asked = {} /\ told = {} /\ json.st # "ok")'
  BY <1>2, <1>3 DEF Sole, Complete
<1>9. json.st = "ok" => yaml.st = "ok" /\ m = yaml /\ Within(json, Len(yaml.qs))
  BY <1>3 DEF Sole, Complete, Behind
<1>10. t \in Reads => yaml.st = "ok" /\ m = yaml
  OBVIOUS
<1>11. Undisturbed /\ json.st = "ok" =>
         Ids(json) \cap told \subseteq Answered(json) /\ Answered(m) \subseteq told
  BY <1>0, <1>3, <1>5, <1>9, KindsOfSteps DEF Sole, Telling, Known
<1>12. SoleUser(u)'
  <2>1. Holding' \subseteq {u} /\ (\A v \in Users : v # u => todo'[v] = <<>>)
    BY <1>1, <1>4, <1>6
  <2>2. Has(copy[u])'
    BY <1>1, <1>7
  <2>3. (json.st = "ok" =>
          /\ yaml.st = "ok" => Within(json, Len(yaml.qs))
          /\ u \in Holding => Within(json, Len(copy[u].qs)))'
    BY <1>1, <1>2, <1>9
  <2>4. (todo[u] \in Reads \cup Tells => yaml.st = "ok" /\ copy[u].qs = yaml.qs)'
    BY <1>1, <1>2, <1>6, <1>10
  <2>5. (Undisturbed /\ json.st = "ok" =>
          /\ todo[u] \in Tells \/ Ids(json) \cap told \subseteq Answered(json)
          /\ todo[u] \in Reads \cup Edits =>
               Ids(json) \cap Answered(copy[u]) \subseteq Answered(json))'
    BY <1>1, <1>2, <1>11
  <2> QED BY <1>7, <1>8, <2>1, <2>2, <2>3, <2>4, <2>5 DEF SoleUser
<1> QED BY <1>12, FromSoleUser

\* A question of an interview, and an answer to one, is not in the requirements.
LEMMA SoleEdit ==
    ASSUME Filed, NEW u \in Users, Interview(u) \/ Edit(u), ~overlap'
    PROVE  Sole'
<1>0. TypeOK /\ Holders /\ u \in Procs /\ todo[u] \in Todos /\ json \in Meta
  BY DEF Filed, Procs, TypeOK
<1>1. /\ yaml' = yaml /\ json' = json /\ asked' = asked /\ told' = told
      /\ Undisturbed' = Undisturbed
      /\ overlap' = overlap /\ todo[u] # <<>> /\ todo' = [todo EXCEPT ![u] = Tail(todo[u])]
  BY DEF Interview, Edit, files, history, At, Done, Goto, Undisturbed
<1>2. /\ u \in Holding /\ copy' \in [Procs -> Meta] /\ copy'[u].st = copy[u].st
      /\ \A p \in Procs : p # u => copy'[p] = copy[p]
      /\ Len(copy'[u].qs) >= Len(copy[u].qs)
      /\ Ids(copy[u]) \subseteq Ids(copy'[u]) /\ Answered(copy[u]) \subseteq Answered(copy'[u])
      /\ todo[u] \notin Answers => \A id \in Answered(copy'[u]) \ Answered(copy[u]) :
            id[1] = "q" /\ id[2] \in Len(copy[u].qs) + 1 .. Len(copy'[u].qs)
      /\ todo[u] \in Reads => copy'[u].qs = copy[u].qs
      /\ todo[u] \notin Tells
  BY <1>0, EditGrows
<1>3. SoleUser(u) /\ Has(copy[u]) /\ copy[u] \in Meta
  BY <1>1, <1>2, Acting
<1>4. /\ Tail(todo[u]) \in Reads => todo[u] \in Reads
      /\ Tail(todo[u]) \in Edits => todo[u] \in Edits
      /\ Tail(todo[u]) \notin Tells
  <2>1. Head(todo[u]) \in {"ask", "answer", "skill", "llm"}
    BY DEF Interview, Edit, At
  <2> QED BY <1>0, <1>1, <2>1, Stages, KindsOfSteps
<1>5. todo'[u] = Tail(todo[u]) /\ \A v \in Users : v # u => todo'[v] = <<>>
  BY <1>0, <1>1, <1>3 DEF SoleUser, TypeOK
<1>6. Holding' \subseteq {u}
  BY <1>2, <1>3 DEF Holding, SoleUser
<1>7. Has(copy[u])'
  BY <1>1, <1>2, <1>3 DEF Has
<1>8. json.st = "ok" => Within(json, Len(copy[u].qs)) /\ Within(json, Len(copy'[u].qs))
  <2>1. copy'[u] \in Meta
    BY <1>0, <1>2
  <2>2. Len(copy[u].qs) \in Nat /\ Len(copy'[u].qs) \in Nat
    BY <1>3, <2>1 DEF Meta
  <2> QED BY <1>0, <1>2, <1>3, <2>2, WithinMore DEF SoleUser
<1>9. ASSUME Undisturbed, json.st = "ok", todo'[u] \in Reads \cup Edits,
             NEW id \in Ids(json), id \in Answered(copy'[u])
      PROVE  id \in Answered(json)
  <2>1. todo[u] \in Reads \cup Edits /\ todo[u] \notin Answers
    BY <1>4, <1>5, <1>9, KindsOfSteps
  <2>2. ASSUME id \notin Answered(copy[u]) PROVE FALSE
    <3>1. id[1] = "q" /\ id[2] \in Len(copy[u].qs) + 1 .. Len(copy'[u].qs)
      BY <1>2, <1>9, <2>1, <2>2
    <3>2. id[2] <= Len(copy[u].qs)
      BY <1>8, <1>9, <3>1 DEF Within
    <3>3. Len(copy[u].qs) \in Nat
      BY <1>3 DEF Meta
    <3> QED BY <3>1, <3>2, <3>3
  <2> QED BY <1>3, <1>9, <2>1, <2>2 DEF SoleUser
<1>10. Undisturbed /\ json.st = "ok" => Ids(json) \cap told \subseteq Answered(json)
  BY <1>2, <1>3 DEF SoleUser
<1>11. todo'[u] \in Reads \cup Tells => yaml.st = "ok" /\ copy'[u].qs = yaml.qs
  BY <1>2, <1>3, <1>4, <1>5 DEF SoleUser
<1>12. SoleUser(u)'
  <2>1. (json.st = "ok" =>
          /\ yaml.st = "ok" => Within(json, Len(yaml.qs))
          /\ u \in Holding => Within(json, Len(copy[u].qs)))'
    BY <1>1, <1>3, <1>8 DEF SoleUser
  <2>2. (Undisturbed /\ json.st = "ok" =>
          /\ todo[u] \in Tells \/ Ids(json) \cap told \subseteq Answered(json)
          /\ todo[u] \in Reads \cup Edits =>
               Ids(json) \cap Answered(copy[u]) \subseteq Answered(json))'
    BY <1>1, <1>9, <1>10
  <2>3. (yaml.st = "ok" => Has(yaml))' /\ (yaml.st = "absent" => asked = {} /\ told = {} /\ json.st # "ok")'
    BY <1>1, <1>3 DEF SoleUser, Has
  <2> QED BY <1>1, <1>5, <1>6, <1>7, <1>11, <2>1, <2>2, <2>3 DEF SoleUser
<1> QED BY <1>12, FromSoleUser

\* A step of a user that leaves the copy as it is.
Continues(u, t) ==
    /\ todo[u] # <<>> /\ Goto(u, t)
    /\ UNCHANGED <<copy, overlap, died>>

LEMMA ContinuesHolds ==
    ASSUME Filed, NEW u \in Users, NEW t, Continues(u, t), ~overlap'
    PROVE  /\ SoleUser(u) /\ Has(copy[u]) /\ copy[u].st = "ok" /\ copy[u] \in Meta /\ u \in Holding
           /\ Holding' = Holding /\ todo'[u] = t /\ \A v \in Users : v # u => todo'[v] = <<>>
           /\ todo[u] \in Todos /\ TypeOK
<1>1. TypeOK /\ Holders /\ todo[u] # <<>> /\ ~overlap /\ todo' = [todo EXCEPT ![u] = t] /\ copy' = copy
  BY DEF Filed, Continues, Goto
<1>2. u \in Holding /\ Holding' = Holding
  BY <1>1 DEF Holders, Holding
<1>3. SoleUser(u) /\ Has(copy[u]) /\ copy[u].st = "ok" /\ copy[u] \in Meta
  BY <1>1, <1>2, Acting
<1> QED BY <1>1, <1>2, <1>3 DEF SoleUser, TypeOK

\* The dialog is given up, cannot write, or writes a document that is not the
\* requirements.
LEMMA SoleGoesOn ==
    ASSUME Filed, NEW u \in Users, NEW t, Continues(u, t), ~overlap',
           UNCHANGED <<yaml, json, asked, told>>, t \notin Tells,
           unwritten \/ todo[u] \in Tells => unwritten',
           t \in Reads => todo[u] \in Reads, t \in Edits => todo[u] \in Reads \cup Edits
    PROVE  Sole'
<1>1. /\ SoleUser(u) /\ Has(copy[u]) /\ Holding' = Holding /\ todo'[u] = t
      /\ \A v \in Users : v # u => todo'[v] = <<>>
  BY ContinuesHolds
<1>2. copy' = copy /\ (Undisturbed' => Undisturbed /\ todo[u] \notin Tells)
  BY DEF Continues, Undisturbed
<1>3. SoleUser(u)'
  <2>1. (yaml.st = "ok" => Has(yaml))' /\ Has(copy[u])'
    BY <1>1, <1>2 DEF SoleUser, Has
  <2>2. (todo[u] \in Reads \cup Tells => yaml.st = "ok" /\ copy[u].qs = yaml.qs)'
    BY <1>1, <1>2 DEF SoleUser
  <2>3. (Undisturbed /\ json.st = "ok" =>
          /\ todo[u] \in Tells \/ Ids(json) \cap told \subseteq Answered(json)
          /\ todo[u] \in Reads \cup Edits =>
               Ids(json) \cap Answered(copy[u]) \subseteq Answered(json))'
    BY <1>1, <1>2 DEF SoleUser
  <2> QED BY <1>1, <1>2, <2>1, <2>2, <2>3 DEF SoleUser
<1> QED BY <1>3, FromSoleUser

LEMMA SoleSaveEmpties ==
    ASSUME Filed, NEW u \in Users, SaveEmpties(u), ~overlap'
    PROVE  Sole'
<1> DEFINE t == <<"fill">> \o Tail(todo[u])
<1>1. /\ Continues(u, t) /\ Head(todo[u]) = "save"
      /\ yaml' = Torn /\ json' = json /\ told' = told /\ asked' = asked /\ copy' = copy
      /\ Undisturbed' = Undisturbed
  BY DEF SaveEmpties, Continues, At, history, Undisturbed
<1> HIDE DEF t
<1>2. /\ SoleUser(u) /\ Has(copy[u]) /\ Holding' = Holding /\ todo'[u] = t
      /\ \A v \in Users : v # u => todo'[v] = <<>>
      /\ todo[u] \in Todos
  BY <1>1, ContinuesHolds
<1>3. (t \in Edits /\ todo[u] \in Edits) \/ (t \in Answers /\ todo[u] \in Answers)
  BY <1>1, <1>2, Stages DEF Continues, t
<1>4. todo[u] \notin Tells /\ t \notin Reads \cup Tells /\ (t \in Edits => todo[u] \in Edits)
  BY <1>3, KindsOfSteps
<1>5. yaml'.st = "torn"
  BY <1>1, NoQuestions
<1>6. SoleUser(u)'
  <2>1. Has(copy[u])'
    BY <1>1, <1>2 DEF Has
  <2>2. (Undisturbed /\ json.st = "ok" =>
          /\ todo[u] \in Tells \/ Ids(json) \cap told \subseteq Answered(json)
          /\ todo[u] \in Reads \cup Edits =>
               Ids(json) \cap Answered(copy[u]) \subseteq Answered(json))'
    BY <1>1, <1>2, <1>4 DEF SoleUser
  <2> QED BY <1>1, <1>2, <1>4, <1>5, <2>1, <2>2 DEF SoleUser
<1> QED BY <1>6, FromSoleUser

\* What is saved was there or is new; who saved an answer goes on to tell it.
LEMMA SoleSaveFills ==
    ASSUME Filed, NEW u \in Users, SaveFills(u), ~overlap'
    PROVE  Sole'
<1> DEFINE t == Tail(todo[u])
<1>1. /\ Continues(u, t) /\ Head(todo[u]) = "fill"
      /\ yaml' = copy[u] /\ json' = json /\ told' = told \cup Answered(copy[u])
      /\ asked' = asked \cup {id \in Ids(copy[u]) : id[1] = "q"} /\ copy' = copy
      /\ Undisturbed' = Undisturbed
  BY DEF SaveFills, Continues, At, Done, Undisturbed
<1> HIDE DEF t
<1>2. /\ SoleUser(u) /\ Has(copy[u]) /\ copy[u].st = "ok" /\ Holding' = Holding /\ todo'[u] = t
      /\ \A v \in Users : v # u => todo'[v] = <<>>
      /\ todo[u] \in Todos /\ u \in Holding
  BY <1>1, ContinuesHolds
<1>3. \/ t \in Edits \cup {<<>>} /\ todo[u] \in Edits
      \/ t \in Tells /\ todo[u] \in Answers
  BY <1>1, <1>2, Stages DEF Continues, t
<1>4. t \notin Reads
  BY <1>3, KindsOfSteps
<1>5. Has(copy[u])' /\ Has(yaml)'
  BY <1>1, <1>2 DEF Has
<1>6. Undisturbed /\ json.st = "ok" /\ t \notin Tells =>
         /\ Ids(json) \cap told \subseteq Answered(json)
         /\ Ids(json) \cap Answered(copy[u]) \subseteq Answered(json)
  BY <1>2, <1>3, KindsOfSteps DEF SoleUser
<1>7. t \in Tells => t \notin Reads \cup Edits
  BY KindsOfSteps
<1>8. SoleUser(u)'
  <2>1. (json.st = "ok" =>
          /\ yaml.st = "ok" => Within(json, Len(yaml.qs))
          /\ u \in Holding => Within(json, Len(copy[u].qs)))'
    BY <1>1, <1>2 DEF SoleUser
  <2>2. (Undisturbed /\ json.st = "ok" =>
          /\ todo[u] \in Tells \/ Ids(json) \cap told \subseteq Answered(json)
          /\ todo[u] \in Reads \cup Edits =>
               Ids(json) \cap Answered(copy[u]) \subseteq Answered(json))'
    BY <1>1, <1>2, <1>6, <1>7
  <2>3. (todo[u] \in Reads \cup Tells => yaml.st = "ok" /\ copy[u].qs = yaml.qs)'
    BY <1>1, <1>2
  <2>4. Holding' \subseteq {u}
    BY <1>2 DEF SoleUser
  <2> QED BY <1>1, <1>2, <1>5, <2>1, <2>2, <2>3, <2>4 DEF SoleUser
<1> QED BY <1>8, FromSoleUser

LEMMA SoleJsonEmpties ==
    ASSUME Filed, NEW u \in Users, JsonEmpties(u), ~overlap'
    PROVE  Sole'
<1> DEFINE t == <<"jsonfill">> \o Tail(todo[u])
<1>1. /\ Continues(u, t) /\ Head(todo[u]) = "json"
      /\ yaml' = yaml /\ json' = Torn /\ told' = told /\ asked' = asked /\ copy' = copy
      /\ Undisturbed' = Undisturbed
  BY DEF JsonEmpties, Continues, At, history, Undisturbed
<1> HIDE DEF t
<1>2. /\ SoleUser(u) /\ Has(copy[u]) /\ Holding' = Holding /\ todo'[u] = t
      /\ \A v \in Users : v # u => todo'[v] = <<>>
      /\ todo[u] \in Todos
  BY <1>1, ContinuesHolds
<1>3. todo[u] \in Reads \cup Tells
  BY <1>1, <1>2, Stages DEF Continues
<1>4. json'.st = "torn"
  BY <1>1, NoQuestions
<1>5. SoleUser(u)'
  <2>1. (yaml.st = "ok" => Has(yaml))' /\ Has(copy[u])'
    BY <1>1, <1>2 DEF SoleUser, Has
  <2>2. yaml.st = "ok" /\ copy[u].qs = yaml.qs
    BY <1>2, <1>3 DEF SoleUser
  <2> QED BY <1>1, <1>2, <1>4, <2>1, <2>2 DEF SoleUser
<1> QED BY <1>5, FromSoleUser

\* The requirements are those of the file.
LEMMA SoleJsonFills ==
    ASSUME Filed, NEW u \in Users, JsonFills(u), ~overlap'
    PROVE  Sole'
<1> DEFINE t == Tail(todo[u])
<1>1. /\ Continues(u, t) /\ Head(todo[u]) = "jsonfill"
      /\ yaml' = yaml /\ json' = copy[u] /\ told' = told /\ asked' = asked /\ copy' = copy
  BY DEF JsonFills, Continues, At, Done
<1> HIDE DEF t
<1>2. /\ SoleUser(u) /\ Has(copy[u]) /\ Holding' = Holding /\ todo'[u] = t
      /\ \A v \in Users : v # u => todo'[v] = <<>>
      /\ todo[u] \in Todos
  BY <1>1, ContinuesHolds
<1>3. todo[u] \in Reads \cup Tells
  BY <1>1, <1>2, Stages DEF Continues
<1>4. yaml.st = "ok" /\ copy[u].qs = yaml.qs
  BY <1>2, <1>3 DEF SoleUser
<1>5. Within(copy[u], Len(copy[u].qs))
  BY DEF Filed, Numbered, Procs
<1>6. SoleUser(u)'
  <2>1. (yaml.st = "ok" => Has(yaml))' /\ Has(copy[u])'
    BY <1>1, <1>2 DEF SoleUser, Has
  <2>2. (json.st = "ok" =>
          /\ yaml.st = "ok" => Within(json, Len(yaml.qs))
          /\ u \in Holding => Within(json, Len(copy[u].qs)))'
    BY <1>1, <1>4, <1>5
  <2>3. (Undisturbed /\ json.st = "ok" =>
          /\ todo[u] \in Tells \/ Ids(json) \cap told \subseteq Answered(json)
          /\ todo[u] \in Reads \cup Edits =>
               Ids(json) \cap Answered(copy[u]) \subseteq Answered(json))'
    BY <1>1, <1>2 DEF Has
  <2>4. Holding' \subseteq {u}
    BY <1>2 DEF SoleUser
  <2> QED BY <1>1, <1>2, <1>4, <2>1, <2>2, <2>3, <2>4 DEF SoleUser
<1> QED BY <1>6, FromSoleUser

\* A dialog that answered reads the file again, or there is nothing to tell.
LEMMA SoleReload ==
    ASSUME Filed, NEW u \in Users, Reload(u), ~overlap'
    PROVE  Sole'
<1>0. /\ TypeOK /\ Holders /\ u \in Procs /\ todo[u] # <<>> /\ Head(todo[u]) = "reload"
      /\ yaml' = yaml /\ json' = json /\ told' = told /\ asked' = asked
      /\ todo[u] \in Todos /\ yaml \in Meta
  BY DEF Filed, Reload, At, files, TypeOK, Procs
<1>1. todo[u] \in Tells /\ Tail(todo[u]) = <<>> /\ u \in Holding
  BY <1>0, Stages DEF Holders
<1>2. CASE json.st = "ok" /\ yaml.st = "ok"
  <2>1. Take(u, yaml) /\ todo' = [todo EXCEPT ![u] = <<"json">>]
    BY <1>2 DEF Reload, Goto
  <2>2. /\ Holding' = Holding \cup {u} /\ copy'[u] = yaml /\ ~overlap
    BY <1>0, <1>2, <2>1, TakeHolds
  <2>3. SoleUser(u)
    BY <1>1, <2>2, Acting
  <2>4. todo'[u] = <<"json">> /\ \A v \in Users : v # u => todo'[v] = <<>>
    BY <1>0, <2>1, <2>3 DEF SoleUser, TypeOK
  <2>5. <<"json">> \in Tells /\ <<"json">> \notin Reads \cup Edits
    BY Begins, KindsOfSteps
  <2>6. SoleUser(u)'
    <3>1. Has(yaml)' /\ Has(copy[u])'
      BY <1>0, <1>2, <2>2, <2>3 DEF SoleUser, Has
    <3>2. (json.st = "ok" =>
            /\ yaml.st = "ok" => Within(json, Len(yaml.qs))
            /\ u \in Holding => Within(json, Len(copy[u].qs)))'
      BY <1>0, <1>2, <2>2, <2>3 DEF SoleUser
    <3>3. Holding' \subseteq {u}
      BY <2>2, <2>3 DEF SoleUser
    <3> QED BY <1>0, <1>2, <2>2, <2>4, <2>5, <3>1, <3>2, <3>3 DEF SoleUser
  <2> QED BY <2>6, FromSoleUser
<1>3. CASE ~(json.st = "ok" /\ yaml.st = "ok")
  <2>1. Continues(u, <<>>) /\ copy' = copy
    BY <1>0, <1>1, <1>3 DEF Reload, Continues, Done
  <2>2. /\ SoleUser(u) /\ Has(copy[u]) /\ Holding' = Holding /\ todo'[u] = <<>>
        /\ \A v \in Users : v # u => todo'[v] = <<>>
    BY <2>1, ContinuesHolds
  <2>3. json.st # "ok"
    BY <1>1, <1>3, <2>2 DEF SoleUser
  <2>4. SoleUser(u)'
    <3>1. (yaml.st = "ok" => Has(yaml))' /\ Has(copy[u])'
      BY <1>0, <2>1, <2>2 DEF SoleUser, Has
    <3> QED BY <1>0, <2>1, <2>2, <2>3, <3>1, KindsOfSteps DEF SoleUser
  <2> QED BY <2>4, FromSoleUser
<1> QED BY <1>2, <1>3

\* A command that ended, and a process that died, hold nothing.
LEMMA SoleEnd ==
    ASSUME Filed, NEW u \in Users, End(u) \/ Die(u), ~overlap'
    PROVE  Sole'
<1>0. /\ TypeOK /\ Holders /\ copy \in [Procs -> Meta] /\ todo \in [Users -> Todos]
      /\ u \in Procs /\ Users \subseteq Procs
      /\ yaml' = yaml /\ json' = json /\ told' = told /\ asked' = asked /\ overlap' = overlap
  BY DEF Filed, End, Die, files, history, TypeOK, Procs
<1>1. Sole
  BY <1>0 DEF Filed
<1>2. Holding' \subseteq Holding /\ \A p \in Holding' : copy'[p] = copy[p]
  BY <1>0 DEF End, Die, Holding
<1>3. \A v \in Users : todo'[v] = <<>> \/ (todo'[v] = todo[v] /\ copy'[v] = copy[v])
  <2>1. CASE End(u)
    BY <1>0, <2>1 DEF End
  <2>2. CASE Die(u)
    <3>1. todo'[u] = <<>> /\ \A v \in Users : v # u => todo'[v] = todo[v]
      BY <1>0, <2>2 DEF Die
    <3>2. \A v \in Users : v # u => copy'[v] = copy[v]
      BY <1>0, <2>2, ProjectOK DEF Die, ProcOf
    <3> QED BY <3>1, <3>2
  <2> QED BY <2>1, <2>2
<1>4. Alone'
  BY <1>1, <1>2 DEF Sole, Alone
<1>5. Complete'
  BY <1>0, <1>1, <1>2 DEF Sole, Complete, Has
<1>6. Behind'
  BY <1>0, <1>1, <1>2 DEF Sole, Behind
<1>7. Reading'
  BY <1>0, <1>1, <1>3, KindsOfSteps DEF Sole, Reading
<1>8. Telling'
  <2>1. CASE End(u)
    <3>1. Undisturbed' = Undisturbed /\ todo' = todo
      BY <2>1 DEF End, history, Undisturbed
    <3> QED BY <1>0, <1>1, <1>3, <3>1, KindsOfSteps DEF Sole, Telling
  <2>2. CASE Die(u)
    BY <2>2 DEF Die, Telling, Undisturbed
  <2> QED BY <2>1, <2>2
<1> QED BY <1>4, <1>5, <1>6, <1>7, <1>8 DEF Sole

\* An agent that cannot publish drops its copy.
LEMMA SoleDrop ==
    ASSUME Filed, NEW a \in Agents, PublishFails(a), ~overlap'
    PROVE  Sole'
<1>1. /\ Holding' \subseteq Holding /\ \A p \in Holding' : copy'[p] = copy[p]
      /\ \A u \in Users : copy'[u] = copy[u]
  BY ProjectOK DEF Filed, TypeOK, Procs, PublishFails, Holding
<1>2. Sole /\ todo' = todo /\ yaml' = yaml /\ json' = json /\ told' = told /\ asked' = asked
      /\ Undisturbed' = Undisturbed
  BY DEF Filed, PublishFails, files, dialogs, history, Undisturbed
<1>3. Alone' /\ Complete' /\ Behind'
  BY <1>1, <1>2 DEF Sole, Alone, Complete, Has, Behind
<1>4. Reading' /\ Telling'
  BY <1>1, <1>2 DEF Sole, Reading, Telling
<1> QED BY <1>3, <1>4 DEF Sole

LEMMA SoleStep == Filed /\ [Next]_vars /\ ~overlap' => Sole'
<1> SUFFICES ASSUME Filed, [Next]_vars, ~overlap' PROVE Sole'
  OBVIOUS
<1>0. TypeOK /\ todo \in [Users -> Todos] /\ yaml \in Meta
  BY DEF Filed, TypeOK
<1>1. ASSUME UNCHANGED <<yaml, json, copy, todo, asked, told, overlap, died, unwritten>> PROVE Sole'
  BY <1>1 DEF Filed, Sole, Alone, Complete, Has, Behind, Reading, Telling, Undisturbed, Holding
<1>2. ASSUME NEW a \in Agents, Record(a) PROVE Sole'
  <2>1. CASE LockQuestions(a) \/ LoadFails(a)
    BY <1>1, <2>1 DEF LockQuestions, LoadFails, files, dialogs, history
  <2> QED BY <1>2, <2>1, SolePush, SolePublish, SoleDrop DEF Record
<1>3. ASSUME NEW u \in Users, Use(u) PROVE Sole'
  <2>0. todo[u] \in Todos
    BY <1>0
  <2>1. CASE RefreshQuestions(u)
    BY <1>1, <2>1 DEF RefreshQuestions, files, history
  <2>2. CASE Scaffold(u)
    <3>1. PICK t \in Edits : Goto(u, t)
      BY <2>2, Begins DEF Scaffold
    <3>2. t \in Todos \ Tells /\ t \notin Reads /\ yaml.st = "absent" /\ Take(u, Blank) /\ Begin(u)
      BY <2>2, <3>1, KindsOfSteps DEF Scaffold, Todos
    <3> QED BY <3>1, <3>2, SoleBegin, NoQuestions
  <2>3. CASE FindProject(u)
    <3>1. PICK t \in Commands(yaml) \cup Dialogs : Goto(u, t)
      BY <2>3 DEF FindProject
    <3>2. t \in Edits \cup Reads \cup {<<>>}
      BY <3>1, Begins DEF Commands, Dialogs
    <3>3. t \in Todos \ Tells /\ yaml.st = "ok" /\ Take(u, yaml) /\ Begin(u)
      BY <2>3, <3>2, KindsOfSteps DEF FindProject, Todos
    <3> QED BY <1>0, <3>1, <3>3, SoleBegin
  <2>4. ASSUME NEW id, OpenAnswer(u, id) PROVE Sole'
    <3>1. PICK t \in Answers : Goto(u, t)
      BY <2>4, Begins DEF OpenAnswer
    <3>2. t \in Todos \ Tells /\ yaml.st = "ok" /\ Take(u, yaml) /\ Begin(u)
      BY <2>4, <3>1, KindsOfSteps DEF OpenAnswer, Todos
    <3> QED BY <1>0, <3>1, <3>2, SoleBegin
  <2>5. CASE GiveUp(u)
    <3>1. /\ Continues(u, <<>>) /\ UNCHANGED <<yaml, json, asked, told, unwritten>>
          /\ Head(todo[u]) \in {"llm", "answer", "ask"}
      BY <2>5 DEF GiveUp, Continues, At, files, history
    <3>2. todo[u] \notin Tells
      BY <2>0, <3>1, Stages, KindsOfSteps DEF Continues
    <3> QED BY <3>1, <3>2, SoleGoesOn, KindsOfSteps
  <2>6. CASE WriteMd(u) \/ WriteAgents(u)
    <3>1. /\ Continues(u, Tail(todo[u])) /\ UNCHANGED <<yaml, json, asked, told, unwritten>>
          /\ Head(todo[u]) \in {"md", "agents"}
      BY <2>6 DEF WriteMd, WriteAgents, Continues, At, Done, history
    <3>2. /\ todo[u] \in Reads /\ todo[u] \notin Tells
          /\ Tail(todo[u]) \in Reads \cup Edits \cup {<<>>} /\ Tail(todo[u]) \notin Tells
      BY <2>0, <3>1, Stages, KindsOfSteps DEF Continues
    <3> QED BY <3>1, <3>2, SoleGoesOn
  <2>7. CASE Interview(u) \/ Edit(u)
    BY <2>7, SoleEdit
  <2>8. CASE SaveEmpties(u)
    BY <2>8, SoleSaveEmpties
  <2>9. CASE SaveFills(u)
    BY <2>9, SoleSaveFills
  <2>10. CASE JsonEmpties(u)
    BY <2>10, SoleJsonEmpties
  <2>11. CASE JsonFills(u)
    BY <2>11, SoleJsonFills
  <2>12. CASE Reload(u)
    BY <2>12, SoleReload
  <2>13. CASE End(u) \/ Die(u)
    BY <2>13, SoleEnd
  <2>14. CASE WriteFails(u)
    <3>1. /\ Continues(u, <<>>) /\ UNCHANGED <<yaml, json, asked, told>>
          /\ Head(todo[u]) # "reload"
          /\ unwritten' = (unwritten \/ todo[u] \in {<<"json">>, <<"jsonfill">>})
      BY <2>14 DEF WriteFails, Continues, At, files
    <3>2. todo[u] \in Tells => todo[u] \in {<<"json">>, <<"jsonfill">>}
      BY <3>1, Tuples DEF Tells
    <3> QED BY <3>1, <3>2, SoleGoesOn, KindsOfSteps
  <2> QED BY <1>3, <2>1, <2>2, <2>3, <2>4, <2>5, <2>6, <2>7, <2>8, <2>9, <2>10, <2>11, <2>12,
             <2>13, <2>14 DEF Use
<1>4. CASE UNCHANGED vars
  BY <1>1, <1>4 DEF vars, files, dialogs, history
<1> QED BY <1>2, <1>3, <1>4 DEF Next

-----------------------------------------------------------------------------
(* The theorems.                                                           *)

\* Every reachable state has the invariant.
THEOREM ProjectsAreFiled == Spec => []Filed
<1>1. Filed /\ [Next]_vars => Filed'
  BY TypeStep, HoldersStep, KnownStep, NumberedStep, SoleStep DEF Filed
<1> QED BY InitFiled, <1>1, PTL DEF Spec

\* NothingIsLost, for any agents, users, commands and interviews: no question that
\* was recorded and no answer that was saved is gone from the file, unless copies
\* of the project overlapped.
THEOREM NothingOfTheProjectIsLost == Spec => []NothingIsLost
<1>1. Filed => NothingIsLost
  BY DEF Filed, Sole, Complete, Has, NothingIsLost
<1> QED BY <1>1, ProjectsAreFiled, PTL

\* RequirementsTellAnswers: with everybody done, REQUIREMENTS.json calls no
\* question open that the file has answered.
THEOREM RequirementsFollowAnswers == Spec => []RequirementsTellAnswers
<1>1. Filed => RequirementsTellAnswers
  <2> SUFFICES ASSUME Filed, ~overlap, Undisturbed, \A u \in Users : Idle(u),
                      yaml.st = "ok", json.st = "ok"
               PROVE  Ids(json) \cap Answered(yaml) \subseteq Answered(json)
    BY DEF RequirementsTellAnswers, Undisturbed
  <2>1. \A u \in Users : todo[u] \notin Tells
    BY KindsOfSteps DEF Idle
  <2>2. Ids(json) \cap told \subseteq Answered(json)
    BY <2>1 DEF Filed, Sole, Telling
  <2>3. Answered(yaml) \subseteq told
    BY DEF Filed, Known
  <2> QED BY <2>2, <2>3
<1> QED BY <1>1, ProjectsAreFiled, PTL

=============================================================================
