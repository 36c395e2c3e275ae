---------------------------- MODULE TurnsProofs ----------------------------
(***************************************************************************)
(* Every request of a Quick Chat alternates, every request of an agent     *)
(* tells its history, every prompt token is billed once, and the books add *)
(* up, for any number of windows, messages, tasks and calls, any providers *)
(* and replies, and whoever takes whose job.                               *)
(***************************************************************************)
EXTENDS Turns, SequenceTheorems, FunctionTheorems, FiniteSetTheorems, TLAPS

Line == {"user", "assistant"} \X Nat

Alternates(turns) ==
  /\ turns \in Seq(Line)
  /\ \A i \in DOMAIN turns :
       IF i % 2 = 1 THEN turns[i][1] = "user"
       ELSE turns[i] = <<"assistant", turns[i - 1][2]>>

Pending(turns) == Len(turns) % 2 = 1
Question(turns) == Alternates(turns) /\ Pending(turns)

\* A worker has only these four fields.
IsWorker(w) == w = [at |-> w.at, home |-> w.home, job |-> w.job, spent |-> w.spent]

Shape ==
  /\ workers = [j \in Jobs |-> workers[j]]
  /\ \A j \in Jobs :
       /\ IsWorker(workers[j]) /\ workers[j].home \in 0 .. opened
       /\ workers[j].at # "unused" => workers[j].home # 0
  /\ win \in Nat /\ opened \in Nat /\ sends \in Nat
  /\ win \in {0, opened}

\* The conversation waits for a reply exactly while it ends with a question.
Talking ==
  /\ Alternates(talk) /\ busy \in BOOLEAN
  /\ busy <=> Pending(talk)

AtWork(j) == workers[j].at \notin {"unused", "ended"}

\* A worker of this window is the one of its last message, while that awaits
\* its reply; its job, or the one it is about to find, is the conversation.
Own(j) ==
  /\ busy /\ j = sends
  /\ workers[j].at = "starting" => (slot # NULL => slot.turns = talk)
  /\ workers[j].at # "starting" => workers[j].job # NULL /\ workers[j].job.turns = talk

Working ==
  /\ slot # NULL => Question(slot.turns)
  /\ \A j \in Jobs : workers[j].job # NULL => Question(workers[j].job.turns)
  /\ \A j \in Jobs : AtWork(j) /\ workers[j].home = win => Own(j)

Conversing == Shape /\ Talking /\ Working

-----------------------------------------------------------------------------
(* Conversations.                                                          *)

\* A message typed after a reply is a question.
LEMMA Said ==
  ASSUME NEW turns, Alternates(turns), ~Pending(turns), NEW n \in Nat
  PROVE  Question(Append(turns, <<"user", n>>))
<1> DEFINE said == Append(turns, <<"user", n>>)
<1>1. turns \in Seq(Line) /\ <<"user", n>> \in Line
  BY DEF Alternates, Line
<1>2. said \in Seq(Line) /\ Len(said) = Len(turns) + 1 /\ Len(turns) \in Nat
  BY <1>1
<1>3. \A i \in DOMAIN turns : said[i] = turns[i]
  BY <1>1
<1>4. said[Len(said)] = <<"user", n>>
  BY <1>1
<1>5. Len(said) % 2 = 1
  BY <1>2 DEF Pending
<1>6. ASSUME NEW i \in DOMAIN said
      PROVE  IF i % 2 = 1 THEN said[i][1] = "user" ELSE said[i] = <<"assistant", said[i - 1][2]>>
  <2>1. CASE i = Len(said)
    BY <2>1, <1>4, <1>5
  <2>2. CASE i # Len(said)
    <3>1. i \in DOMAIN turns /\ i \in 1 .. Len(turns)
      BY <2>2, <1>1, <1>2
    <3>2. i % 2 # 1 => i - 1 \in DOMAIN turns
      BY <3>1, <1>1
    <3> QED BY <3>1, <3>2, <1>3 DEF Alternates
  <2> QED BY <2>1, <2>2
<1> QED BY <1>2, <1>5, <1>6 DEF Question, Pending, Alternates

\* The reply to a question completes it.
LEMMA Replied ==
  ASSUME NEW turns, Question(turns)
  PROVE  /\ Alternates(Append(turns, <<"assistant", Last(turns)[2]>>))
         /\ ~Pending(Append(turns, <<"assistant", Last(turns)[2]>>))
<1> DEFINE line == <<"assistant", Last(turns)[2]>>
           said == Append(turns, line)
<1>1. turns \in Seq(Line) /\ Len(turns) % 2 = 1 /\ Len(turns) \in Nat
  BY DEF Question, Pending, Alternates
<1>2. Len(turns) \in DOMAIN turns /\ Last(turns) = turns[Len(turns)]
  BY <1>1 DEF Last
<1>3. line \in Line
  BY <1>1, <1>2 DEF Line
<1>4. said \in Seq(Line) /\ Len(said) = Len(turns) + 1 /\ said[Len(said)] = line
  BY <1>1, <1>3
<1>5. \A i \in DOMAIN turns : said[i] = turns[i]
  BY <1>1
<1>6. Len(said) % 2 = 0
  BY <1>1, <1>4
<1>7. ASSUME NEW i \in DOMAIN said
      PROVE  IF i % 2 = 1 THEN said[i][1] = "user" ELSE said[i] = <<"assistant", said[i - 1][2]>>
  <2>1. CASE i = Len(said)
    <3>1. i - 1 = Len(turns) /\ said[i - 1] = Last(turns)
      BY <2>1, <1>1, <1>2, <1>4, <1>5
    <3> QED BY <3>1, <2>1, <1>4, <1>6
  <2>2. CASE i # Len(said)
    <3>1. i \in DOMAIN turns /\ i \in 1 .. Len(turns)
      BY <2>2, <1>1, <1>4
    <3>2. i % 2 # 1 => i - 1 \in DOMAIN turns
      BY <3>1, <1>1
    <3> QED BY <3>1, <3>2, <1>5 DEF Question, Alternates
  <2> QED BY <2>1, <2>2
<1> QED BY <1>4, <1>6, <1>7 DEF Alternates, Pending

\* Without its question a conversation is what it was before.
LEMMA TakenBack ==
  ASSUME NEW turns, Question(turns)
  PROVE  Alternates(Front(turns)) /\ ~Pending(Front(turns))
<1>1. turns \in Seq(Line) /\ Len(turns) % 2 = 1 /\ Len(turns) \in Nat
  BY DEF Question, Pending, Alternates
<1>a. Len(turns) # 0 /\ Len(turns) - 1 \in Nat /\ (Len(turns) - 1) % 2 = 0
  BY <1>1
<1>2. /\ Front(turns) \in Seq(Line) /\ Len(Front(turns)) = Len(turns) - 1
      /\ \A i \in 1 .. Len(turns) - 1 : Front(turns)[i] = turns[i]
  <2>1. Front(turns) = SubSeq(turns, 1, Len(turns) - 1)
    BY DEF Front
  <2>2. Len(SubSeq(turns, 1, Len(turns) - 1)) = Len(turns) - 1
    <3> DEFINE last == Len(turns) - 1
    <3>1. last \in Nat /\ last <= Len(turns)
      BY <1>1, <1>a
    <3> HIDE DEF last
    <3>2. CASE last = 0
      BY <3>1, <3>2, <1>1 DEF last
    <3>3. CASE last # 0
      <4>1. 1 <= last /\ 1 \in Int /\ last \in Int
        BY <3>1, <3>3
      <4>2. Len(SubSeq(turns, 1, last)) = last
        BY <4>1, <3>1, <1>1, SMT
      <4> QED BY <4>2 DEF last
    <3> QED BY <3>2, <3>3
  <2>3. SubSeq(turns, 1, Len(turns) - 1) \in Seq(Line)
    BY <1>1, <1>a
  <2>4. \A i \in 1 .. Len(turns) - 1 : SubSeq(turns, 1, Len(turns) - 1)[i] = turns[i]
    BY <1>1, <1>a
  <2> QED BY <2>1, <2>2, <2>3, <2>4
<1>3. Len(Front(turns)) % 2 = 0
  BY <1>a, <1>2
<1>4. ASSUME NEW i \in DOMAIN Front(turns)
      PROVE  IF i % 2 = 1 THEN Front(turns)[i][1] = "user"
             ELSE Front(turns)[i] = <<"assistant", Front(turns)[i - 1][2]>>
  <2>1. i \in 1 .. Len(turns) - 1 /\ i \in DOMAIN turns
    BY <1>1, <1>2
  <2>2. i % 2 # 1 => i - 1 \in 1 .. Len(turns) - 1
    BY <2>1, <1>1
  <2> QED BY <2>1, <2>2, <1>2 DEF Question, Alternates
<1> QED BY <1>2, <1>3, <1>4 DEF Alternates, Pending

-----------------------------------------------------------------------------
(* The invariant holds at first and is kept by every step.                  *)

LEMMA EmptyTalk == Alternates(<<>>) /\ ~Pending(<<>>)
<1>1. <<>> \in Seq(Line) /\ Len(<<>>) = 0 /\ DOMAIN <<>> = {}
  OBVIOUS
<1> QED BY <1>1 DEF Alternates, Pending

LEMMA AtFirst == Init => Conversing
<1> SUFFICES ASSUME Init PROVE Conversing
  OBVIOUS
<1>1. Windows \in Nat
  BY TurnsOK
<1>2. opened \in Nat /\ win = 0 /\ sends = 0 /\ talk = <<>> /\ busy = FALSE /\ slot = NULL
  BY <1>1 DEF Init
<1>3. workers = [j \in Jobs |-> Idle]
  BY DEF Init
<1>4. Shape
  BY <1>2, <1>3 DEF Shape, IsWorker, Idle
<1>5. Talking
  BY <1>2, EmptyTalk, Zenon DEF Talking
<1>6. Working
  BY <1>2, <1>3 DEF Working, AtWork, Idle
<1> QED BY <1>4, <1>5, <1>6 DEF Conversing

LEMMA OpenKeeps == Conversing /\ Open => Conversing'
<1> SUFFICES ASSUME Conversing, Open PROVE Conversing'
  OBVIOUS
<1> USE DEF Conversing
<1>1. Shape'
  BY DEF Open, Shape, IsWorker
<1>2. Talking'
  BY EmptyTalk, Zenon DEF Open, Talking
<1>3. \A j \in Jobs : workers'[j].home # win'
  BY DEF Open, Shape
<1>4. Working'
  BY <1>3 DEF Open, Working, AtWork
<1> QED BY <1>1, <1>2, <1>4

LEMMA CloseKeeps == Conversing /\ Close => Conversing'
<1> SUFFICES ASSUME Conversing, Close PROVE Conversing'
  OBVIOUS
<1> USE DEF Conversing
<1>1. Shape'
  BY DEF Close, Shape, IsWorker
<1>2. Talking'
  BY EmptyTalk, Zenon DEF Close, Talking
<1>3. \A j \in Jobs : AtWork(j)' => workers'[j].home # win'
  BY DEF Close, Shape, AtWork
<1>4. Working'
  BY <1>3 DEF Close, Working
<1> QED BY <1>1, <1>2, <1>4

\* Nobody of this window is at work when it may send, so the new worker is the
\* only one.
LEMMA SendKeeps == Conversing /\ Send => Conversing'
<1> SUFFICES ASSUME Conversing, Send PROVE Conversing'
  OBVIOUS
<1> USE DEF Conversing
<1>1. PICK new \in Jobs : new = sends + 1
  BY TurnsOK DEF Send, MaySend, Shape, Jobs
<1> DEFINE started == [at |-> "starting", home |-> win, job |-> NULL, spent |-> Nothing]
<1>2. new \in Nat /\ win \in Nat /\ win # 0 /\ win = opened /\ ~busy
  BY <1>1 DEF Send, MaySend, Shape
<1>3. /\ sends' = new /\ talk' = Append(talk, <<"user", new>>) /\ busy' = TRUE
      /\ win' = win /\ opened' = opened
  BY <1>1 DEF Send
<1>4. slot' # NULL => slot'.turns = talk'
  BY DEF Send
<1>5. workers' = [j \in Jobs |-> IF j = new THEN started ELSE workers[j]]
  <2> DEFINE worker == [Idle EXCEPT !.at = "starting", !.home = win]
  <2>1. ASSUME NEW w, w = worker PROVE w = started
    BY <2>1 DEF Idle
  <2>2. workers' = [workers EXCEPT ![new] = worker]
    BY <1>1 DEF Send
  <2>3. workers = [j \in Jobs |-> workers[j]]
    BY DEF Shape
  <2> HIDE DEF started, worker
  <2>4. worker = started
    BY <2>1
  <2> QED BY <2>2, <2>3, <2>4
<1>6. Question(talk')
  BY <1>2, <1>3, Said DEF Talking
<1>7. Shape'
  BY <1>2, <1>3, <1>5 DEF Shape, IsWorker
<1>8. Talking'
  BY <1>3, <1>6 DEF Talking, Question
<1>9. ASSUME NEW j \in Jobs, AtWork(j)', workers'[j].home = win'
      PROVE  j = new
  BY <1>2, <1>3, <1>5, <1>9 DEF Working, AtWork, Own
<1>10. Own(new)'
  <2>1. workers'[new].at = "starting"
    BY <1>2, <1>5
  <2>2. busy' /\ new = sends'
    BY <1>3
  <2>3. slot' # NULL => slot'.turns = talk'
    BY <1>4
  <2>4. workers'[new].at # "starting" => workers'[new].job # NULL /\ workers'[new].job.turns = talk'
    BY <2>1
  <2> QED BY <2>2, <2>3, <2>4 DEF Own
<1>11. \A j \in Jobs : workers'[j].job # NULL => Question(workers'[j].job.turns)
  BY <1>5 DEF Working
<1>12. slot' # NULL => Question(slot'.turns)
  BY <1>4, <1>6
<1>13. ASSUME NEW j \in Jobs, AtWork(j)', workers'[j].home = win'
       PROVE  Own(j)'
  <2>1. j = new
    BY <1>9, <1>13
  <2> QED BY <2>1, <1>10
<1>14. Working'
  BY <1>11, <1>12, <1>13 DEF Working
<1> QED BY <1>7, <1>8, <1>14

\* A worker as a record, after it has moved on.
LEMMA MovedOn ==
  ASSUME NEW f, NEW j \in Jobs, NEW next, f = [i \in Jobs |-> f[i]], IsWorker(f[j])
  PROVE  [f EXCEPT ![j].at = next]
           = [i \in Jobs |-> IF i = j THEN [at |-> next, home |-> f[j].home,
                                            job |-> f[j].job, spent |-> f[j].spent]
                             ELSE f[i]]
<1> DEFINE g == [f EXCEPT ![j].at = next]
<1>1. DOMAIN f = Jobs
  OBVIOUS
<1>2. g = [i \in Jobs |-> IF i = j THEN [f[j] EXCEPT !.at = next] ELSE f[i]]
  BY <1>1
<1>3. [f[j] EXCEPT !.at = next] = [at |-> next, home |-> f[j].home, job |-> f[j].job, spent |-> f[j].spent]
  BY DEF IsWorker
<1> HIDE DEF g
<1>4. g = [i \in Jobs |-> IF i = j THEN [at |-> next, home |-> f[j].home,
                                         job |-> f[j].job, spent |-> f[j].spent] ELSE f[i]]
  BY <1>2, <1>3, Zenon
<1> QED BY <1>4 DEF g

LEMMA NowSpent ==
  ASSUME NEW w, IsWorker(w), NEW next, NEW spent, NEW now, now = [w EXCEPT !.at = next, !.spent = spent]
  PROVE  now = [at |-> next, home |-> w.home, job |-> w.job, spent |-> spent]
BY DEF IsWorker

LEMMA NowHasJob ==
  ASSUME NEW w, IsWorker(w), NEW next, NEW job, NEW now, now = [w EXCEPT !.at = next, !.job = job]
  PROVE  now = [at |-> next, home |-> w.home, job |-> job, spent |-> w.spent]
BY DEF IsWorker

\* Whoever takes the job of this window's worker leaves it none.
LEMMA TakeKeeps == ASSUME NEW j \in Jobs PROVE Conversing /\ Take(j) => Conversing'
<1> SUFFICES ASSUME Conversing, Take(j) PROVE Conversing'
  OBVIOUS
<1> USE DEF Conversing
<1> DEFINE next == IF slot = NULL THEN "ended" ELSE "sending"
           taken == [at |-> next, home |-> workers[j].home, job |-> slot, spent |-> workers[j].spent]
<1>1. /\ workers[j].at = "starting" /\ slot' = NULL
      /\ UNCHANGED <<win, opened, talk, busy, sends>>
  BY DEF Take, window
<1>2. workers' = [i \in Jobs |-> IF i = j THEN taken ELSE workers[i]]
  <2>1. IsWorker(workers[j]) /\ workers = [i \in Jobs |-> workers[i]]
    BY DEF Shape
  <2>2. workers' = [workers EXCEPT ![j].at = next, ![j].job = slot]
    BY DEF Take
  <2> DEFINE now == [workers[j] EXCEPT !.at = next, !.job = slot]
  <2>3. DOMAIN workers = Jobs
    BY <2>1
  <2> HIDE DEF next
  <2>4. workers' = [i \in Jobs |-> IF i = j THEN now ELSE workers[i]]
    BY <2>1, <2>2, <2>3
  <2> HIDE DEF now
  <2>5. now = [at |-> next, home |-> workers[j].home, job |-> slot, spent |-> workers[j].spent]
    BY <2>1, NowHasJob DEF now
  <2> QED BY <2>4, <2>5, Zenon
<1>3. Shape'
  BY <1>1, <1>2 DEF Shape, IsWorker
<1>4. Talking'
  BY <1>1 DEF Talking
<1>5. \A i \in Jobs : workers'[i].job # NULL => Question(workers'[i].job.turns)
  BY <1>2 DEF Working
<1>6. ASSUME NEW i \in Jobs, AtWork(i)', workers'[i].home = win'
      PROVE  Own(i)'
  <2>1. AtWork(i) /\ workers[i].home = win
    BY <1>1, <1>2, <1>6 DEF AtWork
  <2>2. Own(i)
    BY <2>1 DEF Working
  <2>3. CASE i = j
    <3>1. slot # NULL /\ workers'[i].at = "sending" /\ workers'[i].job = slot
      BY <2>3, <1>2, <1>6 DEF AtWork
    <3> QED BY <3>1, <2>2, <2>3, <1>1 DEF Own
  <2>4. CASE i # j
    <3>1. workers'[i] = workers[i]
      BY <2>4, <1>2
    <3> QED BY <3>1, <2>2, <1>1 DEF Own
  <2> QED BY <2>3, <2>4
<1>7. Working'
  BY <1>1, <1>5, <1>6 DEF Working
<1> QED BY <1>3, <1>4, <1>7

\* A worker goes on with its job, and the window does not see it.
Advanced(j, next, spent) ==
  [i \in Jobs |-> IF i = j
                  THEN [at |-> next, home |-> workers[j].home, job |-> workers[j].job, spent |-> spent]
                  ELSE workers[i]]

GoesOn(j, next, spent) ==
  /\ workers[j].at \in {"sending", "replied", "recorded"}
  /\ next \in {"replied", "failing", "recorded", "notifying"}
  /\ workers' = Advanced(j, next, spent)
  /\ UNCHANGED <<win, opened, talk, busy, sends, slot>>

LEMMA GoingOnKeeps ==
  ASSUME NEW j \in Jobs
  PROVE  Conversing /\ (\E next, spent : GoesOn(j, next, spent)) => Conversing'
<1> SUFFICES ASSUME Conversing, NEW next, NEW spent, GoesOn(j, next, spent)
             PROVE  Conversing'
  OBVIOUS
<1> USE DEF Conversing
<1>1. /\ next \in {"replied", "failing", "recorded", "notifying"}
      /\ workers' = [i \in Jobs |-> IF i = j
                                    THEN [at |-> next, home |-> workers[j].home,
                                          job |-> workers[j].job, spent |-> spent]
                                    ELSE workers[i]]
  BY DEF GoesOn, Advanced
<1>2. /\ workers[j].at \in {"sending", "replied", "recorded"}
      /\ UNCHANGED <<win, opened, talk, busy, sends, slot>>
  BY DEF GoesOn
<1>3. \A i \in Jobs : /\ workers'[i].job = workers[i].job /\ workers'[i].home = workers[i].home
                      /\ i # j => workers'[i] = workers[i]
  BY <1>1
<1>4. workers'[j].at \notin {"unused", "starting", "ended"}
  BY <1>1
<1>5. Shape'
  BY <1>1, <1>2 DEF Shape, IsWorker
<1>6. Talking'
  BY <1>2 DEF Talking
<1>7. \A i \in Jobs : AtWork(i)' => AtWork(i)
  BY <1>2, <1>3 DEF AtWork
<1>8. \A i \in Jobs : Own(i) => Own(i)'
  BY <1>2, <1>3, <1>4 DEF Own
<1>9. Working'
  BY <1>2, <1>3, <1>7, <1>8 DEF Working
<1> QED BY <1>5, <1>6, <1>9

LEMMA WorkersGoOn ==
  ASSUME NEW j \in Jobs, Shape, Reply(j) \/ RecordTurn(j) \/ UpdateChatRow(j)
  PROVE  \E next, spent : GoesOn(j, next, spent)
<1>1. IsWorker(workers[j]) /\ workers = [i \in Jobs |-> workers[i]]
  BY DEF Shape
<1>2. CASE Reply(j)
  <2>1. \/ \E spent : workers' = [workers EXCEPT ![j].at = "replied", ![j].spent = spent]
        \/ workers' = [workers EXCEPT ![j].at = "failing"]
    BY <1>2 DEF Reply
  <2>2. /\ workers[j].at = "sending"
        /\ UNCHANGED <<win, opened, talk, busy, sends, slot>>
    BY <1>2 DEF Reply, window
  <2>3. CASE workers' = [workers EXCEPT ![j].at = "failing"]
    <3>1. workers' = Advanced(j, "failing", workers[j].spent)
      BY <2>3, <1>1, MovedOn DEF Advanced
    <3>2. GoesOn(j, "failing", workers[j].spent)
      BY <2>2, <3>1 DEF GoesOn
    <3> QED BY <3>2
  <2>4. CASE \E spent : workers' = [workers EXCEPT ![j].at = "replied", ![j].spent = spent]
    <3>1. PICK spent : workers' = [workers EXCEPT ![j].at = "replied", ![j].spent = spent]
      BY <2>4
    <3>2. workers' = Advanced(j, "replied", spent)
      <4> DEFINE now == [workers[j] EXCEPT !.at = "replied", !.spent = spent]
      <4>1. DOMAIN workers = Jobs
        BY <1>1
      <4>2. workers' = [i \in Jobs |-> IF i = j THEN now ELSE workers[i]]
        BY <1>1, <3>1, <4>1
      <4> HIDE DEF now
      <4>3. now = [at |-> "replied", home |-> workers[j].home, job |-> workers[j].job, spent |-> spent]
        BY <1>1, NowSpent DEF now
      <4> QED BY <4>2, <4>3, Zenon DEF Advanced
    <3>3. GoesOn(j, "replied", spent)
      BY <2>2, <3>2 DEF GoesOn
    <3> QED BY <3>3
  <2> QED BY <2>1, <2>3, <2>4
<1>3. CASE RecordTurn(j)
  <2>1. /\ workers[j].at = "replied" /\ workers' = [workers EXCEPT ![j].at = "recorded"]
        /\ UNCHANGED <<win, opened, talk, busy, sends, slot>>
    BY <1>3 DEF RecordTurn, window
  <2>2. workers' = Advanced(j, "recorded", workers[j].spent)
    BY <2>1, <1>1, MovedOn DEF Advanced
  <2>3. GoesOn(j, "recorded", workers[j].spent)
    BY <2>1, <2>2 DEF GoesOn
  <2> QED BY <2>3
<1>4. CASE UpdateChatRow(j)
  <2>1. /\ workers[j].at = "recorded" /\ workers' = [workers EXCEPT ![j].at = "notifying"]
        /\ UNCHANGED <<win, opened, talk, busy, sends, slot>>
    BY <1>4 DEF UpdateChatRow, window
  <2>2. workers' = Advanced(j, "notifying", workers[j].spent)
    BY <2>1, <1>1, MovedOn DEF Advanced
  <2>3. GoesOn(j, "notifying", workers[j].spent)
    BY <2>1, <2>2 DEF GoesOn
  <2> QED BY <2>3
<1> QED BY <1>2, <1>3, <1>4

\* A worker that finds its window gone ends; one that finds it is the only one
\* of that window, and its job is the conversation.
LEMMA DeliverKeeps == ASSUME NEW j \in Jobs PROVE Conversing /\ Deliver(j) => Conversing'
<1> SUFFICES ASSUME Conversing, Deliver(j) PROVE Conversing'
  OBVIOUS
<1> USE DEF Conversing
<1> DEFINE w == workers[j]
<1>1. w.at \in {"notifying", "failing"} /\ UNCHANGED <<win, opened, sends, slot>>
  BY DEF Deliver
<1>2. workers' = [i \in Jobs |-> IF i = j
                                 THEN [at |-> "ended", home |-> w.home, job |-> w.job, spent |-> w.spent]
                                 ELSE workers[i]]
  <2>1. IsWorker(w) /\ workers = [i \in Jobs |-> workers[i]]
    BY DEF Shape
  <2>2. workers' = [workers EXCEPT ![j].at = "ended"]
    BY DEF Deliver
  <2> QED BY <2>1, <2>2 DEF IsWorker
<1>3. Shape'
  BY <1>1, <1>2 DEF Shape, IsWorker
<1>4. \A i \in Jobs : workers'[i].job # NULL => Question(workers'[i].job.turns)
  BY <1>2 DEF Working
<1>5. \A i \in Jobs : AtWork(i)' => i # j /\ AtWork(i) /\ workers'[i] = workers[i]
  BY <1>2 DEF AtWork
<1>6. CASE w.home # win
  <2>1. talk' = talk /\ busy' = busy
    BY <1>6 DEF Deliver
  <2>2. Talking'
    BY <2>1 DEF Talking
  <2>3. \A i \in Jobs : AtWork(i)' /\ workers'[i].home = win' => Own(i)'
    BY <1>1, <1>5, <2>1 DEF Working, Own
  <2> QED BY <1>1, <1>3, <1>4, <2>2, <2>3 DEF Working
<1>7. CASE w.home = win
  <2>1. AtWork(j)
    BY <1>1 DEF AtWork
  <2>2. Own(j)
    BY <2>1, <1>7 DEF Working
  <2>3. w.job # NULL /\ w.job.turns = talk /\ Question(talk)
    BY <2>2, <1>1 DEF Own, Working
  <2>4. /\ busy' = FALSE
        /\ \/ talk' = Front(talk)
           \/ talk' = Append(talk, <<"assistant", Last(talk)[2]>>)
    BY <1>7, <2>3 DEF Deliver, BusyAfter
  <2>5. Alternates(talk') /\ ~Pending(talk')
    BY <2>3, <2>4, TakenBack, Replied
  <2>6. Talking'
    BY <2>4, <2>5, Zenon DEF Talking
  <2>7. \A i \in Jobs : ~(AtWork(i)' /\ workers'[i].home = win')
    BY <2>2, <1>1, <1>5 DEF Working, Own
  <2> QED BY <1>1, <1>3, <1>4, <2>6, <2>7 DEF Working
<1> QED BY <1>6, <1>7

\* What the others do is not about the chat.
LEMMA ElsewhereKeeps == Conversing /\ UNCHANGED chat => Conversing'
<1> SUFFICES ASSUME Conversing, UNCHANGED chat PROVE Conversing'
  OBVIOUS
<1> QED BY DEF Conversing, Shape, IsWorker, Talking, Working, AtWork, Own, chat, window

LEMMA Elsewhere ==
  ASSUME AgentNext \/ CliNext \/ (\E p \in Called : Probe(p) \/ Generate(p))
  PROVE  UNCHANGED chat
<1>1. CASE AgentNext
  BY <1>1 DEF AgentNext, Top, SkipCompaction, Compact, Ask, Migrate, Fail, RecordCall,
              UpdateRow, RunTools, ToolPanics, Nudge, Done
<1>2. CASE CliNext
  BY <1>2 DEF CliNext, CliWorker, Launch, TakeTask, CliRow, CliEntry, Finished
<1>3. CASE \E p \in Called : Probe(p) \/ Generate(p)
  BY <1>3 DEF Probe, Generate
<1> QED BY <1>1, <1>2, <1>3

LEMMA StepKeeps == Conversing /\ [Next]_vars => Conversing'
<1> SUFFICES ASSUME Conversing, [Next]_vars PROVE Conversing'
  OBVIOUS
<1>1. CASE Open \/ Close \/ Send
  BY <1>1, OpenKeeps, CloseKeeps, SendKeeps
<1>2. ASSUME NEW j \in Jobs, Worker(j)
      PROVE  Conversing'
  <2>1. CASE Take(j) \/ Deliver(j)
    BY <2>1, TakeKeeps, DeliverKeeps
  <2>2. CASE Reply(j) \/ RecordTurn(j) \/ UpdateChatRow(j)
    BY <2>2, WorkersGoOn, GoingOnKeeps DEF Conversing
  <2> QED BY <1>2, <2>1, <2>2 DEF Worker
<1>3. CASE AgentNext \/ CliNext \/ (\E p \in Called : Probe(p) \/ Generate(p))
  BY <1>3, Elsewhere, ElsewhereKeeps
<1>4. CASE UNCHANGED vars
  BY <1>4, ElsewhereKeeps DEF vars
<1> QED BY <1>1, <1>2, <1>3, <1>4 DEF Next, ChatNext

-----------------------------------------------------------------------------
\* Every request that a worker of quick_chat.rs holds alternates, ends with a
\* question and has each question followed by the reply to it, however many
\* windows are opened and closed while workers are at work.
THEOREM RequestsAlternate == Spec => []TurnsAlternate
<1>1. Init => Conversing
  BY AtFirst
<1>2. Conversing /\ [Next]_vars => Conversing'
  BY StepKeeps
<1>3. Conversing => TurnsAlternate
  <2> SUFFICES ASSUME Conversing, NEW j \in Jobs, workers[j].job # NULL
               PROVE  /\ Len(workers[j].job.turns) % 2 = 1
                      /\ \A i \in DOMAIN workers[j].job.turns :
                           IF i % 2 = 1 THEN workers[j].job.turns[i][1] = "user"
                           ELSE workers[j].job.turns[i] = <<"assistant", workers[j].job.turns[i - 1][2]>>
    BY DEF TurnsAlternate
  <2>1. Question(workers[j].job.turns)
    BY DEF Conversing, Working
  <2> QED BY <2>1 DEF Question, Pending, Alternates
<1> QED BY <1>1, <1>2, <1>3, PTL DEF Spec

-----------------------------------------------------------------------------
(* Sums.  SumFunction takes the elements of its domain away one by one; the *)
(* running sum of a finite set exists, and what holds of all of them is     *)
(* shown by taking a smallest set of which it would not hold.               *)

\* An element of a set, the one a sum takes away first.
One(s) == CHOOSE x \in s : TRUE
Adds(f, sets, g) ==
  g = [s \in sets |-> IF s = {} THEN 0 ELSE f[One(s)] + g[s \ {One(s)}]]
Running(f) == CHOOSE g : Adds(f, SUBSET DOMAIN f, g)

LEMMA SumIsRunning == ASSUME NEW f PROVE SumFunction(f) = Running(f)[DOMAIN f]
BY DEF SumFunction, SumFunctionOnSet, FoldFunctionOnSet, MapThenFoldSet, Running, Adds, One

\* There is no smallest counterexample.
LEMMA SmallestSet ==
  ASSUME NEW S, IsFiniteSet(S), NEW Bad \in SUBSET (SUBSET S), Bad # {}
  PROVE  \E T \in Bad : \A x \in T : T \ {x} \notin Bad
<1>1. Bad \subseteq FiniteSubsetsOf(S)
  BY FS_FiniteSubsetsOfFinite
<1>2. PICK T \in Bad : \A U \in Bad : <<U, T>> \notin StrictSubsetOrdering(S)
  BY <1>1, FS_StrictSubsetOrderingWellFounded, WFMin
<1>3. \A x \in T : T \ {x} \notin Bad
  <2> SUFFICES ASSUME NEW x \in T, T \ {x} \in Bad PROVE FALSE
    OBVIOUS
  <2>1. <<T \ {x}, T>> \in StrictSubsetOrdering(S)
    BY DEF StrictSubsetOrdering
  <2> QED BY <2>1, <1>2
<1> QED BY <1>3

Small(S, n) == {s \in SUBSET S : Cardinality(s) <= n}

LEMMA SmallestNumber ==
  ASSUME NEW Bad \in SUBSET Nat, Bad # {}
  PROVE  \E n \in Bad : n - 1 \notin Bad
<1>1. PICK n \in Bad : \A m \in Bad : <<m, n>> \notin OpToRel(<, Nat)
  BY NatLessThanWellFounded, WFMin
<1>2. ASSUME n - 1 \in Bad PROVE FALSE
  <2>1. <<n - 1, n>> \in OpToRel(<, Nat)
    BY <1>2 DEF OpToRel
  <2> QED BY <2>1, <1>1, <1>2
<1> QED BY <1>2

\* Running sums exist.
LEMMA SumsExist ==
  ASSUME NEW f, IsFiniteSet(DOMAIN f)
  PROVE  Adds(f, SUBSET DOMAIN f, Running(f))
<1> DEFINE S == DOMAIN f
           Bad == {n \in Nat : ~ \E g : Adds(f, Small(S, n), g)}
<1>1. \A s \in SUBSET S : IsFiniteSet(s) /\ Cardinality(s) \in Nat /\ Cardinality(s) <= Cardinality(S)
  BY FS_Subset, FS_CardinalityType
<1>2. ASSUME NEW n \in Bad, n - 1 \notin Bad PROVE FALSE
  <2>1. PICK g : n = 0 \/ Adds(f, Small(S, n - 1), g)
    BY <1>2
  <2> DEFINE h == [s \in Small(S, n) |-> IF s = {} THEN 0 ELSE f[One(s)] + g[s \ {One(s)}]]
  <2>2. ASSUME NEW s \in Small(S, n), s # {}
        PROVE  h[s \ {One(s)}] = g[s \ {One(s)}]
    <3>1. One(s) \in s
      BY <2>2 DEF One
    <3>2. IsFiniteSet(s) /\ s \in SUBSET S /\ Cardinality(s) \in Nat /\ Cardinality(s) <= n
      BY <1>1 DEF Small
    <3>3. Cardinality(s) # 0
      BY <3>2, <2>2, FS_EmptySet
    <3>4. Cardinality(s \ {One(s)}) = Cardinality(s) - 1
      BY <3>1, <3>2, FS_RemoveElement
    <3>5. s \ {One(s)} \in Small(S, n - 1) /\ s \ {One(s)} \in Small(S, n) /\ n # 0
      BY <3>2, <3>3, <3>4 DEF Small
    <3>6. Adds(f, Small(S, n - 1), g)
      BY <3>5, <2>1
    <3> DEFINE t == s \ {One(s)}
    <3>7. g[t] = IF t = {} THEN 0 ELSE f[One(t)] + g[t \ {One(t)}]
      BY <3>5, <3>6 DEF Adds
    <3>8. h[t] = IF t = {} THEN 0 ELSE f[One(t)] + g[t \ {One(t)}]
      BY <3>5
    <3> QED BY <3>7, <3>8
  <2>3. h = [s \in Small(S, n) |-> IF s = {} THEN 0 ELSE f[One(s)] + h[s \ {One(s)}]]
    <3> HIDE DEF h
    <3>1. \A s \in Small(S, n) : s # {} => h[s \ {One(s)}] = g[s \ {One(s)}]
      BY <2>2
    <3>2. h = [s \in Small(S, n) |-> IF s = {} THEN 0 ELSE f[One(s)] + g[s \ {One(s)}]]
      BY DEF h
    <3> QED BY <3>1, <3>2
  <2>4. Adds(f, Small(S, n), h)
    BY <2>3 DEF Adds
  <2> QED BY <2>4
<1>3. Bad = {}
  BY <1>2, SmallestNumber
<1>4. Cardinality(S) \in Nat
  BY FS_CardinalityType
<1>5. Small(S, Cardinality(S)) = SUBSET S
  BY <1>1 DEF Small
<1>6. \E g : Adds(f, SUBSET S, g)
  BY <1>3, <1>4, <1>5
<1> QED BY <1>6 DEF Running

LEMMA RunningSum ==
  ASSUME NEW f, IsFiniteSet(DOMAIN f), NEW s \in SUBSET DOMAIN f
  PROVE  Running(f)[s] = IF s = {} THEN 0 ELSE f[One(s)] + Running(f)[s \ {One(s)}]
BY SumsExist DEF Adds

\* A sum of numbers is one.
LEMMA SumIsInteger ==
  ASSUME NEW S, IsFiniteSet(S), NEW f \in [S -> Int]
  PROVE  SumFunction(f) \in Int
<1> DEFINE Bad == {s \in SUBSET S : Running(f)[s] \notin Int}
<1>1. ASSUME NEW s \in Bad, \A x \in s : s \ {x} \notin Bad PROVE FALSE
  <2>1. Running(f)[s] = IF s = {} THEN 0 ELSE f[One(s)] + Running(f)[s \ {One(s)}]
    BY RunningSum
  <2>2. s # {} => One(s) \in s
    BY DEF One
  <2>3. s # {} => f[One(s)] \in Int /\ Running(f)[s \ {One(s)}] \in Int
    BY <1>1, <2>2
  <2> QED BY <2>1, <2>3
<1>2. Bad = {}
  BY <1>1, SmallestSet
<1> QED BY <1>2, SumIsRunning

LEMMA SumOfZeros ==
  ASSUME NEW S, IsFiniteSet(S), NEW f, DOMAIN f = S, \A x \in S : f[x] = 0
  PROVE  SumFunction(f) = 0
<1> DEFINE Bad == {s \in SUBSET S : Running(f)[s] # 0}
<1>1. ASSUME NEW s \in Bad, \A x \in s : s \ {x} \notin Bad PROVE FALSE
  <2>1. Running(f)[s] = IF s = {} THEN 0 ELSE f[One(s)] + Running(f)[s \ {One(s)}]
    BY RunningSum
  <2>2. s # {} => One(s) \in s
    BY DEF One
  <2>3. s # {} => f[One(s)] = 0 /\ Running(f)[s \ {One(s)}] = 0
    BY <1>1, <2>2
  <2> QED BY <2>1, <2>3
<1>2. Bad = {}
  BY <1>1, SmallestSet
<1> QED BY <1>2, SumIsRunning

\* When a function changes at one place, its sum changes by as much.
LEMMA SumMoves ==
  ASSUME NEW S, IsFiniteSet(S), NEW f \in [S -> Int], NEW g \in [S -> Int],
         NEW x \in S, NEW d \in Int, g[x] = f[x] + d, \A y \in S \ {x} : g[y] = f[y]
  PROVE  SumFunction(g) = SumFunction(f) + d
<1> DEFINE Bad == {s \in SUBSET S : ~ /\ Running(f)[s] \in Int
                                      /\ Running(g)[s] = Running(f)[s] + (IF x \in s THEN d ELSE 0)}
<1>1. ASSUME NEW s \in Bad, \A y \in s : s \ {y} \notin Bad PROVE FALSE
  <2>1. /\ Running(f)[s] = IF s = {} THEN 0 ELSE f[One(s)] + Running(f)[s \ {One(s)}]
        /\ Running(g)[s] = IF s = {} THEN 0 ELSE g[One(s)] + Running(g)[s \ {One(s)}]
    BY RunningSum
  <2>2. s # {} => One(s) \in s
    BY DEF One
  <2>3. s # {}
    BY <2>1
  <2> DEFINE y == One(s)
             t == s \ {y}
  <2>4. y \in s /\ y \in S
    BY <2>2, <2>3
  <2>5. /\ Running(f)[t] \in Int
        /\ Running(g)[t] = Running(f)[t] + (IF x \in t THEN d ELSE 0)
    BY <1>1, <2>4
  <2>6. Running(f)[s] = f[y] + Running(f)[t] /\ Running(g)[s] = g[y] + Running(g)[t]
    BY <2>1, <2>3
  <2>7. CASE x = y
    <3>1. x \notin t /\ x \in s
      BY <2>7, <2>4
    <3> HIDE DEF y, t
    <3> QED BY <2>5, <2>6, <2>7, <3>1
  <2>8. CASE x # y
    <3>1. x \in t <=> x \in s
      BY <2>8
    <3>2. g[y] = f[y]
      BY <2>8, <2>4
    <3>3. f[y] \in Int
      BY <2>4
    <3> HIDE DEF y, t
    <3> QED BY <2>5, <2>6, <3>1, <3>2, <3>3
  <2> QED BY <2>7, <2>8
<1>2. Bad = {}
  BY <1>1, SmallestSet
<1>3. /\ SumFunction(g) = Running(g)[S] /\ SumFunction(f) = Running(f)[S]
  BY SumIsRunning
<1> QED BY <1>2, <1>3

-----------------------------------------------------------------------------
(* Tokens.                                                                 *)

Tokens == [input : Nat, read : Nat, five : Nat, hour : Nat, output : Nat]
Money == [tokens : Int, cost : Int]

\* What a format's parser makes of a report.
Meant(api, u) == CASE api = "openai"    -> OpenAiTokens(u)
                   [] api = "ollama"    -> OllamaTokens(u)
                   [] api = "anthropic" -> AnthropicTokens(u)

LEMMA MeantIsTokens ==
  ASSUME NEW api \in {"openai", "anthropic", "ollama"}, NEW u \in Reports
  PROVE  Meant(api, u) \in Tokens
<1>1. \A n \in Counts : Or(n, 0) \in Nat
  BY DEF Counts, Or, Absent
<1>2. /\ Or(u.input, 0) \in Nat /\ Or(u.read, 0) \in Nat /\ Or(u.written, 0) \in Nat
      /\ Or(u.five, 0) \in Nat /\ Or(u.hour, 0) \in Nat /\ Or(u.output, 0) \in Nat
  BY <1>1 DEF Reports
<1>3. OpenAiTokens(u) \in Tokens
  BY <1>2 DEF OpenAiTokens, Tokens, Lesser
<1>4. OllamaTokens(u) \in Tokens
  BY <1>2 DEF OllamaTokens, Tokens
<1>5. AnthropicTokens(u) \in Tokens
  BY <1>2 DEF AnthropicTokens, Tokens
<1> QED BY <1>3, <1>4, <1>5 DEF Meant

LEMMA NoTokensAreTokens == NoTokens \in Tokens
BY DEF NoTokens, Tokens

\* Whatever comes back, read for a call with tools or without.
LEMMA ReadBack ==
  ASSUME NEW p \in Called, NEW r \in Replies[Api[p]], NEW turn
  PROVE  /\ PlainChat(Api[p], r).tokens \in Tokens
         /\ ChatTools(Api[p], r, turn).tokens \in Tokens
         /\ ChatTools(Api[p], r, turn).error = "" =>
              ChatTools(Api[p], r, turn).tokens = Meant(Api[p], r.usage)
<1>1. Api[p] \in {"openai", "anthropic", "ollama"} /\ r.usage \in Reports
  BY TurnsOK
<1>2. Meant(Api[p], r.usage) \in Tokens
  BY <1>1, MeantIsTokens
<1>3. r.http \in {"ok", "busy", "refused", "unsent"}
  BY TurnsOK
<1>4. \A why : Failed(why).tokens \in Tokens /\ Failed(why).error = why
  BY NoTokensAreTokens DEF Failed
<1>5. \A text, calls, tokens : Parsed(text, calls, tokens).tokens = tokens
  BY DEF Parsed
<1>6. \A parsed : \/ Received(r, parsed) = parsed
                  \/ Received(r, parsed) = Failed("parse")
                  \/ Received(r, parsed) = Failed(r.http) /\ r.http # "ok"
  BY DEF Received
<1> DEFINE Fits(reply) == /\ reply.tokens \in Tokens
                          /\ reply.error = "" => reply.tokens = Meant(Api[p], r.usage)
<1>7. Fits(Failed("parse"))
  BY <1>4
<1>8. \A parsed : Fits(parsed) => Fits(Received(r, parsed))
  BY <1>4, <1>6, <1>3
<1>9. \A text, calls : Fits(Parsed(text, calls, Meant(Api[p], r.usage)))
  BY <1>2, <1>5
<1>10. \A text, calls : Fits(Received(r, Parsed(text, calls, Meant(Api[p], r.usage))))
  BY <1>8, <1>9
<1>11. Fits(ChatTools(Api[p], r, turn))
  <2>1. CASE Api[p] = "openai"
    BY <2>1, <1>10 DEF ChatTools, OpenAiChatTools, OpenAiToolsReply, Meant
  <2>2. CASE Api[p] = "ollama"
    BY <2>2, <1>10 DEF ChatTools, OllamaChatTools, OllamaToolsReply, Meant
  <2>3. CASE Api[p] = "anthropic"
    BY <2>3, <1>10 DEF ChatTools, AnthropicChatTools, AnthropicToolsReply, Meant
  <2> QED BY <1>1, <2>1, <2>2, <2>3
<1>12. Fits(PlainChat(Api[p], r))
  <2>1. CASE Api[p] = "openai"
    BY <2>1, <1>10 DEF PlainChat, OpenAiChat, OpenAiReply, Meant
  <2>2. CASE Api[p] = "ollama"
    BY <2>2, <1>10 DEF PlainChat, OllamaChat, OllamaReply, Meant
  <2>3. CASE Api[p] = "anthropic"
    <3>1. PlainChat(Api[p], r) = Received(r, AnthropicReply(r))
      BY <2>3 DEF PlainChat, AnthropicChat
    <3>2. \/ AnthropicReply(r) = Failed("parse")
          \/ AnthropicReply(r) = Parsed(r.text, <<>>, Meant(Api[p], r.usage))
      BY <2>3 DEF AnthropicReply, Meant
    <3> HIDE DEF Fits
    <3>3. Fits(AnthropicReply(r))
      BY <3>2, <1>7, <1>9
    <3> QED BY <3>1, <3>3, <1>8
  <2> QED BY <1>1, <2>1, <2>2, <2>3
<1> QED BY <1>11, <1>12

\* The buckets of Price::cost are whole counts ...
LEMMA BucketsCount ==
  ASSUME NEW t \in Tokens
  PROVE  Buckets(t) \in [fresh : Nat, read : Nat, five : Nat, hour : Nat]
BY DEF Buckets, FreshInput, Less, Lesser, Tokens

\* ... and share out what the server counted.
LEMMA BucketsShareOut ==
  ASSUME NEW p \in Called, NEW r \in Replies[Api[p]], NEW b, b = Buckets(Meant(Api[p], r.usage))
  PROVE  b.fresh + b.read + b.five + b.hour = PromptTokens(Api[p], r.usage)
<1> DEFINE u == r.usage
           t == Meant(Api[p], u)
<1>1. Api[p] \in {"openai", "anthropic", "ollama"} /\ u \in Reports
  BY TurnsOK
<1>2. \A n \in Counts : Or(n, 0) \in Nat
  BY DEF Counts, Or, Absent
<1>3. /\ Or(u.input, 0) \in Nat /\ Or(u.read, 0) \in Nat /\ Or(u.written, 0) \in Nat
      /\ Or(u.five, 0) \in Nat /\ Or(u.hour, 0) \in Nat
  BY <1>1, <1>2 DEF Reports
<1>4. /\ b.fresh = Less(Less(Less(t.input, t.read), t.five), t.hour)
      /\ b.read = Lesser(t.read, t.input)
      /\ b.five = Lesser(t.five, t.input) /\ b.hour = Lesser(t.hour, t.input)
  BY DEF Buckets, FreshInput
<1>5. ASSUME t.read \in Nat, t.five \in Nat, t.hour \in Nat, t.input \in Nat,
             t.read + t.five + t.hour <= t.input
      PROVE  b.fresh + b.read + b.five + b.hour = t.input
  <2> HIDE DEF t, u
  <2> QED BY <1>4, <1>5 DEF Less, Lesser
<1>6. CASE Api[p] = "openai"
  <2>1. /\ t.input = Or(u.input, 0) /\ t.five = 0 /\ t.hour = 0
        /\ t.read = Lesser(Or(u.read, 0), Or(u.input, 0))
    BY <1>6 DEF Meant, OpenAiTokens
  <2>2. t.read \in Nat /\ t.read <= t.input
    BY <2>1, <1>3 DEF Lesser
  <2>3. PromptTokens(Api[p], u) = t.input
    BY <1>6, <2>1 DEF PromptTokens
  <2> HIDE DEF t, u
  <2>4. b.fresh + b.read + b.five + b.hour = t.input
    BY <2>1, <2>2, <1>3, <1>5
  <2> QED BY <2>3, <2>4 DEF u
<1>7. CASE Api[p] = "ollama"
  <2>1. t.input = Or(u.input, 0) /\ t.five = 0 /\ t.hour = 0 /\ t.read = 0
    BY <1>7 DEF Meant, OllamaTokens
  <2>2. PromptTokens(Api[p], u) = t.input
    BY <1>7, <2>1 DEF PromptTokens
  <2> HIDE DEF t, u
  <2>3. b.fresh + b.read + b.five + b.hour = t.input
    BY <2>1, <1>3, <1>5
  <2> QED BY <2>2, <2>3 DEF u
<1>8. CASE Api[p] = "anthropic"
  <2>1. /\ t.input = Or(u.input, 0) + Or(u.read, 0) + t.five + t.hour /\ t.read = Or(u.read, 0)
        /\ t.five = IF u.five = Absent /\ u.hour = Absent THEN Or(u.written, 0) ELSE Or(u.five, 0)
        /\ t.hour = IF u.five = Absent /\ u.hour = Absent THEN 0 ELSE Or(u.hour, 0)
    BY <1>8 DEF Meant, AnthropicTokens
  <2>2. t.five \in Nat /\ t.hour \in Nat /\ t.five + t.hour = Or(u.written, 0)
    <3>1. u.five # Absent \/ u.hour # Absent => Or(u.written, 0) = Or(u.five, 0) + Or(u.hour, 0)
      BY <1>8, TurnsOK
    <3> HIDE DEF t, u
    <3> QED BY <2>1, <3>1, <1>3
  <2>3. PromptTokens(Api[p], u) = Or(u.input, 0) + Or(u.read, 0) + Or(u.written, 0)
    BY <1>8 DEF PromptTokens
  <2> HIDE DEF t, u
  <2>4. t.input = Or(u.input, 0) + Or(u.read, 0) + Or(u.written, 0) /\ t.input \in Nat
    BY <2>1, <2>2, <1>3
  <2>5. b.fresh + b.read + b.five + b.hour = t.input
    <3>1. t.read \in Nat /\ t.read + t.five + t.hour <= t.input
      BY <2>1, <2>2, <1>3
    <3> QED BY <3>1, <2>2, <2>4, <1>5
  <2> QED BY <2>3, <2>4, <2>5 DEF u
<1> QED BY <1>1, <1>6, <1>7, <1>8

\* What a call costs is a number.
LEMMA SpentIsMoney ==
  ASSUME NEW p \in Providers, NEW t \in Tokens
  PROVE  Spent(p, t) \in Money
<1>1. Buckets(t) \in [fresh : Nat, read : Nat, five : Nat, hour : Nat]
  BY BucketsCount
<1>2. Rates[p] \in [input : Int, output : Int, read : Int, five : Int, hour : Int]
  BY TurnsOK
<1> DEFINE b == Buckets(t)
           rates == Rates[p]
<1>3. /\ rates.input \in Int /\ rates.output \in Int /\ Or(rates.read, rates.input) \in Int
      /\ Or(rates.five, rates.input) \in Int /\ Or(rates.hour, rates.input) \in Int
  BY <1>2 DEF Or
<1>4. b.fresh \in Int /\ b.read \in Int /\ b.five \in Int /\ b.hour \in Int /\ t.output \in Int
  BY <1>1 DEF Tokens
<1>5. \A m, n \in Int : m * n \in Int
  OBVIOUS
<1>6. \A m, n \in Int : m + n \in Int
  OBVIOUS
<1>7. Cost(Kind[p], rates, t) \in Int
  <2>1. \/ Cost(Kind[p], rates, t) = 0
        \/ Cost(Kind[p], rates, t)
              = b.fresh * rates.input + b.read * Or(rates.read, rates.input)
                + b.five * Or(rates.five, rates.input) + b.hour * Or(rates.hour, rates.input)
                + t.output * rates.output
    BY DEF Cost
  <2> HIDE DEF b, rates
  <2> QED BY <2>1, <1>3, <1>4, <1>5, <1>6
<1>8. t.input + t.output \in Int
  BY DEF Tokens
<1> HIDE DEF rates
<1> QED BY <1>7, <1>8 DEF Spent, Money, rates

LEMMA CliSpends == Spent(Cli, CliTokens) \in Money /\ Spent(Cli, CliTokens).tokens = 2
<1>1. CliTokens \in Tokens
  BY DEF CliTokens, Tokens
<1>2. Spent(Cli, CliTokens) \in Money
  BY <1>1, SpentIsMoney, TurnsOK
<1>3. Spent(Cli, CliTokens).tokens = 2
  BY DEF Spent, CliTokens
<1> QED BY <1>2, <1>3

-----------------------------------------------------------------------------
(* The reply at hand, until it is recorded, is one of the provider that is  *)
(* in charge.                                                               *)

Heard ==
  /\ prov \in Called /\ answer.tokens \in Tokens
  /\ pc = "answered" =>
       \E r \in Replies[Api[prov]] :
         answer.usage = r.usage /\ answer.tokens = Meant(Api[prov], r.usage)

\* A call that is answered, as the bookkeeping sees it.
LEMMA AskAnswers ==
  ASSUME prov \in Called, Ask, pc' = "answered"
  PROVE  /\ \E r \in Replies[Api[prov]] :
              answer'.usage = r.usage /\ answer'.tokens = Meant(Api[prov], r.usage)
         /\ answer'.tokens \in Tokens
         /\ Serve(prov, Spent(prov, answer'.tokens))
<1>1. PICK r \in Replies[Api[prov]] :
        LET reply == ChatTools(Api[prov], r, steps)
        IN  /\ reply.error = "" /\ answer' = Answer(reply, r.usage)
            /\ Serve(prov, Spent(prov, reply.tokens))
  BY DEF Ask
<1> DEFINE reply == ChatTools(Api[prov], r, steps)
<1>2. answer'.usage = r.usage /\ answer'.tokens = reply.tokens
  BY <1>1 DEF Answer
<1>3. reply.tokens \in Tokens /\ reply.tokens = Meant(Api[prov], r.usage)
  BY <1>1, ReadBack
<1> HIDE DEF reply
<1>4. Serve(prov, Spent(prov, reply.tokens))
  BY <1>1 DEF reply
<1> QED BY <1>2, <1>3, <1>4

LEMMA NoAnswerHasTokens == NoAnswer.tokens \in Tokens
BY NoTokensAreTokens DEF NoAnswer, Answer, Failed

LEMMA HeardAtFirst == Init => Heard
BY NoAnswerHasTokens DEF Init, Heard

LEMMA HeardKept == Heard /\ [Next]_vars => Heard'
<1> SUFFICES ASSUME Heard, [Next]_vars PROVE Heard'
  OBVIOUS
<1>1. CASE UNCHANGED agent
  BY <1>1 DEF agent, Heard
<1>2. CASE Ask
  <2>1. prov' = prov /\ prov \in Called
    BY <1>2 DEF Ask, Heard
  <2>2. CASE pc' = "answered"
    BY <2>1, <2>2, <1>2, AskAnswers DEF Heard
  <2>3. CASE pc' # "answered"
    <3>1. answer' = answer
      BY <2>3, <1>2 DEF Ask
    <3> QED BY <2>1, <2>3, <3>1 DEF Heard
  <2> QED BY <2>2, <2>3
<1>3. CASE AgentNext /\ ~Ask
  <2>1. pc' # "answered"
    BY <1>3 DEF AgentNext, Top, SkipCompaction, Compact, Migrate, Fail, RecordCall, UpdateRow,
                RunTools, ToolPanics, Nudge, Done
  <2>2. answer' = answer \/ answer' = NoAnswer
    BY <1>3 DEF AgentNext, Top, SkipCompaction, Compact, Migrate, Fail, RecordCall, UpdateRow,
                RunTools, ToolPanics, Nudge, Done
  <2>3. prov' = prov \/ prov' \in Called
    BY <1>3 DEF AgentNext, Top, SkipCompaction, Compact, Migrate, Fail, RecordCall, UpdateRow,
                RunTools, ToolPanics, Nudge, Done
  <2> QED BY <2>1, <2>2, <2>3, NoAnswerHasTokens DEF Heard
<1>4. CASE ChatNext
  BY <1>1, <1>4 DEF ChatNext, Worker, Open, Close, Send, Take, Reply, RecordTurn, UpdateChatRow, Deliver
<1>5. CASE CliNext
  BY <1>1, <1>5 DEF CliNext, CliWorker, Launch, TakeTask, CliRow, CliEntry, Finished
<1>6. CASE \E p \in Called : Probe(p) \/ Generate(p)
  BY <1>1, <1>6 DEF Probe, Generate
<1>7. CASE UNCHANGED vars
  BY <1>1, <1>7 DEF vars
<1> QED BY <1>2, <1>3, <1>4, <1>5, <1>6, <1>7 DEF Next

\* Whatever a provider reports and in whichever format, every prompt token it
\* counts falls into exactly one of the buckets that pricing.rs bills.
THEOREM TokensBilledOnce == Spec => []BillsEachTokenOnce
<1>1. Heard => BillsEachTokenOnce
  <2> SUFFICES ASSUME Heard, pc = "answered", NEW b, b = Buckets(answer.tokens)
               PROVE  b.fresh + b.read + b.five + b.hour = PromptTokens(Api[prov], answer.usage)
    BY DEF BillsEachTokenOnce
  <2>1. PICK r \in Replies[Api[prov]] :
          answer.usage = r.usage /\ answer.tokens = Meant(Api[prov], r.usage)
    BY DEF Heard
  <2>2. prov \in Called /\ b = Buckets(Meant(Api[prov], r.usage))
    BY <2>1 DEF Heard
  <2>3. b.fresh + b.read + b.five + b.hour = PromptTokens(Api[prov], r.usage)
    BY <2>2, BucketsShareOut
  <2> QED BY <2>1, <2>3
<1> QED BY <1>1, HeardAtFirst, HeardKept, PTL DEF Spec

-----------------------------------------------------------------------------
(* The tables.                                                             *)

Figures ==
  /\ entries \in [Sessions -> [Providers -> Money]] /\ rows \in [Sessions -> Money]
  /\ served \in [Providers -> Int] /\ generated \in [Providers -> Int]
  /\ noted \in Money

LEMMA PlusIsMoney == \A a, b \in Money : Plus(a, b) \in Money
BY DEF Plus, Money

LEMMA NothingAdds == Nothing \in Money /\ \A a \in Money : Plus(a, Nothing) = a /\ Plus(Nothing, a) = a
BY DEF Plus, Money, Nothing

\* The order of what is added does not matter.
LEMMA PlusMoves ==
  \A a, b, c \in Money : Plus(Plus(a, b), c) = Plus(Plus(a, c), b) /\ Plus(a, Plus(b, c)) = Plus(Plus(a, b), c)
BY DEF Plus, Money

\* Each session has a name of its own.
LEMMA Names ==
  /\ Agent \in Sessions /\ Probes \in Sessions /\ Agent # Probes
  /\ \A w \in Chats : Chat(w) \in Sessions /\ Chat(w) # Agent /\ Chat(w) # Probes
  /\ \A j \in Tasks : CliRun(j) \in Sessions /\ CliRun(j) # Agent /\ CliRun(j) # Probes
  /\ \A w \in Chats, j \in Tasks : Chat(w) # CliRun(j)
  /\ \A v, w \in Chats : Chat(v) = Chat(w) => v = w
  /\ \A i, j \in Tasks : CliRun(i) = CliRun(j) => i = j
BY DEF Sessions, Agent, Probes, Chat, CliRun

LEMMA FinitelyMany == IsFiniteSet(Sessions) /\ IsFiniteSet(Jobs) /\ IsFiniteSet(Tasks)
<1>1. IsFiniteSet(Chats) /\ IsFiniteSet(Jobs) /\ IsFiniteSet(Tasks)
  BY TurnsOK, FS_Interval DEF Chats, Jobs, Tasks
<1>2. IsFiniteSet({Chat(w) : w \in Chats})
  <2> DEFINE f == [w \in Chats |-> Chat(w)]
  <2>1. f \in Surjection(Chats, {Chat(w) : w \in Chats})
    BY DEF Surjection
  <2> QED BY <1>1, <2>1, FS_Surjection
<1>3. IsFiniteSet({CliRun(j) : j \in Tasks})
  <2> DEFINE f == [j \in Tasks |-> CliRun(j)]
  <2>1. f \in Surjection(Tasks, {CliRun(j) : j \in Tasks})
    BY DEF Surjection
  <2> QED BY <1>1, <2>1, FS_Surjection
<1>4. IsFiniteSet({Agent, Probes})
  <2>1. {Agent, Probes} = {Agent} \cup {Probes}
    OBVIOUS
  <2>2. IsFiniteSet({Agent})
    BY FS_Singleton
  <2>3. IsFiniteSet({Agent} \cup {Probes})
    BY <2>2, FS_AddElement
  <2> QED BY <2>1, <2>3
<1> QED BY <1>1, <1>2, <1>3, <1>4, FS_Union DEF Sessions

LEMMA SumIsMoney == ASSUME Figures, NEW s \in Sessions PROVE Sum(s) \in Money
<1>1. [p \in Providers |-> entries[s][p].tokens] \in [Providers -> Int]
  BY DEF Figures, Money
<1>2. [p \in Providers |-> entries[s][p].cost] \in [Providers -> Int]
  BY DEF Figures, Money
<1> QED BY <1>1, <1>2, SumIsInteger, TurnsOK DEF Sum, Money

LEMMA UsageIsInteger == ASSUME Figures, NEW p \in Providers PROVE UsageOf(p) \in Int
<1>1. [s \in Sessions |-> entries[s][p].tokens] \in [Sessions -> Int]
  BY DEF Figures, Money
<1> QED BY <1>1, SumIsInteger, FinitelyMany DEF UsageOf

\* Ledger::record adds to the sum of its session and to that of its provider.
LEMMA Recorded ==
  ASSUME Figures, NEW s \in Sessions, NEW p \in Providers, NEW spent \in Money, Record(s, p, spent)
  PROVE  /\ entries' \in [Sessions -> [Providers -> Money]]
         /\ Sum(s)' = Plus(Sum(s), spent)
         /\ \A other \in Sessions \ {s} : Sum(other)' = Sum(other)
         /\ \A q \in Providers : UsageOf(q)' = UsageOf(q) + (IF q = p THEN spent.tokens ELSE 0)
<1>1. /\ entries'[s][p] = Plus(entries[s][p], spent)
      /\ \A q \in Providers \ {p} : entries'[s][q] = entries[s][q]
      /\ \A other \in Sessions \ {s} : entries'[other] = entries[other]
  BY DEF Record, Figures
<1>2. entries' \in [Sessions -> [Providers -> Money]]
  <2>1. Plus(entries[s][p], spent) \in Money
    BY PlusIsMoney DEF Figures
  <2> QED BY <2>1 DEF Record, Figures
<1>3. /\ entries'[s][p].tokens = entries[s][p].tokens + spent.tokens
      /\ entries'[s][p].cost = entries[s][p].cost + spent.cost
      /\ spent.tokens \in Int /\ spent.cost \in Int
  BY <1>1 DEF Plus, Money
<1>4. /\ \A t \in Sessions, q \in Providers : entries[t][q].tokens \in Int /\ entries[t][q].cost \in Int
      /\ \A t \in Sessions, q \in Providers : entries'[t][q].tokens \in Int /\ entries'[t][q].cost \in Int
  BY <1>2 DEF Figures, Money
<1>5. SumFunction([q \in Providers |-> entries'[s][q].tokens])
        = SumFunction([q \in Providers |-> entries[s][q].tokens]) + spent.tokens
  <2> DEFINE f == [q \in Providers |-> entries[s][q].tokens]
             g == [q \in Providers |-> entries'[s][q].tokens]
  <2>1. f \in [Providers -> Int] /\ g \in [Providers -> Int]
    BY <1>4
  <2>2. g[p] = f[p] + spent.tokens /\ \A q \in Providers \ {p} : g[q] = f[q]
    BY <1>1, <1>3
  <2> HIDE DEF f, g
  <2>3. SumFunction(g) = SumFunction(f) + spent.tokens
    BY <2>1, <2>2, <1>3, SumMoves, TurnsOK
  <2> QED BY <2>3 DEF f, g
<1>6. SumFunction([q \in Providers |-> entries'[s][q].cost])
        = SumFunction([q \in Providers |-> entries[s][q].cost]) + spent.cost
  <2> DEFINE f == [q \in Providers |-> entries[s][q].cost]
             g == [q \in Providers |-> entries'[s][q].cost]
  <2>1. f \in [Providers -> Int] /\ g \in [Providers -> Int]
    BY <1>4
  <2>2. g[p] = f[p] + spent.cost /\ \A q \in Providers \ {p} : g[q] = f[q]
    BY <1>1, <1>3
  <2> HIDE DEF f, g
  <2>3. SumFunction(g) = SumFunction(f) + spent.cost
    BY <2>1, <2>2, <1>3, SumMoves, TurnsOK
  <2> QED BY <2>3 DEF f, g
<1>7. Sum(s)' = Plus(Sum(s), spent)
  BY <1>5, <1>6 DEF Sum, Plus
<1>8. \A other \in Sessions \ {s} : Sum(other)' = Sum(other)
  BY <1>1 DEF Sum
<1>9. ASSUME NEW q \in Providers
      PROVE  UsageOf(q)' = UsageOf(q) + (IF q = p THEN spent.tokens ELSE 0)
  <2> DEFINE f == [t \in Sessions |-> entries[t][q].tokens]
             g == [t \in Sessions |-> entries'[t][q].tokens]
             more == IF q = p THEN spent.tokens ELSE 0
  <2>1. f \in [Sessions -> Int] /\ g \in [Sessions -> Int] /\ more \in Int
    BY <1>3, <1>4
  <2>2. g[s] = f[s] + more
    <3>1. CASE q = p
      BY <3>1, <1>3
    <3>2. CASE q # p
      BY <3>2, <1>1, <1>4
    <3> QED BY <3>1, <3>2
  <2>3. \A t \in Sessions \ {s} : g[t] = f[t]
    BY <1>1
  <2> HIDE DEF f, g, more
  <2>4. SumFunction(g) = SumFunction(f) + more
    BY <2>1, <2>2, <2>3, SumMoves, FinitelyMany
  <2> QED BY <2>4 DEF f, g, more, UsageOf
<1> QED BY <1>2, <1>7, <1>8, <1>9

\* What a provider reports is added to what it has served.
LEMMA Served ==
  ASSUME Figures, NEW p \in Providers, NEW spent \in Money, Serve(p, spent)
  PROVE  /\ served' \in [Providers -> Int]
         /\ \A q \in Providers : served'[q] = served[q] + (IF q = p THEN spent.tokens ELSE 0)
<1>1. spent.tokens \in Int /\ served[p] + spent.tokens \in Int
  BY DEF Figures, Money
<1>2. served' = [served EXCEPT ![p] = served[p] + spent.tokens]
  BY DEF Serve
<1> QED BY <1>1, <1>2 DEF Figures

LEMMA Upserted ==
  ASSUME Figures, NEW s \in Sessions, NEW total \in Money, Upsert(s, total)
  PROVE  /\ rows' \in [Sessions -> Money] /\ rows'[s] = total
         /\ \A other \in Sessions \ {s} : rows'[other] = rows[other]
BY DEF Upsert, Figures

-----------------------------------------------------------------------------
(* What the steps do to the tables.                                        *)

Quiet == UNCHANGED <<ledger, noted, served, generated>>
\* A call of the agent, or of the probe, that is in the ledger at once.
CallBooked(s, p, spent) ==
  /\ p \in Called /\ spent \in Money /\ Record(s, p, spent) /\ Serve(p, spent)
  /\ UNCHANGED <<rows, generated>>

LEMMA CalledProvide == Called \subseteq Providers
BY DEF Called

LEMMA PlainSpends ==
  ASSUME NEW p \in Called, NEW r \in Replies[Api[p]]
  PROVE  Spent(p, PlainChat(Api[p], r).tokens) \in Money
BY ReadBack, SpentIsMoney, CalledProvide

LEMMA CompactBooks ==
  ASSUME Heard, Compact
  PROVE  /\ pc = "compact" /\ pc' = "ask" /\ UNCHANGED <<prov, answer, chat, others>>
         /\ \/ Quiet
            \/ \E p, spent : /\ p = prov /\ CallBooked(Agent, p, spent)
                             /\ noted' = Plus(noted, spent)
<1>1. /\ pc = "compact" /\ pc' = "ask" /\ UNCHANGED <<prov, answer, rows, chat, others>>
  BY DEF Compact
<1>2. generated' = generated
  BY <1>1 DEF others
<1>3. CASE UNCHANGED <<entries, noted, served, made>>
  BY <1>1, <1>2, <1>3 DEF Quiet, ledger
<1>4. CASE \E r \in Replies[Api[prov]] :
             LET reply == PlainChat(Api[prov], r)
                 spent == Spent(prov, reply.tokens)
             IN  Record(Agent, prov, spent) /\ noted' = Plus(noted, spent) /\ Serve(prov, spent)
  <2>1. PICK p \in Called : p = prov
    BY DEF Heard
  <2>2. PICK r \in Replies[Api[p]] :
          LET spent == Spent(p, PlainChat(Api[p], r).tokens)
          IN  Record(Agent, p, spent) /\ noted' = Plus(noted, spent) /\ Serve(p, spent)
    BY <1>4, <2>1
  <2>3. PICK spent \in Money : spent = Spent(p, PlainChat(Api[p], r).tokens)
    BY PlainSpends
  <2>4. CallBooked(Agent, p, spent) /\ noted' = Plus(noted, spent)
    BY <1>1, <1>2, <2>2, <2>3 DEF CallBooked
  <2> QED BY <1>1, <2>1, <2>4
<1> QED BY <1>1, <1>3, <1>4 DEF Compact

LEMMA AskBooks ==
  ASSUME Heard, Ask
  PROVE  /\ pc = "ask" /\ UNCHANGED <<prov, ledger, chat, others, noted>>
         /\ \/ Quiet /\ pc' \in {"exhausted", "failed"} /\ answer' = answer
            \/ \E p, spent : /\ p = prov /\ p \in Called /\ spent \in Money /\ Serve(p, spent)
                             /\ pc' = "answered" /\ spent = Spent(p, answer'.tokens)
<1>1. pc = "ask" /\ UNCHANGED <<prov, ledger, chat, others, noted>>
  BY DEF Ask
<1>2. CASE pc' = "answered"
  <2>1. PICK p \in Called : p = prov
    BY DEF Heard
  <2>2. answer'.tokens \in Tokens /\ Serve(p, Spent(p, answer'.tokens))
    BY <1>2, <2>1, AskAnswers
  <2>3. PICK spent \in Money : spent = Spent(p, answer'.tokens)
    BY <2>2, SpentIsMoney, CalledProvide
  <2> QED BY <1>1, <1>2, <2>1, <2>2, <2>3
<1>3. CASE pc' # "answered"
  <2>1. pc' \in {"exhausted", "failed"} /\ answer' = answer /\ served' = served
    BY <1>3 DEF Ask
  <2> QED BY <1>1, <2>1 DEF Quiet, others
<1> QED BY <1>2, <1>3

LEMMA RecordCallBooks ==
  ASSUME Heard, RecordCall
  PROVE  /\ pc = "answered" /\ pc' = "recorded"
         /\ UNCHANGED <<prov, answer, rows, chat, others, noted, served, generated>>
         /\ \E p, spent : /\ p = prov /\ p \in Called /\ spent \in Money /\ Record(Agent, p, spent)
                          /\ spent = Spent(p, answer.tokens)
<1>1. PICK p \in Called : p = prov
  BY DEF Heard
<1>2. PICK spent \in Money : spent = Spent(p, answer.tokens)
  BY SpentIsMoney, CalledProvide DEF Heard
<1> QED BY <1>1, <1>2 DEF RecordCall, BookedOn, others

LEMMA UpdateRowBooks ==
  ASSUME Heard, Figures, UpdateRow
  PROVE  /\ pc = "recorded" /\ pc' = "act"
         /\ UNCHANGED <<prov, answer, entries, chat, others, noted, served, generated>>
         /\ rows' \in [Sessions -> Money]
         /\ rows'[Agent] = Plus(rows[Agent], Spent(prov, answer.tokens))
         /\ \A other \in Sessions \ {Agent} : rows'[other] = rows[other]
<1>1. PICK total \in Money : total = Plus(rows[Agent], Spent(prov, answer.tokens))
  BY SpentIsMoney, CalledProvide, PlusIsMoney, Names DEF Heard, Figures
<1>2. Upsert(Agent, total)
  BY <1>1 DEF UpdateRow
<1> QED BY <1>1, <1>2, Upserted, Names DEF UpdateRow, others

\* The other steps of the agent.
LEMMA AgentQuiet ==
  ASSUME AgentNext, ~Compact, ~Ask, ~RecordCall, ~UpdateRow
  PROVE  /\ Quiet /\ UNCHANGED <<chat, others>>
         /\ pc \notin {"answered", "recorded"} /\ pc' \notin {"answered", "recorded"}
BY DEF AgentNext, Top, SkipCompaction, Migrate, Fail, RunTools, ToolPanics, Nudge, Done, Quiet, others

\* Probe and Generate.
LEMMA ProbeBooks ==
  ASSUME NEW p \in Called, Probe(p)
  PROVE  /\ UNCHANGED <<agent, chat, tasks, noted>>
         /\ \E spent : CallBooked(Probes, p, spent)
<1>1. PICK r \in Replies[Api[p]] :
        LET spent == Spent(p, PlainChat(Api[p], r).tokens)
        IN  Record(Probes, p, spent) /\ Serve(p, spent)
  BY DEF Probe
<1>2. PICK spent \in Money : spent = Spent(p, PlainChat(Api[p], r).tokens)
  BY PlainSpends
<1>3. UNCHANGED <<agent, rows, chat, tasks, generated, noted>>
  BY DEF Probe
<1>4. CallBooked(Probes, p, spent)
  BY <1>1, <1>2, <1>3 DEF CallBooked
<1> QED BY <1>3, <1>4

LEMMA GenerateBooks ==
  ASSUME NEW p \in Called, Generate(p)
  PROVE  /\ UNCHANGED <<agent, ledger, chat, tasks, noted>>
         /\ \E spent \in Money : Serve(p, spent) /\ generated' = [generated EXCEPT ![p] = @ + spent.tokens]
<1>1. PICK r \in Replies[Api[p]] :
        LET spent == Spent(p, PlainChat(Api[p], r).tokens)
        IN  Serve(p, spent) /\ generated' = [generated EXCEPT ![p] = @ + spent.tokens]
  BY DEF Generate
<1>2. PICK spent \in Money : spent = Spent(p, PlainChat(Api[p], r).tokens)
  BY PlainSpends
<1>3. UNCHANGED <<agent, ledger, chat, tasks, noted>>
  BY DEF Generate
<1> QED BY <1>1, <1>2, <1>3

-----------------------------------------------------------------------------
(* The launches.                                                           *)

Launches ==
  /\ launched \in 0 .. MaxTasks
  /\ cli = [j \in Tasks |-> cli[j]]
  /\ \A j \in Tasks :
       /\ cli[j] = [at |-> cli[j].at, task |-> cli[j].task]
       /\ cli[j].at \in {"unused", "starting", "running", "rowed", "finished", "ended"}
       /\ j > launched => cli[j].at = "unused"

\* One launch moves on.
CliMoves(j, at) ==
  /\ cli'[j].at = at
  /\ \A i \in Tasks \ {j} : cli'[i] = cli[i]

LEMMA CliMovesOn ==
  ASSUME Launches, NEW j \in Tasks, NEW at, cli' = [cli EXCEPT ![j].at = at]
  PROVE  /\ CliMoves(j, at)
         /\ cli' = [i \in Tasks |-> cli'[i]]
         /\ cli'[j] = [at |-> cli'[j].at, task |-> cli'[j].task]
BY DEF Launches, CliMoves

LEMMA LaunchesMove ==
  ASSUME Launches, NEW j \in Tasks, NEW at \in {"starting", "running", "rowed", "finished", "ended"},
         CliMoves(j, at), cli' = [i \in Tasks |-> cli'[i]],
         cli'[j] = [at |-> cli'[j].at, task |-> cli'[j].task],
         launched' \in 0 .. MaxTasks, launched' >= launched, j <= launched'
  PROVE  Launches'
BY DEF Launches, CliMoves, Tasks

LEMMA LaunchBooks ==
  ASSUME Launches, Launch
  PROVE  /\ Launches' /\ Quiet /\ UNCHANGED <<agent, chat>>
         /\ \E j \in Tasks : cli[j].at = "unused" /\ CliMoves(j, "starting")
<1>1. PICK j \in Tasks : j = launched + 1
  BY TurnsOK DEF Launch, Launches, Tasks
<1>2. cli' = [cli EXCEPT ![j].at = "starting"]
  BY <1>1 DEF Launch
<1>3. CliMoves(j, "starting") /\ cli' = [i \in Tasks |-> cli'[i]]
      /\ cli'[j] = [at |-> cli'[j].at, task |-> cli'[j].task]
  BY <1>2, CliMovesOn
<1>4. launched' = j /\ launched' \in 0 .. MaxTasks /\ launched' >= launched
  BY <1>1, TurnsOK DEF Launch, Launches, Tasks
<1>5. Launches'
  BY <1>3, <1>4, LaunchesMove DEF Tasks
<1>6. cli[j].at = "unused"
  BY <1>1 DEF Launches
<1> QED BY <1>3, <1>5, <1>6 DEF Launch, Quiet

LEMMA TakeTaskBooks ==
  ASSUME Launches, NEW j \in Tasks, TakeTask(j)
  PROVE  /\ Launches' /\ Quiet /\ UNCHANGED <<agent, chat>>
         /\ cli[j].at = "starting" /\ \E at \in {"running", "finished"} : CliMoves(j, at)
<1>1. PICK at \in {"running", "finished"} : at = IF cliSlot = NULL THEN "finished" ELSE "running"
  OBVIOUS
<1>2. cli' = [cli EXCEPT ![j] = [at |-> at, task |-> cliSlot]]
  BY <1>1 DEF TakeTask
<1>3. CliMoves(j, at) /\ cli' = [i \in Tasks |-> cli'[i]]
      /\ cli'[j] = [at |-> cli'[j].at, task |-> cli'[j].task]
  BY <1>2 DEF CliMoves, Launches
<1>4. cli[j].at = "starting" /\ launched' = launched
  BY DEF TakeTask
<1>5. j <= launched
  BY <1>4 DEF Launches, Tasks
<1>6. Launches'
  BY <1>3, <1>4, <1>5, LaunchesMove DEF Launches
<1> QED BY <1>3, <1>4, <1>6 DEF TakeTask, Quiet

LEMMA CliRowBooks ==
  ASSUME Launches, NEW j \in Tasks, CliRow(j)
  PROVE  /\ Launches' /\ UNCHANGED <<agent, chat, entries, noted, generated>>
         /\ cli[j].at = "running"
         /\ \/ CliMoves(j, "finished") /\ Quiet
            \/ \E spent \in Money : /\ CliMoves(j, "rowed") /\ Serve(Cli, spent) /\ spent.tokens = 2
                                   /\ Upsert(CliRun(j), [tokens |-> 2, cost |-> 0])
<1>1. /\ cli[j].at = "running" /\ launched' = launched
      /\ UNCHANGED <<agent, chat, entries, noted, generated>>
  BY DEF CliRow
<1>2. j <= launched
  BY <1>1 DEF Launches, Tasks
<1>3. ASSUME NEW at \in {"rowed", "finished"}, cli' = [cli EXCEPT ![j].at = at]
      PROVE  Launches' /\ CliMoves(j, at)
  <2>1. CliMoves(j, at) /\ cli' = [i \in Tasks |-> cli'[i]]
        /\ cli'[j] = [at |-> cli'[j].at, task |-> cli'[j].task]
    BY <1>3, CliMovesOn
  <2>2. Launches'
    BY <1>1, <1>2, <2>1, LaunchesMove DEF Launches
  <2> QED BY <2>1, <2>2
<1>4. CASE cli' = [cli EXCEPT ![j].at = "finished"] /\ UNCHANGED <<rows, served>>
  <2>1. Quiet
    BY <1>1, <1>4 DEF Quiet, ledger
  <2> QED BY <1>1, <1>3, <1>4, <2>1
<1>5. CASE /\ cli' = [cli EXCEPT ![j].at = "rowed"]
           /\ Upsert(CliRun(j), [tokens |-> Spent(Cli, CliTokens).tokens, cost |-> 0])
           /\ Serve(Cli, Spent(Cli, CliTokens))
  <2>1. PICK spent \in Money : spent = Spent(Cli, CliTokens) /\ spent.tokens = 2
    BY CliSpends
  <2>2. Serve(Cli, spent) /\ Upsert(CliRun(j), [tokens |-> 2, cost |-> 0])
    BY <1>5, <2>1
  <2> QED BY <1>1, <1>3, <1>5, <2>1, <2>2
<1> QED BY <1>4, <1>5 DEF CliRow

LEMMA CliEntryBooks ==
  ASSUME Launches, NEW j \in Tasks, CliEntry(j)
  PROVE  /\ Launches' /\ UNCHANGED <<agent, rows, chat, noted, served, generated>>
         /\ cli[j].at = "rowed" /\ CliMoves(j, "finished")
         /\ \E spent \in Money : Record(CliRun(j), Cli, spent) /\ spent.tokens = 2
<1>1. /\ cli[j].at = "rowed" /\ launched' = launched /\ cli' = [cli EXCEPT ![j].at = "finished"]
      /\ UNCHANGED <<agent, rows, chat, noted, served, generated>>
  BY DEF CliEntry
<1>2. CliMoves(j, "finished") /\ cli' = [i \in Tasks |-> cli'[i]]
      /\ cli'[j] = [at |-> cli'[j].at, task |-> cli'[j].task]
  BY <1>1, CliMovesOn
<1>3. j <= launched' /\ launched' \in 0 .. MaxTasks /\ launched' >= launched
  BY <1>1 DEF Launches, Tasks
<1>4. Launches'
  BY <1>2, <1>3, LaunchesMove
<1>5. PICK spent \in Money : spent = Spent(Cli, CliTokens) /\ spent.tokens = 2
  BY CliSpends
<1>6. Record(CliRun(j), Cli, spent)
  BY <1>5 DEF CliEntry
<1> QED BY <1>1, <1>2, <1>4, <1>5, <1>6

LEMMA FinishedBooks ==
  ASSUME Launches, NEW j \in Tasks, Finished(j)
  PROVE  /\ Launches' /\ Quiet /\ UNCHANGED <<agent, chat>>
         /\ cli[j].at = "finished" /\ CliMoves(j, "ended")
<1>1. /\ cli[j].at = "finished" /\ launched' = launched /\ cli' = [cli EXCEPT ![j].at = "ended"]
      /\ Quiet /\ UNCHANGED <<agent, chat>>
  BY DEF Finished, Quiet
<1>2. CliMoves(j, "ended") /\ cli' = [i \in Tasks |-> cli'[i]]
      /\ cli'[j] = [at |-> cli'[j].at, task |-> cli'[j].task]
  BY <1>1, CliMovesOn
<1>3. j <= launched' /\ launched' \in 0 .. MaxTasks /\ launched' >= launched
  BY <1>1 DEF Launches, Tasks
<1>4. Launches'
  BY <1>2, <1>3, LaunchesMove
<1> QED BY <1>1, <1>2, <1>4

-----------------------------------------------------------------------------
(* The workers of the windows.                                             *)

Held == {"sending", "replied", "recorded", "notifying", "failing"}
HoldsJob(j) == workers[j].at \in Held
HomeOf(j) == workers[j].job.home
IsJob(job) == job.home \in 1 .. opened /\ job.prov \in Called /\ job.prior \in Money

Staff ==
  /\ opened \in 0 .. Windows /\ totals \in Money
  /\ \A j \in Jobs :
       /\ workers[j].spent \in Money
       /\ workers[j].at \in Held \cup {"unused", "starting", "ended"}
       /\ j > sends => workers[j].at = "unused"
       /\ HoldsJob(j) => workers[j].job # NULL /\ IsJob(workers[j].job)
  /\ slot # NULL => IsJob(slot)

\* One worker moves on.
Becomes(j, at, job, spent) ==
  /\ workers'[j].at = at /\ workers'[j].home = workers[j].home
  /\ workers'[j].job = job /\ workers'[j].spent = spent
  /\ \A i \in Jobs \ {j} : workers'[i] = workers[i]

LEMMA WorkerMovesOn ==
  ASSUME Shape, NEW j \in Jobs, NEW at, workers' = [workers EXCEPT ![j].at = at]
  PROVE  Becomes(j, at, workers[j].job, workers[j].spent)
BY DEF Shape, IsWorker, Becomes

LEMMA WorkerSpends ==
  ASSUME Shape, NEW j \in Jobs, NEW at, NEW spent,
         workers' = [workers EXCEPT ![j].at = at, ![j].spent = spent]
  PROVE  Becomes(j, at, workers[j].job, spent)
<1>1. DOMAIN workers = Jobs /\ IsWorker(workers[j])
  BY DEF Shape
<1>2. PICK now : now = [workers[j] EXCEPT !.at = at, !.spent = spent]
  OBVIOUS
<1>3. workers' = [workers EXCEPT ![j] = now]
  BY <1>1, <1>2
<1>4. now = [at |-> at, home |-> workers[j].home, job |-> workers[j].job, spent |-> spent]
  BY <1>1, <1>2, NowSpent
<1> QED BY <1>1, <1>3, <1>4 DEF Becomes

LEMMA WorkerTakes ==
  ASSUME Shape, NEW j \in Jobs, NEW at, NEW job,
         workers' = [workers EXCEPT ![j].at = at, ![j].job = job]
  PROVE  Becomes(j, at, job, workers[j].spent)
<1>1. DOMAIN workers = Jobs /\ IsWorker(workers[j])
  BY DEF Shape
<1>2. PICK now : now = [workers[j] EXCEPT !.at = at, !.job = job]
  OBVIOUS
<1>3. workers' = [workers EXCEPT ![j] = now]
  BY <1>1, <1>2
<1>4. now = [at |-> at, home |-> workers[j].home, job |-> job, spent |-> workers[j].spent]
  BY <1>1, <1>2, NowHasJob
<1> QED BY <1>1, <1>3, <1>4 DEF Becomes

\* A job is one of a window that has been opened.
LEMMA Opened == ASSUME Staff PROVE \A n \in 1 .. opened : n \in Chats
BY TurnsOK DEF Staff, Chats

LEMMA JobsAtHome == ASSUME Staff, NEW j \in Jobs, HoldsJob(j) PROVE HomeOf(j) \in Chats
<1>1. IsJob(workers[j].job)
  BY DEF Staff
<1> QED BY <1>1, Opened DEF IsJob, HomeOf

LEMMA SendBooks ==
  ASSUME Conversing, Send
  PROVE  /\ Quiet /\ UNCHANGED <<agent, others, win, opened, totals>>
         /\ win # 0 /\ ~busy /\ busy'
         /\ slot'.home = win /\ slot'.prov \in Called /\ slot'.prior = totals
         /\ \E j \in Jobs : /\ j = sends + 1 /\ sends' = j
                           /\ workers'[j].at = "starting" /\ workers'[j].home = win
                           /\ workers'[j].spent = Nothing
                           /\ \A i \in Jobs \ {j} : workers'[i] = workers[i]
<1>1. PICK j \in Jobs : j = sends + 1
  BY TurnsOK DEF Send, MaySend, Conversing, Shape, Jobs
<1>2. /\ Quiet /\ UNCHANGED <<agent, others, win, opened, totals>>
      /\ win # 0 /\ ~busy /\ busy' /\ sends' = j
  BY <1>1 DEF Send, MaySend, Quiet, others
<1>3. slot'.home = win /\ slot'.prov \in Called /\ slot'.prior = totals
  BY DEF Send
<1>4. workers' = [workers EXCEPT ![j] = [Idle EXCEPT !.at = "starting", !.home = win]]
  BY <1>1 DEF Send
<1>5. /\ workers'[j].at = "starting" /\ workers'[j].home = win /\ workers'[j].spent = Nothing
      /\ \A i \in Jobs \ {j} : workers'[i] = workers[i]
  BY <1>4 DEF Conversing, Shape, Idle
<1> QED BY <1>1, <1>2, <1>3, <1>5

LEMMA TakeBooks ==
  ASSUME Shape, NEW j \in Jobs, Take(j)
  PROVE  /\ Quiet /\ UNCHANGED <<agent, others, window>>
         /\ workers[j].at = "starting" /\ slot' = NULL
         /\ \E at : /\ at = IF slot = NULL THEN "ended" ELSE "sending"
                   /\ Becomes(j, at, slot, workers[j].spent)
<1>1. PICK at : at = IF slot = NULL THEN "ended" ELSE "sending"
  OBVIOUS
<1>2. workers' = [workers EXCEPT ![j].at = at, ![j].job = slot]
  BY <1>1 DEF Take
<1>3. Becomes(j, at, slot, workers[j].spent)
  BY <1>2, WorkerTakes
<1> QED BY <1>1, <1>3 DEF Take, Quiet, others

LEMMA ReplyBooks ==
  ASSUME Shape, Staff, NEW j \in Jobs, Reply(j)
  PROVE  /\ UNCHANGED <<agent, ledger, others, window, slot, noted>>
         /\ workers[j].at = "sending"
         /\ \/ Quiet /\ Becomes(j, "failing", workers[j].job, workers[j].spent)
            \/ \E p \in Called, spent \in Money :
                 /\ p = workers[j].job.prov /\ Serve(p, spent)
                 /\ Becomes(j, "replied", workers[j].job, spent)
<1>1. UNCHANGED <<agent, ledger, others, window, slot, noted>> /\ workers[j].at = "sending"
  BY DEF Reply
<1>2. PICK p \in Called : p = workers[j].job.prov
  BY <1>1 DEF Staff, HoldsJob, Held, IsJob
<1>3. CASE workers' = [workers EXCEPT ![j].at = "failing"] /\ UNCHANGED served
  <2>1. Becomes(j, "failing", workers[j].job, workers[j].spent)
    BY <1>3, WorkerMovesOn
  <2>2. Quiet
    BY <1>1, <1>3 DEF Quiet, others
  <2> QED BY <1>1, <2>1, <2>2
<1>4. CASE \E r \in Replies[Api[p]] :
             LET spent == Spent(p, PlainChat(Api[p], r).tokens)
             IN  workers' = [workers EXCEPT ![j].at = "replied", ![j].spent = spent] /\ Serve(p, spent)
  <2>1. PICK r \in Replies[Api[p]] :
          LET spent == Spent(p, PlainChat(Api[p], r).tokens)
          IN  workers' = [workers EXCEPT ![j].at = "replied", ![j].spent = spent] /\ Serve(p, spent)
    BY <1>4
  <2>2. PICK spent \in Money : spent = Spent(p, PlainChat(Api[p], r).tokens)
    BY PlainSpends
  <2>3. workers' = [workers EXCEPT ![j].at = "replied", ![j].spent = spent] /\ Serve(p, spent)
    BY <2>1, <2>2
  <2>4. Becomes(j, "replied", workers[j].job, spent)
    BY <2>3, WorkerSpends
  <2> QED BY <1>1, <1>2, <2>3, <2>4
<1> QED BY <1>2, <1>3, <1>4 DEF Reply

LEMMA RecordTurnBooks ==
  ASSUME Shape, Staff, NEW j \in Jobs, RecordTurn(j)
  PROVE  /\ UNCHANGED <<agent, rows, others, window, slot, noted, served, generated>>
         /\ workers[j].at = "replied" /\ Becomes(j, "recorded", workers[j].job, workers[j].spent)
         /\ \E w \in Chats, p \in Called : /\ w = HomeOf(j) /\ p = workers[j].job.prov
                                         /\ Record(Chat(w), p, workers[j].spent)
<1>1. /\ UNCHANGED <<agent, rows, others, window, slot, noted, served, generated>>
      /\ workers[j].at = "replied"
  BY DEF RecordTurn, others
<1>2. Becomes(j, "recorded", workers[j].job, workers[j].spent)
  BY WorkerMovesOn DEF RecordTurn
<1>3. PICK w \in Chats : w = HomeOf(j)
  BY <1>1, JobsAtHome DEF HoldsJob, Held
<1>4. PICK p \in Called : p = workers[j].job.prov
  BY <1>1 DEF Staff, HoldsJob, Held, IsJob
<1>5. Record(Chat(w), p, workers[j].spent)
  BY <1>3, <1>4 DEF RecordTurn, HomeOf
<1> QED BY <1>1, <1>2, <1>3, <1>4, <1>5

LEMMA UpdateChatRowBooks ==
  ASSUME Shape, Staff, NEW j \in Jobs, UpdateChatRow(j)
  PROVE  /\ UNCHANGED <<agent, entries, others, window, slot, noted, served, generated>>
         /\ workers[j].at = "recorded" /\ Becomes(j, "notifying", workers[j].job, workers[j].spent)
         /\ \E w \in Chats : w = HomeOf(j) /\ Upsert(Chat(w), Plus(workers[j].job.prior, workers[j].spent))
<1>1. /\ UNCHANGED <<agent, entries, others, window, slot, noted, served, generated>>
      /\ workers[j].at = "recorded"
  BY DEF UpdateChatRow, others
<1>2. Becomes(j, "notifying", workers[j].job, workers[j].spent)
  BY WorkerMovesOn DEF UpdateChatRow
<1>3. PICK w \in Chats : w = HomeOf(j)
  BY <1>1, JobsAtHome DEF HoldsJob, Held
<1>4. Upsert(Chat(w), Plus(workers[j].job.prior, workers[j].spent))
  BY <1>3 DEF UpdateChatRow, HomeOf, RowOfTurn
<1> QED BY <1>1, <1>2, <1>3, <1>4

LEMMA DeliverBooks ==
  ASSUME Shape, NEW j \in Jobs, Deliver(j)
  PROVE  /\ Quiet /\ UNCHANGED <<agent, others, win, opened, sends, slot>>
         /\ workers[j].at \in {"notifying", "failing"}
         /\ Becomes(j, "ended", workers[j].job, workers[j].spent)
         /\ workers[j].home # win => UNCHANGED <<busy, totals>>
         /\ workers[j].home = win =>
              /\ ~busy'
              /\ totals' = IF workers[j].at = "failing" THEN totals ELSE Plus(totals, workers[j].spent)
<1>1. /\ Quiet /\ UNCHANGED <<agent, others, win, opened, sends, slot>>
      /\ workers[j].at \in {"notifying", "failing"}
      /\ workers[j].home # win => UNCHANGED <<busy, totals>>
  BY DEF Deliver, Quiet, others
<1>2. Becomes(j, "ended", workers[j].job, workers[j].spent)
  BY WorkerMovesOn DEF Deliver
<1>3. workers[j].home = win =>
        /\ ~busy'
        /\ totals' = IF workers[j].at = "failing" THEN totals ELSE Plus(totals, workers[j].spent)
  BY DEF Deliver, BusyAfter
<1> QED BY <1>1, <1>2, <1>3

LEMMA OpenBooks ==
  ASSUME Open
  PROVE  /\ Quiet /\ UNCHANGED <<agent, others, slot, workers, sends>>
         /\ win = 0 /\ opened < Windows /\ win' = opened + 1 /\ opened' = opened + 1
         /\ ~busy' /\ totals' = Nothing
BY DEF Open, Quiet, others

LEMMA CloseBooks ==
  ASSUME Close
  PROVE  /\ Quiet /\ UNCHANGED <<agent, others, opened, slot, workers, sends>>
         /\ win' = 0 /\ ~busy' /\ totals' = Nothing
BY DEF Close, Quiet, others

-----------------------------------------------------------------------------
(* The tables stay tables, and each step leaves the sessions of others be.  *)

Apart(s) == rows'[s] = rows[s] /\ Sum(s)' = Sum(s)

LEMMA QuietKeeps ==
  ASSUME Quiet
  PROVE  /\ Figures => Figures'
         /\ \A s \in Sessions : Apart(s)
         /\ \A p \in Providers : UsageOf(p)' = UsageOf(p)
<1>1. UNCHANGED <<entries, rows, noted, served, generated>>
  BY DEF Quiet, ledger
<1> QED BY <1>1 DEF Figures, Apart, Sum, UsageOf

\* A step that writes nothing but an entry ...
LEMMA EntryKeeps ==
  ASSUME Figures, NEW s \in Sessions, NEW p \in Providers, NEW spent \in Money, Record(s, p, spent), rows' = rows
  PROVE  \A other \in Sessions \ {s} : Apart(other)
BY Recorded DEF Apart

\* ... or nothing but a row.
LEMMA RowKeeps ==
  ASSUME Figures, NEW s \in Sessions, NEW total \in Money, Upsert(s, total), entries' = entries
  PROVE  /\ \A other \in Sessions \ {s} : Apart(other)
         /\ \A other \in Sessions : Sum(other)' = Sum(other)
         /\ \A p \in Providers : UsageOf(p)' = UsageOf(p)
<1>1. \A other \in Sessions \ {s} : rows'[other] = rows[other]
  BY Upserted
<1>2. \A other \in Sessions : Sum(other)' = Sum(other)
  BY DEF Sum
<1>3. \A p \in Providers : UsageOf(p)' = UsageOf(p)
  BY DEF UsageOf
<1> QED BY <1>1, <1>2, <1>3 DEF Apart

LEMMA AgentTouches ==
  ASSUME Heard, Figures, AgentNext
  PROVE  Figures' /\ \A s \in Sessions \ {Agent} : Apart(s)
<1>1. CASE Quiet
  BY <1>1, QuietKeeps
<1>2. CASE Compact
  <2>1. ASSUME NEW p, NEW spent, CallBooked(Agent, p, spent), noted' = Plus(noted, spent)
        PROVE  Figures' /\ \A s \in Sessions \ {Agent} : Apart(s)
    <3>1. /\ p \in Providers /\ spent \in Money /\ Record(Agent, p, spent) /\ Serve(p, spent)
          /\ UNCHANGED <<rows, generated>>
      BY <2>1, CalledProvide DEF CallBooked
    <3>2. noted' \in Money
      BY <2>1, <3>1, PlusIsMoney DEF Figures
    <3>3. entries' \in [Sessions -> [Providers -> Money]] /\ served' \in [Providers -> Int]
      BY <3>1, Recorded, Served, Names
    <3>4. \A s \in Sessions \ {Agent} : Apart(s)
      BY <3>1, EntryKeeps, Names
    <3> QED BY <3>1, <3>2, <3>3, <3>4 DEF Figures
  <2> QED BY <1>1, <1>2, <2>1, CompactBooks
<1>3. CASE Ask
  <2>1. ASSUME NEW p \in Called, NEW spent \in Money, Serve(p, spent)
        PROVE  Figures' /\ \A s \in Sessions \ {Agent} : Apart(s)
    <3>1. UNCHANGED <<entries, rows, noted, generated>>
      BY <1>3, AskBooks DEF ledger, others
    <3>2. served' \in [Providers -> Int]
      BY <2>1, Served, CalledProvide
    <3> QED BY <3>1, <3>2 DEF Figures, Apart, Sum
  <2> QED BY <1>1, <1>3, <2>1, AskBooks
<1>4. CASE RecordCall
  <2>1. PICK p \in Called, spent \in Money : Record(Agent, p, spent)
    BY <1>4, RecordCallBooks
  <2>2. UNCHANGED <<rows, noted, served, generated>>
    BY <1>4, RecordCallBooks
  <2>3. entries' \in [Sessions -> [Providers -> Money]] /\ \A s \in Sessions \ {Agent} : Apart(s)
    BY <2>1, <2>2, Recorded, EntryKeeps, Names, CalledProvide
  <2> QED BY <2>2, <2>3 DEF Figures
<1>5. CASE UpdateRow
  <2>1. UNCHANGED <<entries, noted, served, generated>> /\ rows' \in [Sessions -> Money]
        /\ \A other \in Sessions \ {Agent} : rows'[other] = rows[other]
    BY <1>5, UpdateRowBooks
  <2> QED BY <2>1 DEF Figures, Apart, Sum
<1> QED BY <1>1, <1>2, <1>3, <1>4, <1>5, AgentQuiet

LEMMA WorkerTouches ==
  ASSUME Shape, Staff, Figures, NEW j \in Jobs, Worker(j)
  PROVE  /\ Figures'
         /\ \A s \in Sessions : (\A w \in Chats : s # Chat(w)) => Apart(s)
         /\ \A w \in Chats : Apart(Chat(w)) \/ w = HomeOf(j)
<1>1. CASE Quiet
  BY <1>1, QuietKeeps, Names
<1>2. CASE Reply(j) /\ ~Quiet
  <2>1. PICK p \in Called, spent \in Money : Serve(p, spent)
    BY <1>2, ReplyBooks
  <2>2. UNCHANGED <<entries, rows, noted, generated>>
    BY <1>2, ReplyBooks DEF ledger, others
  <2>3. served' \in [Providers -> Int]
    BY <2>1, Served, CalledProvide
  <2>4. \A s \in Sessions : Apart(s)
    BY <2>2 DEF Apart, Sum
  <2> QED BY <2>2, <2>3, <2>4, Names DEF Figures
<1>3. CASE RecordTurn(j)
  <2>1. PICK w \in Chats, p \in Called : w = HomeOf(j) /\ Record(Chat(w), p, workers[j].spent)
    BY <1>3, RecordTurnBooks
  <2>2. UNCHANGED <<rows, noted, served, generated>> /\ workers[j].spent \in Money
    BY <1>3, RecordTurnBooks DEF Staff
  <2>3. entries' \in [Sessions -> [Providers -> Money]] /\ \A s \in Sessions \ {Chat(w)} : Apart(s)
    BY <2>1, <2>2, Recorded, EntryKeeps, Names, CalledProvide
  <2> QED BY <2>1, <2>2, <2>3, Names DEF Figures
<1>4. CASE UpdateChatRow(j)
  <2>1. PICK w \in Chats : w = HomeOf(j) /\ Upsert(Chat(w), Plus(workers[j].job.prior, workers[j].spent))
    BY <1>4, UpdateChatRowBooks
  <2>2. UNCHANGED <<entries, noted, served, generated>>
    BY <1>4, UpdateChatRowBooks
  <2>3. PICK total \in Money : total = Plus(workers[j].job.prior, workers[j].spent)
    <3>1. workers[j].at = "recorded"
      BY <1>4, UpdateChatRowBooks
    <3> QED BY <3>1, PlusIsMoney DEF Staff, HoldsJob, Held, IsJob
  <2>4. rows' \in [Sessions -> Money] /\ \A s \in Sessions \ {Chat(w)} : Apart(s)
    BY <2>1, <2>2, <2>3, Upserted, RowKeeps, Names
  <2> QED BY <2>1, <2>2, <2>4, Names DEF Figures
<1>5. CASE Take(j) \/ Deliver(j)
  BY <1>1, <1>5, TakeBooks, DeliverBooks
<1> QED BY <1>1, <1>2, <1>3, <1>4, <1>5 DEF Worker

LEMMA CliTouches ==
  ASSUME Launches, Figures, CliNext
  PROVE  Figures' /\ \A s \in Sessions : (\A j \in Tasks : s # CliRun(j)) => Apart(s)
<1>1. CASE Quiet
  BY <1>1, QuietKeeps
<1>2. ASSUME NEW j \in Tasks, CliRow(j), ~Quiet
      PROVE  Figures' /\ \A s \in Sessions \ {CliRun(j)} : Apart(s)
  <2>1. PICK spent \in Money : Serve(Cli, spent) /\ Upsert(CliRun(j), [tokens |-> 2, cost |-> 0])
    BY <1>2, CliRowBooks
  <2>2. UNCHANGED <<entries, noted, generated>>
    BY <1>2, CliRowBooks
  <2>3. [tokens |-> 2, cost |-> 0] \in Money
    BY DEF Money
  <2>4. PICK total \in Money : total = [tokens |-> 2, cost |-> 0]
    BY <2>3
  <2>5. rows' \in [Sessions -> Money] /\ \A s \in Sessions \ {CliRun(j)} : Apart(s)
    BY <2>1, <2>2, <2>4, Upserted, RowKeeps, Names
  <2>6. served' \in [Providers -> Int]
    BY <2>1, Served, TurnsOK
  <2> QED BY <2>2, <2>5, <2>6 DEF Figures
<1>3. ASSUME NEW j \in Tasks, CliEntry(j)
      PROVE  Figures' /\ \A s \in Sessions \ {CliRun(j)} : Apart(s)
  <2>1. PICK spent \in Money : Record(CliRun(j), Cli, spent)
    BY <1>3, CliEntryBooks
  <2>2. UNCHANGED <<rows, noted, served, generated>>
    BY <1>3, CliEntryBooks
  <2>3. entries' \in [Sessions -> [Providers -> Money]] /\ \A s \in Sessions \ {CliRun(j)} : Apart(s)
    BY <2>1, <2>2, Recorded, EntryKeeps, Names, TurnsOK
  <2> QED BY <2>2, <2>3 DEF Figures
<1>4. ASSUME NEW j \in Tasks, TakeTask(j) \/ Finished(j)
      PROVE  Quiet
  BY <1>4, TakeTaskBooks, FinishedBooks
<1>5. CASE Launch
  BY <1>1, <1>5, LaunchBooks
<1> QED BY <1>1, <1>2, <1>3, <1>4, <1>5 DEF CliNext, CliWorker

LEMMA ProbeTouches ==
  ASSUME Figures, NEW p \in Called, Probe(p) \/ Generate(p)
  PROVE  Figures' /\ \A s \in Sessions \ {Probes} : Apart(s)
<1>1. CASE Probe(p)
  <2>1. PICK spent : CallBooked(Probes, p, spent) /\ noted' = noted
    BY <1>1, ProbeBooks
  <2>2. /\ p \in Providers /\ spent \in Money /\ Record(Probes, p, spent) /\ Serve(p, spent)
        /\ UNCHANGED <<rows, generated>>
    BY <2>1, CalledProvide DEF CallBooked
  <2>3. entries' \in [Sessions -> [Providers -> Money]] /\ served' \in [Providers -> Int]
    BY <2>2, Recorded, Served, Names
  <2>4. \A s \in Sessions \ {Probes} : Apart(s)
    BY <2>2, EntryKeeps, Names
  <2> QED BY <2>1, <2>2, <2>3, <2>4 DEF Figures
<1>2. CASE Generate(p)
  <2>1. PICK spent \in Money : /\ Serve(p, spent) /\ generated' = [generated EXCEPT ![p] = @ + spent.tokens]
    BY <1>2, GenerateBooks
  <2>2. UNCHANGED <<entries, rows, noted>>
    BY <1>2, GenerateBooks DEF ledger
  <2>3. served' \in [Providers -> Int]
    BY <2>1, Served, CalledProvide
  <2>4. p \in Providers /\ spent.tokens \in Int /\ generated[p] + spent.tokens \in Int
    BY CalledProvide DEF Figures, Money
  <2>5. generated' \in [Providers -> Int]
    BY <2>1, <2>4 DEF Figures
  <2> QED BY <2>2, <2>3, <2>5 DEF Figures, Apart, Sum
<1> QED BY <1>1, <1>2

-----------------------------------------------------------------------------
(* The row of the agent, and those of the launches.                        *)

AgentBooks ==
  Sum(Agent) = IF pc = "recorded" THEN Plus(Plus(rows[Agent], noted), Spent(prov, answer.tokens))
               ELSE Plus(rows[Agent], noted)

CliBooks ==
  \A j \in Tasks :
    /\ cli[j].at \in {"unused", "starting", "running"} =>
         rows[CliRun(j)].tokens = 0 /\ Sum(CliRun(j)).tokens = 0
    /\ cli[j].at = "rowed" => rows[CliRun(j)].tokens = 2 /\ Sum(CliRun(j)).tokens = 0
    /\ cli[j].at \in {"finished", "ended"} => rows[CliRun(j)].tokens = Sum(CliRun(j)).tokens

\* What others do leaves the row of the agent alone.
LEMMA AgentBooksElsewhere ==
  ASSUME AgentBooks, UNCHANGED <<agent, noted>>, Apart(Agent)
  PROVE  AgentBooks'
<1>1. UNCHANGED <<pc, prov, answer, noted>>
  BY DEF agent
<1>2. rows'[Agent] = rows[Agent] /\ Sum(Agent)' = Sum(Agent)
  BY DEF Apart
<1>3. Spent(prov, answer.tokens)' = Spent(prov, answer.tokens)
  BY <1>1 DEF Spent
<1>4. PICK spent : spent = Spent(prov, answer.tokens)
  OBVIOUS
<1> QED BY <1>1, <1>2, <1>3, <1>4 DEF AgentBooks

LEMMA AgentBooksKept ==
  ASSUME Heard, Figures, AgentBooks, AgentNext
  PROVE  AgentBooks'
<1>1. rows[Agent] \in Money /\ noted \in Money /\ Sum(Agent) \in Money
  BY Names, SumIsMoney DEF Figures
<1>2. CASE Quiet /\ pc # "recorded" /\ pc' # "recorded"
  <2>1. Apart(Agent) /\ noted' = noted
    BY <1>2, QuietKeeps, Names DEF Quiet
  <2> QED BY <1>2, <2>1 DEF AgentBooks, Apart
<1>3. CASE Compact
  <2>1. pc = "compact" /\ pc' = "ask"
    BY <1>3, CompactBooks
  <2>2. ASSUME NEW p, NEW spent, CallBooked(Agent, p, spent), noted' = Plus(noted, spent)
        PROVE  AgentBooks'
    <3>1. p \in Providers /\ spent \in Money /\ Record(Agent, p, spent) /\ rows' = rows
      BY <2>2, CalledProvide DEF CallBooked
    <3>2. Sum(Agent)' = Plus(Sum(Agent), spent)
      BY <3>1, Recorded, Names
    <3>3. Sum(Agent)' = Plus(Plus(rows[Agent], noted), spent)
      BY <2>1, <3>2 DEF AgentBooks
    <3>4. Sum(Agent)' = Plus(rows[Agent], Plus(noted, spent))
      BY <1>1, <3>1, <3>3, PlusMoves
    <3> QED BY <2>1, <2>2, <3>1, <3>4 DEF AgentBooks
  <2> QED BY <1>2, <1>3, <2>1, <2>2, CompactBooks
<1>4. CASE Ask
  <2>1. pc = "ask" /\ pc' # "recorded" /\ UNCHANGED <<entries, rows, noted>>
    BY <1>4, AskBooks DEF ledger, Quiet
  <2> QED BY <2>1 DEF AgentBooks, Sum
<1>5. CASE RecordCall
  <2>1. PICK p \in Called, spent \in Money : Record(Agent, p, spent) /\ spent = Spent(prov, answer.tokens)
    BY <1>5, RecordCallBooks
  <2>2. pc = "answered" /\ pc' = "recorded" /\ UNCHANGED <<prov, answer, rows, noted>>
    BY <1>5, RecordCallBooks
  <2>3. Sum(Agent)' = Plus(Sum(Agent), spent)
    BY <2>1, Recorded, Names, CalledProvide
  <2>4. Spent(prov', answer'.tokens) = spent
    BY <2>1, <2>2
  <2>5. Sum(Agent)' = Plus(Plus(rows[Agent], noted), spent)
    BY <2>2, <2>3 DEF AgentBooks
  <2> QED BY <2>2, <2>4, <2>5 DEF AgentBooks
<1>6. CASE UpdateRow
  <2>1. PICK spent \in Money : spent = Spent(prov, answer.tokens)
    BY SpentIsMoney, CalledProvide DEF Heard
  <2>2. /\ pc = "recorded" /\ pc' = "act" /\ UNCHANGED <<entries, noted>>
        /\ rows'[Agent] = Plus(rows[Agent], spent)
    BY <1>6, <2>1, UpdateRowBooks
  <2>3. Sum(Agent)' = Plus(Plus(rows[Agent], noted), spent)
    BY <2>1, <2>2 DEF AgentBooks, Sum
  <2>4. Sum(Agent)' = Plus(rows'[Agent], noted')
    BY <1>1, <2>1, <2>2, <2>3, PlusMoves
  <2> QED BY <2>2, <2>4 DEF AgentBooks
<1>7. CASE ~Compact /\ ~Ask /\ ~RecordCall /\ ~UpdateRow
  BY <1>2, <1>7, AgentQuiet
<1> QED BY <1>3, <1>4, <1>5, <1>6, <1>7

LEMMA CliBooksElsewhere ==
  ASSUME CliBooks, cli' = cli, \A j \in Tasks : Apart(CliRun(j))
  PROVE  CliBooks'
BY DEF CliBooks, Apart

LEMMA CliBooksMove ==
  ASSUME CliBooks, NEW j \in Tasks, NEW at, CliMoves(j, at), \A i \in Tasks \ {j} : Apart(CliRun(i)),
         /\ at \in {"unused", "starting", "running"} =>
              rows'[CliRun(j)].tokens = 0 /\ Sum(CliRun(j))'.tokens = 0
         /\ at = "rowed" => rows'[CliRun(j)].tokens = 2 /\ Sum(CliRun(j))'.tokens = 0
         /\ at \in {"finished", "ended"} => rows'[CliRun(j)].tokens = Sum(CliRun(j))'.tokens
  PROVE  CliBooks'
BY DEF CliBooks, CliMoves, Apart

LEMMA CliBooksKept ==
  ASSUME Launches, Figures, CliBooks, CliNext
  PROVE  CliBooks'
<1>1. ASSUME NEW j \in Tasks, NEW at, CliMoves(j, at), Quiet,
             \/ cli[j].at \in {"unused", "starting", "running"} /\ at \in {"starting", "running", "finished"}
             \/ cli[j].at = "finished" /\ at = "ended"
      PROVE  CliBooks'
  <2>1. \A i \in Tasks : Apart(CliRun(i))
    BY <1>1, QuietKeeps, Names
  <2>2. rows'[CliRun(j)] = rows[CliRun(j)] /\ Sum(CliRun(j))' = Sum(CliRun(j))
    BY <2>1 DEF Apart
  <2>3. /\ at \in {"unused", "starting", "running"} =>
             rows'[CliRun(j)].tokens = 0 /\ Sum(CliRun(j))'.tokens = 0
        /\ at # "rowed"
        /\ at \in {"finished", "ended"} => rows'[CliRun(j)].tokens = Sum(CliRun(j))'.tokens
    BY <1>1, <2>2 DEF CliBooks
  <2> QED BY <1>1, <2>1, <2>3, CliBooksMove
<1>2. CASE Launch
  BY <1>1, <1>2, LaunchBooks
<1>3. ASSUME NEW j \in Tasks, TakeTask(j)
      PROVE  CliBooks'
  BY <1>1, <1>3, TakeTaskBooks
<1>4. ASSUME NEW j \in Tasks, Finished(j)
      PROVE  CliBooks'
  BY <1>1, <1>4, FinishedBooks
<1>5. ASSUME NEW j \in Tasks, CliRow(j)
      PROVE  CliBooks'
  <2>1. cli[j].at = "running" /\ entries' = entries
    BY <1>5, CliRowBooks
  <2>2. CASE Quiet /\ CliMoves(j, "finished")
    BY <1>1, <2>1, <2>2
  <2>3. CASE CliMoves(j, "rowed") /\ Upsert(CliRun(j), [tokens |-> 2, cost |-> 0])
    <3>1. [tokens |-> 2, cost |-> 0] \in Money
      BY DEF Money
    <3>2. PICK total \in Money : total = [tokens |-> 2, cost |-> 0]
      BY <3>1
    <3>3. Upsert(CliRun(j), total)
      BY <2>3, <3>2
    <3>4. rows'[CliRun(j)] = total /\ total.tokens = 2
      BY <3>2, <3>3, Upserted, Names
    <3>5. Sum(CliRun(j))' = Sum(CliRun(j)) /\ \A i \in Tasks \ {j} : Apart(CliRun(i))
      BY <2>1, <3>3, RowKeeps, Names
    <3>6. Sum(CliRun(j)).tokens = 0
      BY <2>1 DEF CliBooks
    <3> QED BY <2>3, <3>4, <3>5, <3>6, CliBooksMove
  <2> QED BY <1>5, <2>2, <2>3, CliRowBooks
<1>6. ASSUME NEW j \in Tasks, CliEntry(j)
      PROVE  CliBooks'
  <2>1. /\ cli[j].at = "rowed" /\ CliMoves(j, "finished") /\ rows' = rows
    BY <1>6, CliEntryBooks
  <2>2. PICK spent \in Money : Record(CliRun(j), Cli, spent) /\ spent.tokens = 2
    BY <1>6, CliEntryBooks
  <2>3. Sum(CliRun(j))' = Plus(Sum(CliRun(j)), spent)
    BY <2>2, Recorded, Names, TurnsOK
  <2>4. \A i \in Tasks \ {j} : Apart(CliRun(i))
    BY <2>1, <2>2, EntryKeeps, Names, TurnsOK
  <2>5. rows[CliRun(j)].tokens = 2 /\ Sum(CliRun(j)).tokens = 0
    BY <2>1 DEF CliBooks
  <2>6. Sum(CliRun(j))'.tokens = 2
    BY <2>2, <2>3, <2>5 DEF Plus
  <2> QED BY <2>1, <2>4, <2>5, <2>6, CliBooksMove
<1> QED BY <1>2, <1>3, <1>4, <1>5, <1>6 DEF CliNext, CliWorker

-----------------------------------------------------------------------------
(* Workers stay workers.                                                   *)

LEMMA StaffElsewhere == ASSUME Staff, UNCHANGED chat PROVE Staff'
BY DEF Staff, chat, window, HoldsJob, IsJob

\* A worker that moves on: to an end, to another step of its job, or to a job.
LEMMA StaffMoves ==
  ASSUME Staff, NEW j \in Jobs, NEW at, NEW job, NEW spent \in Money, Becomes(j, at, job, spent),
         at \in Held \cup {"ended"}, workers[j].at # "unused",
         at \in Held => job # NULL /\ IsJob(job),
         UNCHANGED <<opened, sends>>, totals' \in Money, slot' \in {slot, NULL}
  PROVE  Staff'
<1>1. workers'[j].at # "unused" /\ ~(j > sends)
  BY DEF Becomes, Staff, Held
<1>2. \A x : IsJob(x) => IsJob(x)'
  BY DEF IsJob
<1>3. ASSUME NEW i \in Jobs
      PROVE  /\ workers'[i].spent \in Money
             /\ workers'[i].at \in Held \cup {"unused", "starting", "ended"}
             /\ i > sends' => workers'[i].at = "unused"
             /\ HoldsJob(i)' => workers'[i].job # NULL /\ IsJob(workers[i].job)'
  <2>1. CASE i = j
    BY <2>1, <1>1, <1>2 DEF Becomes, HoldsJob
  <2>2. CASE i # j
    BY <2>2, <1>2 DEF Becomes, HoldsJob, Staff
  <2> QED BY <2>1, <2>2
<1>4. slot' # NULL => IsJob(slot)'
  BY <1>2 DEF Staff
<1> QED BY <1>3, <1>4 DEF Staff

LEMMA WindowIsOpen == ASSUME Shape, Staff PROVE win # 0 => win \in 1 .. opened /\ win \in Chats
<1>1. win \in Nat /\ win \in {0, opened} /\ opened \in Nat
  BY DEF Shape
<1>2. win # 0 => win \in 1 .. opened
  BY <1>1
<1> QED BY <1>2, Opened

LEMMA StaffKept == ASSUME Conversing, Staff, ChatNext PROVE Staff'
<1> USE DEF Conversing
<1>1. CASE Open
  <2>1. /\ UNCHANGED <<slot, workers, sends>> /\ opened' = opened + 1 /\ opened < Windows
        /\ totals' = Nothing
    BY <1>1, OpenBooks
  <2>2. opened' \in 0 .. Windows /\ totals' \in Money /\ 1 .. opened \subseteq 1 .. opened'
    BY <2>1, NothingAdds, TurnsOK DEF Staff
  <2>3. \A x : IsJob(x) => IsJob(x)'
    BY <2>2 DEF IsJob
  <2> QED BY <2>1, <2>2, <2>3 DEF Staff, HoldsJob
<1>2. CASE Close
  <2>1. UNCHANGED <<slot, workers, sends, opened>> /\ totals' = Nothing
    BY <1>2, CloseBooks
  <2> QED BY <2>1, NothingAdds DEF Staff, HoldsJob, IsJob
<1>3. CASE Send
  <2>1. /\ UNCHANGED <<opened, totals>> /\ win # 0
        /\ slot'.home = win /\ slot'.prov \in Called /\ slot'.prior = totals
    BY <1>3, SendBooks
  <2>2. PICK j \in Jobs : /\ j = sends + 1 /\ sends' = j /\ workers'[j].at = "starting"
                         /\ workers'[j].spent = Nothing
                         /\ \A i \in Jobs \ {j} : workers'[i] = workers[i]
    BY <1>3, SendBooks
  <2>3. \A x : IsJob(x)' = IsJob(x)
    BY <2>1 DEF IsJob
  <2>4. IsJob(slot)'
    BY <2>1, WindowIsOpen DEF IsJob, Staff
  <2>5. ASSUME NEW i \in Jobs
        PROVE  /\ workers'[i].spent \in Money
               /\ workers'[i].at \in Held \cup {"unused", "starting", "ended"}
               /\ i > sends' => workers'[i].at = "unused"
               /\ HoldsJob(i)' => workers'[i].job # NULL /\ IsJob(workers[i].job)'
    <3>1. CASE i = j
      BY <2>2, <3>1, NothingAdds DEF HoldsJob, Held, Jobs
    <3>2. CASE i # j
      <4>1. i > sends' => i > sends
        BY <2>2 DEF Jobs, Shape
      <4> QED BY <2>2, <2>3, <3>2, <4>1 DEF Staff, HoldsJob
    <3> QED BY <3>1, <3>2
  <2> QED BY <2>1, <2>4, <2>5 DEF Staff
<1>4. ASSUME NEW j \in Jobs, Take(j) PROVE Staff'
  <2>1. /\ workers[j].at = "starting" /\ slot' = NULL /\ UNCHANGED <<opened, sends, totals>>
    BY <1>4, TakeBooks DEF window
  <2>2. PICK at : at = (IF slot = NULL THEN "ended" ELSE "sending") /\ Becomes(j, at, slot, workers[j].spent)
    BY <1>4, TakeBooks
  <2>3. at \in Held \cup {"ended"} /\ (at \in Held => slot # NULL /\ IsJob(slot))
    BY <2>2 DEF Held, Staff
  <2>4. workers[j].spent \in Money /\ totals' \in Money
    BY <2>1 DEF Staff
  <2> QED BY <2>1, <2>2, <2>3, <2>4, StaffMoves
<1>5. ASSUME NEW j \in Jobs, NEW at, NEW spent \in Money, HoldsJob(j), Becomes(j, at, workers[j].job, spent),
             at \in Held \cup {"ended"}, UNCHANGED <<opened, sends, slot>>, totals' \in Money
      PROVE  Staff'
  <2>1. workers[j].at # "unused" /\ workers[j].job # NULL /\ IsJob(workers[j].job)
    BY <1>5 DEF HoldsJob, Held, Staff
  <2> QED BY <1>5, <2>1, StaffMoves
<1>6. ASSUME NEW j \in Jobs, Reply(j) PROVE Staff'
  <2>1. HoldsJob(j) /\ UNCHANGED <<opened, sends, slot, totals>> /\ totals \in Money /\ workers[j].spent \in Money
    BY <1>6, ReplyBooks DEF window, HoldsJob, Held, Staff
  <2>2. {"replied", "failing"} \subseteq Held
    BY DEF Held
  <2> QED BY <1>5, <1>6, <2>1, <2>2, ReplyBooks
<1>7. ASSUME NEW j \in Jobs, RecordTurn(j) PROVE Staff'
  <2>1. HoldsJob(j) /\ UNCHANGED <<opened, sends, slot, totals>> /\ totals \in Money /\ workers[j].spent \in Money
    BY <1>7, RecordTurnBooks DEF window, HoldsJob, Held, Staff
  <2>2. "recorded" \in Held
    BY DEF Held
  <2> QED BY <1>5, <1>7, <2>1, <2>2, RecordTurnBooks
<1>8. ASSUME NEW j \in Jobs, UpdateChatRow(j) PROVE Staff'
  <2>1. HoldsJob(j) /\ UNCHANGED <<opened, sends, slot, totals>> /\ totals \in Money /\ workers[j].spent \in Money
    BY <1>8, UpdateChatRowBooks DEF window, HoldsJob, Held, Staff
  <2>2. "notifying" \in Held
    BY DEF Held
  <2> QED BY <1>5, <1>8, <2>1, <2>2, UpdateChatRowBooks
<1>9. ASSUME NEW j \in Jobs, Deliver(j) PROVE Staff'
  <2>1. HoldsJob(j) /\ UNCHANGED <<opened, sends, slot>> /\ workers[j].spent \in Money
    BY <1>9, DeliverBooks DEF HoldsJob, Held, Staff
  <2>2. totals' \in Money
    <3>1. totals \in Money /\ Plus(totals, workers[j].spent) \in Money
      BY <2>1, PlusIsMoney DEF Staff
    <3> QED BY <1>9, <3>1, DeliverBooks
  <2> QED BY <1>5, <1>9, <2>1, <2>2, DeliverBooks
<1> QED BY <1>1, <1>2, <1>3, <1>4, <1>6, <1>7, <1>8, <1>9 DEF ChatNext, Worker

-----------------------------------------------------------------------------
(* The rows of the windows.  At most one job of a window is about, in the   *)
(* slot or with a worker, whoever that is, and what it knows of the turns   *)
(* before is what the row says.                                            *)

OneJob ==
  /\ \A j \in Jobs : HoldsJob(j) /\ slot # NULL => HomeOf(j) # slot.home
  /\ \A i, j \in Jobs : HoldsJob(i) /\ HoldsJob(j) /\ HomeOf(i) = HomeOf(j) => i = j

RowOf(j) == IF workers[j].at = "notifying" THEN Plus(workers[j].job.prior, workers[j].spent)
            ELSE workers[j].job.prior

Prior ==
  /\ slot # NULL => rows[Chat(slot.home)] = slot.prior
  /\ \A j \in Jobs : HoldsJob(j) => rows[Chat(HomeOf(j))] = RowOf(j)
  /\ \A w \in Chats : w > opened => rows[Chat(w)] = Nothing

\* The window shows what its row says, once it is not waiting any more.
InWindow ==
  /\ win # 0 /\ ~busy =>
       /\ totals = rows[Chat(win)]
       /\ \A j \in Jobs : HoldsJob(j) => HomeOf(j) # win
       /\ slot # NULL => slot.home # win
  /\ \A j \in Jobs : workers[j].home = win =>
       /\ workers[j].at = "starting" /\ slot # NULL => slot.home = win /\ slot.prior = totals
       /\ HoldsJob(j) => HomeOf(j) = win /\ workers[j].job.prior = totals

Recording(j) == workers[j].at = "recorded"

Summed ==
  /\ \A j \in Jobs : Recording(j) => Sum(Chat(HomeOf(j))) = Plus(workers[j].job.prior, workers[j].spent)
  /\ \A w \in Chats : (\A j \in Jobs : Recording(j) => HomeOf(j) # w) => rows[Chat(w)] = Sum(Chat(w))

ChatBooks == OneJob /\ Prior /\ InWindow /\ Summed

LEMMA ChatBooksElsewhere ==
  ASSUME Shape, Staff, ChatBooks, UNCHANGED chat, \A w \in Chats : Apart(Chat(w))
  PROVE  ChatBooks'
<1> USE DEF ChatBooks, chat, window
<1>1. \A w \in Chats : rows'[Chat(w)] = rows[Chat(w)] /\ Sum(Chat(w))' = Sum(Chat(w))
  BY DEF Apart
<1>2. OneJob'
  BY DEF OneJob, HoldsJob, HomeOf
<1>3. \A j \in Jobs : HoldsJob(j) => HomeOf(j) \in Chats
  BY JobsAtHome
<1>4. slot # NULL => slot.home \in Chats
  BY Opened DEF Staff, IsJob
<1>5. Prior'
  BY <1>1, <1>3, <1>4 DEF Prior, HoldsJob, HomeOf, RowOf
<1>6. InWindow'
  BY <1>1, WindowIsOpen DEF InWindow, HoldsJob, HomeOf
<1>7. \A j \in Jobs : Recording(j) => HoldsJob(j)
  BY DEF Recording, HoldsJob, Held
<1>8. Summed'
  BY <1>1, <1>3, <1>7 DEF Summed, HomeOf, Recording
<1> QED BY <1>2, <1>5, <1>6, <1>8

LEMMA ChatBooksOpen == ASSUME Shape, Staff, ChatBooks, Open PROVE ChatBooks'
<1> USE DEF ChatBooks
<1>1. /\ UNCHANGED <<slot, workers>> /\ win' = opened + 1 /\ opened' = opened + 1
      /\ ~busy' /\ totals' = Nothing /\ opened \in Nat /\ win' \in Chats
  BY OpenBooks, TurnsOK DEF Shape, Chats
<1>2. \A s \in Sessions : Apart(s)
  BY OpenBooks, QuietKeeps
<1>3. \A w \in Chats : rows'[Chat(w)] = rows[Chat(w)] /\ Sum(Chat(w))' = Sum(Chat(w))
  BY <1>2, Names DEF Apart
<1>4. OneJob'
  BY <1>1 DEF OneJob, HoldsJob, HomeOf
<1>5. \A j \in Jobs : HoldsJob(j) => HomeOf(j) \in Chats /\ HomeOf(j) # win'
  BY <1>1, JobsAtHome DEF Staff, IsJob, HomeOf
<1>6. slot # NULL => slot.home \in Chats /\ slot.home # win'
  BY <1>1, Opened DEF Staff, IsJob
<1>7. Prior'
  BY <1>1, <1>3, <1>5, <1>6 DEF Prior, HoldsJob, HomeOf, RowOf, Chats
<1>8. rows[Chat(win')] = Nothing
  BY <1>1 DEF Prior
<1>9. \A j \in Jobs : workers[j].home # win'
  BY <1>1 DEF Shape
<1>10. InWindow'
  BY <1>1, <1>3, <1>5, <1>6, <1>8, <1>9 DEF InWindow, HoldsJob, HomeOf
<1>11. \A j \in Jobs : Recording(j) => HoldsJob(j)
  BY DEF Recording, HoldsJob, Held
<1>12. Summed'
  BY <1>1, <1>3, <1>5, <1>11 DEF Summed, HomeOf, Recording
<1> QED BY <1>4, <1>7, <1>10, <1>12

LEMMA ChatBooksClose == ASSUME Shape, Staff, ChatBooks, Close PROVE ChatBooks'
<1> USE DEF ChatBooks
<1>1. UNCHANGED <<slot, workers, opened>> /\ win' = 0
  BY CloseBooks
<1>2. \A s \in Sessions : Apart(s)
  BY CloseBooks, QuietKeeps
<1>3. \A w \in Chats : rows'[Chat(w)] = rows[Chat(w)] /\ Sum(Chat(w))' = Sum(Chat(w))
  BY <1>2, Names DEF Apart
<1>4. OneJob'
  BY <1>1 DEF OneJob, HoldsJob, HomeOf
<1>5. \A j \in Jobs : HoldsJob(j) => HomeOf(j) \in Chats
  BY JobsAtHome
<1>6. slot # NULL => slot.home \in Chats
  BY Opened DEF Staff, IsJob
<1>7. Prior'
  BY <1>1, <1>3, <1>5, <1>6 DEF Prior, HoldsJob, HomeOf, RowOf
<1>8. \A j \in Jobs : workers[j].home = 0 => workers[j].at # "starting" /\ ~HoldsJob(j)
  BY DEF Shape, HoldsJob, Held
<1>9. InWindow'
  BY <1>1, <1>8 DEF InWindow, HoldsJob
<1>10. \A j \in Jobs : Recording(j) => HoldsJob(j)
  BY DEF Recording, HoldsJob, Held
<1>11. Summed'
  BY <1>1, <1>3, <1>5, <1>10 DEF Summed, HomeOf, Recording
<1> QED BY <1>4, <1>7, <1>9, <1>11

LEMMA ChatBooksSend == ASSUME Conversing, Staff, ChatBooks, Send PROVE ChatBooks'
<1> USE DEF ChatBooks, Conversing
<1>1. /\ UNCHANGED <<win, opened, totals>> /\ win # 0 /\ ~busy /\ busy'
      /\ slot'.home = win /\ slot'.prior = totals
  BY SendBooks
<1>2. PICK new \in Jobs : /\ new = sends + 1 /\ workers'[new].at = "starting" /\ workers'[new].home = win
                         /\ \A i \in Jobs \ {new} : workers'[i] = workers[i]
  BY SendBooks
<1>3. \A s \in Sessions : Apart(s)
  BY SendBooks, QuietKeeps
<1>4. \A w \in Chats : rows'[Chat(w)] = rows[Chat(w)] /\ Sum(Chat(w))' = Sum(Chat(w))
  BY <1>3, Names DEF Apart
<1>5. workers[new].at = "unused"
  BY <1>2 DEF Staff, Shape, Jobs
<1>6. \A j \in Jobs : HoldsJob(j)' => j # new /\ HoldsJob(j) /\ workers'[j] = workers[j]
  BY <1>2 DEF HoldsJob, Held
<1>7. \A j \in Jobs : HoldsJob(j) => HomeOf(j) \in Chats /\ HomeOf(j) # win
  BY <1>1, JobsAtHome DEF InWindow
<1>8. OneJob'
  BY <1>1, <1>6, <1>7 DEF OneJob, HomeOf
<1>9. win \in Chats
  BY <1>1, WindowIsOpen
<1>10. Prior'
  <2>1. rows'[Chat(slot'.home)] = slot'.prior
    BY <1>1, <1>4, <1>9 DEF InWindow
  <2>2. \A j \in Jobs : HoldsJob(j)' => rows'[Chat(HomeOf(j)')] = RowOf(j)'
    BY <1>4, <1>6, <1>7 DEF Prior, HomeOf, RowOf
  <2> QED BY <1>1, <1>4, <2>1, <2>2 DEF Prior
<1>11. ASSUME NEW j \in Jobs, workers'[j].home = win
       PROVE  /\ workers'[j].at = "starting" => slot'.home = win /\ slot'.prior = totals
              /\ ~HoldsJob(j)'
  <2>1. CASE j = new
    BY <2>1, <1>1, <1>6
  <2>2. CASE j # new
    <3>1. ~AtWork(j)
      BY <2>2, <1>1, <1>2, <1>11 DEF Working, Own
    <3> QED BY <1>2, <2>2, <3>1 DEF AtWork, HoldsJob, Held
  <2> QED BY <2>1, <2>2
<1>12. InWindow'
  BY <1>1, <1>11 DEF InWindow
<1>13. \A j \in Jobs : Recording(j)' => HoldsJob(j)' /\ Recording(j)
  BY <1>2 DEF Recording, HoldsJob, Held
<1>14. \A j \in Jobs : Recording(j) => Recording(j)' /\ j # new
  BY <1>2, <1>5 DEF Recording
<1>15. Summed'
  BY <1>4, <1>6, <1>7, <1>13, <1>14 DEF Summed, HomeOf
<1> QED BY <1>8, <1>10, <1>12, <1>15

LEMMA ChatBooksTake == ASSUME Shape, Staff, ChatBooks, NEW j \in Jobs, Take(j) PROVE ChatBooks'
<1> USE DEF ChatBooks
<1>1. /\ UNCHANGED <<win, opened, busy, totals>> /\ slot' = NULL /\ workers[j].at = "starting"
  BY TakeBooks DEF window
<1>2. PICK at : at = (IF slot = NULL THEN "ended" ELSE "sending") /\ Becomes(j, at, slot, workers[j].spent)
  BY TakeBooks
<1>3. \A s \in Sessions : Apart(s)
  BY TakeBooks, QuietKeeps
<1>4. \A w \in Chats : rows'[Chat(w)] = rows[Chat(w)] /\ Sum(Chat(w))' = Sum(Chat(w))
  BY <1>3, Names DEF Apart
<1>5. ~HoldsJob(j) /\ ~Recording(j) /\ ~Recording(j)'
  BY <1>1, <1>2 DEF HoldsJob, Held, Recording, Becomes
<1>6. HoldsJob(j)' => slot # NULL /\ HomeOf(j)' = slot.home /\ RowOf(j)' = slot.prior
  BY <1>2 DEF HoldsJob, Held, HomeOf, RowOf, Becomes
<1>7. \A i \in Jobs \ {j} : workers'[i] = workers[i]
  BY <1>2 DEF Becomes
<1>8. \A i \in Jobs : HoldsJob(i) => HomeOf(i) \in Chats
  BY JobsAtHome
<1>9. slot # NULL => slot.home \in Chats
  BY Opened DEF Staff, IsJob
<1>10. OneJob'
  BY <1>1, <1>6, <1>7 DEF OneJob, HoldsJob, HomeOf
<1>11. Prior'
  <2>1. ASSUME NEW i \in Jobs, HoldsJob(i)'
        PROVE  rows'[Chat(HomeOf(i)')] = RowOf(i)'
    <3>1. CASE i = j
      BY <2>1, <3>1, <1>4, <1>6, <1>9 DEF Prior
    <3>2. CASE i # j
      BY <2>1, <3>2, <1>4, <1>7, <1>8 DEF Prior, HoldsJob, HomeOf, RowOf
    <3> QED BY <3>1, <3>2
  <2> QED BY <2>1, <1>1, <1>4 DEF Prior
<1>12. InWindow'
  <2>1. win # 0 => win \in Chats
    BY WindowIsOpen
  <2>2. ASSUME win # 0, ~busy
        PROVE  totals = rows'[Chat(win)] /\ \A i \in Jobs : HoldsJob(i)' => HomeOf(i)' # win
    <3>1. totals = rows'[Chat(win)]
      BY <2>1, <2>2, <1>4 DEF InWindow
    <3>2. ASSUME NEW i \in Jobs, HoldsJob(i)' PROVE HomeOf(i)' # win
      <4>1. CASE i = j
        BY <4>1, <3>2, <2>2, <1>6 DEF InWindow
      <4>2. CASE i # j
        BY <4>2, <3>2, <2>2, <1>7 DEF InWindow, HoldsJob, HomeOf
      <4> QED BY <4>1, <4>2
    <3> QED BY <3>1, <3>2
  <2>3. ASSUME NEW i \in Jobs, workers'[i].home = win, HoldsJob(i)'
        PROVE  HomeOf(i)' = win /\ workers'[i].job.prior = totals
    <3>1. CASE i = j
      <4>1. workers[j].home = win /\ workers'[j].job = slot /\ slot # NULL
        BY <3>1, <2>3, <1>2, <1>6 DEF Becomes
      <4> QED BY <3>1, <4>1, <1>1 DEF InWindow, HomeOf
    <3>2. CASE i # j
      BY <3>2, <2>3, <1>7 DEF InWindow, HoldsJob, HomeOf
    <3> QED BY <3>1, <3>2
  <2> QED BY <2>2, <2>3, <1>1 DEF InWindow
<1>13. Summed'
  <2>1. \A i \in Jobs : Recording(i)' <=> Recording(i)
    BY <1>5, <1>7 DEF Recording
  <2>2. \A i \in Jobs : Recording(i) => i # j /\ HoldsJob(i)
    BY <1>5 DEF Recording, HoldsJob, Held
  <2> QED BY <2>1, <2>2, <1>4, <1>7, <1>8 DEF Summed, HomeOf
<1> QED BY <1>10, <1>11, <1>12, <1>13

\* A worker goes on with its job while nothing else happens in the chat.
LEMMA ChatBooksGoOn ==
  ASSUME Shape, Staff, ChatBooks, NEW j \in Jobs, NEW at \in Held, NEW spent, HoldsJob(j),
         Becomes(j, at, workers[j].job, spent), UNCHANGED <<window, slot>>,
         rows'[Chat(HomeOf(j))] = RowOf(j)', \A w \in Chats : w # HomeOf(j) => Apart(Chat(w))
  PROVE  OneJob' /\ Prior' /\ InWindow'
<1> USE DEF ChatBooks
<1>1. UNCHANGED <<win, opened, busy, totals, slot>>
  BY DEF window
<1>2. \A i \in Jobs : /\ HoldsJob(i)' <=> HoldsJob(i)
                      /\ workers'[i].job = workers[i].job /\ workers'[i].home = workers[i].home
                      /\ HomeOf(i)' = HomeOf(i)
  BY DEF Becomes, HoldsJob, HomeOf
<1>3. \A w \in Chats : w # HomeOf(j) => rows'[Chat(w)] = rows[Chat(w)]
  BY DEF Apart
<1>4. \A i \in Jobs : HoldsJob(i) => HomeOf(i) \in Chats
  BY JobsAtHome
<1>5. slot # NULL => slot.home \in Chats /\ slot.home # HomeOf(j)
  BY Opened DEF Staff, IsJob, OneJob
<1>6. OneJob'
  BY <1>1, <1>2 DEF OneJob
<1>7. ASSUME NEW i \in Jobs, HoldsJob(i)' PROVE rows'[Chat(HomeOf(i)')] = RowOf(i)'
  <2>1. CASE i = j
    BY <2>1, <1>2
  <2>2. CASE i # j
    <3>1. HomeOf(i) # HomeOf(j) /\ HomeOf(i) \in Chats
      BY <2>2, <1>2, <1>4, <1>7 DEF OneJob
    <3>2. RowOf(i)' = RowOf(i)
      BY <2>2 DEF RowOf, Becomes
    <3> QED BY <3>1, <3>2, <1>2, <1>3, <1>7 DEF Prior
  <2> QED BY <2>1, <2>2
<1>8. ASSUME NEW w \in Chats, w > opened PROVE rows'[Chat(w)] = Nothing
  <2>1. HomeOf(j) \in 1 .. opened
    BY DEF Staff, IsJob, HomeOf
  <2>2. w # HomeOf(j)
    BY <2>1, <1>8 DEF Chats, Staff
  <2> QED BY <2>2, <1>3, <1>8 DEF Prior
<1>9. Prior'
  BY <1>1, <1>3, <1>5, <1>7, <1>8 DEF Prior
<1>10. InWindow'
  <2>1. ASSUME win # 0, ~busy
        PROVE  /\ totals = rows'[Chat(win)]
               /\ \A i \in Jobs : HoldsJob(i)' => HomeOf(i)' # win
               /\ slot # NULL => slot.home # win
    <3>1. win # HomeOf(j) /\ win \in Chats
      BY <2>1, WindowIsOpen DEF InWindow
    <3> QED BY <2>1, <3>1, <1>2, <1>3 DEF InWindow
  <2>2. ASSUME NEW i \in Jobs, workers'[i].home = win
        PROVE  /\ workers'[i].at = "starting" /\ slot # NULL => slot.home = win /\ slot.prior = totals
               /\ HoldsJob(i)' => HomeOf(i)' = win /\ workers'[i].job.prior = totals
    <3>1. workers'[i].at = "starting" => i # j /\ workers[i].at = "starting"
      BY DEF Becomes, Held
    <3> QED BY <2>2, <3>1, <1>2 DEF InWindow
  <2> QED BY <2>1, <2>2, <1>1 DEF InWindow
<1> QED BY <1>6, <1>9, <1>10

LEMMA ChatBooksReply == ASSUME Shape, Staff, ChatBooks, NEW j \in Jobs, Reply(j) PROVE ChatBooks'
<1>1. /\ UNCHANGED <<window, slot, entries, rows>> /\ workers[j].at = "sending" /\ HoldsJob(j)
  BY ReplyBooks DEF ledger, HoldsJob, Held
<1>2. PICK at, spent : at \in {"failing", "replied"} /\ Becomes(j, at, workers[j].job, spent)
  BY ReplyBooks
<1>3. \A s \in Sessions : Apart(s)
  BY <1>1 DEF Apart, Sum
<1>4. RowOf(j)' = workers[j].job.prior /\ RowOf(j) = workers[j].job.prior
  BY <1>1, <1>2 DEF RowOf, Becomes
<1>5. rows'[Chat(HomeOf(j))] = RowOf(j)'
  BY <1>1, <1>4 DEF ChatBooks, Prior
<1>6. at \in Held
  BY <1>2 DEF Held
<1>7. \A w \in Chats : Apart(Chat(w))
  BY <1>3, Names
<1>8. OneJob' /\ Prior' /\ InWindow'
  BY <1>1, <1>2, <1>5, <1>6, <1>7, ChatBooksGoOn
<1>9. \A i \in Jobs : Recording(i)' <=> Recording(i)
  BY <1>1, <1>2 DEF Recording, Becomes
<1>10. \A i \in Jobs : Recording(i) => i # j /\ HomeOf(i) \in Chats /\ workers'[i] = workers[i]
  BY <1>1, <1>2, JobsAtHome DEF Recording, HoldsJob, Held, Becomes
<1>11. Summed'
  BY <1>7, <1>9, <1>10 DEF ChatBooks, Summed, Apart, HomeOf
<1> QED BY <1>8, <1>11 DEF ChatBooks

LEMMA ChatBooksRecord == ASSUME Shape, Staff, Figures, ChatBooks, NEW j \in Jobs, RecordTurn(j) PROVE ChatBooks'
<1>1. /\ UNCHANGED <<window, slot, rows>> /\ workers[j].at = "replied" /\ HoldsJob(j)
      /\ Becomes(j, "recorded", workers[j].job, workers[j].spent)
  BY RecordTurnBooks DEF HoldsJob, Held
<1>2. PICK w \in Chats, p \in Called : w = HomeOf(j) /\ Record(Chat(w), p, workers[j].spent)
  BY RecordTurnBooks
<1>3. PICK spent \in Money : spent = workers[j].spent
  BY DEF Staff
<1>4. Sum(Chat(w))' = Plus(Sum(Chat(w)), spent) /\ \A other \in Sessions \ {Chat(w)} : Apart(other)
  BY <1>1, <1>2, <1>3, Recorded, EntryKeeps, Names, CalledProvide
<1>5. \A v \in Chats : v # w => Apart(Chat(v))
  BY <1>4, Names
<1>6. RowOf(j)' = workers[j].job.prior /\ RowOf(j) = workers[j].job.prior
  BY <1>1 DEF RowOf, Becomes
<1>7. rows[Chat(w)] = workers[j].job.prior
  BY <1>1, <1>2, <1>6 DEF ChatBooks, Prior
<1>8. OneJob' /\ Prior' /\ InWindow'
  <2>1. "recorded" \in Held /\ rows'[Chat(HomeOf(j))] = RowOf(j)'
    BY <1>1, <1>2, <1>6, <1>7 DEF Held
  <2>2. \A v \in Chats : v # HomeOf(j) => Apart(Chat(v))
    BY <1>2, <1>5
  <2> QED BY <1>1, <2>1, <2>2, ChatBooksGoOn
<1>9. \A i \in Jobs : Recording(i) => i # j /\ HoldsJob(i) /\ HomeOf(i) \in Chats
  BY <1>1, JobsAtHome DEF Recording, HoldsJob, Held
<1>10. \A i \in Jobs : Recording(i) => HomeOf(i) # w
  BY <1>1, <1>2, <1>9 DEF ChatBooks, OneJob
<1>11. Sum(Chat(w)) = rows[Chat(w)]
  BY <1>10 DEF ChatBooks, Summed
<1>12. Sum(Chat(w))' = Plus(workers[j].job.prior, workers[j].spent)
  BY <1>3, <1>4, <1>7, <1>11
<1>13. /\ Recording(j)' /\ HomeOf(j)' = w
       /\ workers'[j].job.prior = workers[j].job.prior /\ workers'[j].spent = workers[j].spent
  BY <1>1, <1>2 DEF Recording, Becomes, HomeOf
<1>14. \A i \in Jobs \ {j} : workers'[i] = workers[i] /\ (Recording(i)' <=> Recording(i))
  BY <1>1 DEF Becomes, Recording
<1>15. Summed'
  <2>1. ASSUME NEW i \in Jobs, Recording(i)'
        PROVE  Sum(Chat(HomeOf(i)))' = Plus(workers'[i].job.prior, workers'[i].spent)
    <3>1. CASE i = j
      <4>1. PICK v : v = HomeOf(i)'
        OBVIOUS
      <4>2. v = w
        BY <3>1, <4>1, <1>13
      <4> QED BY <3>1, <4>1, <4>2, <1>12, <1>13
    <3>2. CASE i # j
      <4>1. PICK v \in Chats : v = HomeOf(i) /\ v # w /\ v = HomeOf(i)'
        BY <3>2, <2>1, <1>9, <1>10, <1>14 DEF HomeOf
      <4>2. Sum(Chat(v))' = Sum(Chat(v))
        BY <4>1, <1>5 DEF Apart
      <4>3. Sum(Chat(v)) = Plus(workers[i].job.prior, workers[i].spent)
        BY <4>1, <3>2, <2>1, <1>14 DEF ChatBooks, Summed
      <4> QED BY <4>1, <4>2, <4>3, <3>2, <1>14
    <3> QED BY <3>1, <3>2
  <2>2. ASSUME NEW v \in Chats, \A i \in Jobs : Recording(i)' => HomeOf(i)' # v
        PROVE  rows'[Chat(v)] = Sum(Chat(v))'
    <3>1. v # w /\ \A i \in Jobs : Recording(i) => HomeOf(i) # v
      BY <2>2, <1>9, <1>13, <1>14 DEF HomeOf
    <3> QED BY <3>1, <1>1, <1>5 DEF ChatBooks, Summed, Apart
  <2> QED BY <2>1, <2>2 DEF Summed
<1> QED BY <1>8, <1>15 DEF ChatBooks

LEMMA ChatBooksUpdate == ASSUME Shape, Staff, Figures, ChatBooks, NEW j \in Jobs, UpdateChatRow(j) PROVE ChatBooks'
<1>1. /\ UNCHANGED <<window, slot, entries>> /\ workers[j].at = "recorded" /\ HoldsJob(j)
      /\ Becomes(j, "notifying", workers[j].job, workers[j].spent)
  BY UpdateChatRowBooks DEF HoldsJob, Held
<1>2. PICK w \in Chats : w = HomeOf(j) /\ Upsert(Chat(w), Plus(workers[j].job.prior, workers[j].spent))
  BY UpdateChatRowBooks
<1>3. PICK total \in Money : total = Plus(workers[j].job.prior, workers[j].spent)
  BY <1>1, PlusIsMoney DEF Staff, IsJob
<1>4. rows'[Chat(w)] = total /\ \A other \in Sessions \ {Chat(w)} : Apart(other)
  BY <1>1, <1>2, <1>3, Upserted, RowKeeps, Names
<1>5. (\A v \in Chats : v # w => Apart(Chat(v))) /\ Sum(Chat(w))' = Sum(Chat(w))
  <2>1. Chat(w) \in Sessions /\ Upsert(Chat(w), total)
    BY <1>2, <1>3, Names
  <2>2. Sum(Chat(w))' = Sum(Chat(w))
    BY <2>1, <1>1, RowKeeps
  <2> QED BY <1>4, <2>2, Names
<1>6. RowOf(j)' = total
  BY <1>1, <1>3 DEF RowOf, Becomes
<1>7. OneJob' /\ Prior' /\ InWindow'
  <2>1. "notifying" \in Held /\ rows'[Chat(HomeOf(j))] = RowOf(j)'
    BY <1>2, <1>4, <1>6 DEF Held
  <2>2. \A v \in Chats : v # HomeOf(j) => Apart(Chat(v))
    BY <1>2, <1>5
  <2> QED BY <1>1, <2>1, <2>2, ChatBooksGoOn
<1>8. \A i \in Jobs : Recording(i) => HoldsJob(i) /\ HomeOf(i) \in Chats
  BY JobsAtHome DEF Recording, HoldsJob, Held
<1>9. Recording(j) /\ ~Recording(j)'
  BY <1>1 DEF Recording, Becomes
<1>10. \A i \in Jobs : Recording(i)' => Recording(i) /\ i # j
  BY <1>1, <1>9 DEF Becomes, Recording
<1>11. \A i \in Jobs : Recording(i) /\ i # j =>
         /\ Recording(i)' /\ HomeOf(i)' = HomeOf(i) /\ HomeOf(i) # w
         /\ workers'[i] = workers[i]
  BY <1>1, <1>2, <1>8 DEF ChatBooks, OneJob, Becomes, Recording, HomeOf
<1>12. Sum(Chat(w)) = total
  BY <1>2, <1>3, <1>9 DEF ChatBooks, Summed
<1>13. Summed'
  <2>1. ASSUME NEW i \in Jobs, Recording(i)'
        PROVE  Sum(Chat(HomeOf(i)))' = Plus(workers'[i].job.prior, workers'[i].spent)
    <3>1. PICK v \in Chats : v = HomeOf(i) /\ v # w /\ v = HomeOf(i)'
      BY <2>1, <1>8, <1>10, <1>11
    <3>2. Sum(Chat(v))' = Sum(Chat(v))
      BY <3>1, <1>5 DEF Apart
    <3>3. Sum(Chat(v)) = Plus(workers[i].job.prior, workers[i].spent)
      BY <3>1, <2>1, <1>10 DEF ChatBooks, Summed
    <3> QED BY <3>1, <3>2, <3>3, <2>1, <1>10, <1>11
  <2>2. ASSUME NEW v \in Chats, \A i \in Jobs : Recording(i)' => HomeOf(i)' # v
        PROVE  rows'[Chat(v)] = Sum(Chat(v))'
    <3>1. CASE v = w
      BY <3>1, <1>4, <1>5, <1>12
    <3>2. CASE v # w
      <4>1. \A i \in Jobs : Recording(i) => HomeOf(i) # v
        BY <2>2, <3>2, <1>2, <1>11
      <4> QED BY <3>2, <4>1, <1>5 DEF ChatBooks, Summed, Apart
    <3> QED BY <3>1, <3>2
  <2> QED BY <2>1, <2>2 DEF Summed
<1> QED BY <1>7, <1>13 DEF ChatBooks

\* The window shows a reply that its row knows of.
LEMMA ChatBooksDeliver == ASSUME Conversing, Staff, ChatBooks, NEW j \in Jobs, Deliver(j) PROVE ChatBooks'
<1> USE DEF ChatBooks, Conversing
<1>1. /\ UNCHANGED <<win, opened, slot>> /\ HoldsJob(j) /\ workers[j].at \in {"notifying", "failing"}
      /\ Becomes(j, "ended", workers[j].job, workers[j].spent)
  BY DeliverBooks DEF HoldsJob, Held
<1>2. \A s \in Sessions : Apart(s)
  BY DeliverBooks, QuietKeeps
<1>3. \A w \in Chats : rows'[Chat(w)] = rows[Chat(w)] /\ Sum(Chat(w))' = Sum(Chat(w))
  BY <1>2, Names DEF Apart
<1>4. \A i \in Jobs : HoldsJob(i)' => i # j /\ HoldsJob(i) /\ workers'[i] = workers[i]
  BY <1>1 DEF Becomes, HoldsJob, Held
<1>5. \A i \in Jobs : HoldsJob(i) => HomeOf(i) \in Chats
  BY JobsAtHome
<1>6. slot # NULL => slot.home \in Chats
  BY Opened DEF Staff, IsJob
<1>7. OneJob'
  BY <1>1, <1>4 DEF OneJob, HomeOf
<1>8. Prior'
  BY <1>1, <1>3, <1>4, <1>5, <1>6 DEF Prior, HomeOf, RowOf
<1>9. \A i \in Jobs : workers'[i].at = "starting" => i # j /\ workers'[i] = workers[i]
  BY <1>1 DEF Becomes
<1>10. InWindow'
  <2>1. CASE workers[j].home # win
    <3>1. UNCHANGED <<busy, totals>>
      BY <2>1, DeliverBooks
    <3>2. win # 0 /\ ~busy =>
            /\ totals = rows'[Chat(win)]
            /\ \A i \in Jobs : HoldsJob(i)' => HomeOf(i)' # win
            /\ slot # NULL => slot.home # win
      BY <1>3, <1>4, WindowIsOpen DEF InWindow, HomeOf
    <3>3. ASSUME NEW i \in Jobs, workers'[i].home = win
          PROVE  /\ workers'[i].at = "starting" /\ slot # NULL => slot.home = win /\ slot.prior = totals
                 /\ HoldsJob(i)' => HomeOf(i)' = win /\ workers'[i].job.prior = totals
      <4>1. workers'[i].at = "starting" /\ slot # NULL => slot.home = win /\ slot.prior = totals
        BY <3>3, <1>9 DEF InWindow
      <4>2. HoldsJob(i)' => HomeOf(i)' = win /\ workers'[i].job.prior = totals
        BY <3>3, <1>4 DEF InWindow, HomeOf
      <4> QED BY <4>1, <4>2
    <3> QED BY <3>1, <3>2, <3>3, <1>1 DEF InWindow
  <2>2. CASE workers[j].home = win
    <3>1. /\ ~busy'
          /\ totals' = IF workers[j].at = "failing" THEN totals ELSE Plus(totals, workers[j].spent)
      BY <2>2, DeliverBooks
    <3>2. HomeOf(j) = win /\ workers[j].job.prior = totals
      BY <2>2, <1>1 DEF InWindow
    <3>3. rows[Chat(win)] = RowOf(j) /\ win \in Chats
      BY <3>2, <1>1, <1>5 DEF Prior
    <3>4. totals' = rows'[Chat(win)]
      BY <3>1, <3>2, <3>3, <1>1, <1>3 DEF RowOf
    <3>5. \A i \in Jobs : HoldsJob(i)' => HomeOf(i)' # win
      BY <3>2, <1>1, <1>4 DEF OneJob, HomeOf
    <3>6. slot # NULL => slot.home # win
      BY <3>2, <1>1 DEF OneJob
    <3>7. AtWork(j) /\ j = sends
      BY <2>2, <1>1 DEF Working, Own, AtWork
    <3>8. ASSUME NEW i \in Jobs, workers'[i].home = win
          PROVE  workers'[i].at # "starting" /\ ~HoldsJob(i)'
      <4>1. CASE i = j
        BY <4>1, <1>4, <1>9
      <4>2. CASE i # j
        <5>1. workers[i].home = win /\ workers'[i] = workers[i]
          BY <4>2, <3>8, <1>1 DEF Becomes
        <5>2. AtWork(i) => Own(i)
          BY <5>1 DEF Working
        <5>3. ~AtWork(i)
          BY <4>2, <5>2, <3>7 DEF Own
        <5> QED BY <5>1, <5>3 DEF AtWork, HoldsJob, Held
      <4> QED BY <4>1, <4>2
    <3> QED BY <3>1, <3>4, <3>5, <3>6, <3>8, <1>1 DEF InWindow
  <2> QED BY <2>1, <2>2
<1>11. \A i \in Jobs : Recording(i)' <=> Recording(i)
  BY <1>1 DEF Recording, Becomes
<1>12. \A i \in Jobs : Recording(i) => HomeOf(i) \in Chats /\ workers'[i] = workers[i]
  BY <1>1, <1>5 DEF Recording, HoldsJob, Held, Becomes
<1>13. Summed'
  BY <1>3, <1>11, <1>12 DEF Summed, HomeOf
<1> QED BY <1>7, <1>8, <1>10, <1>13

-----------------------------------------------------------------------------
(* What a provider has served is in the ledger, was generated, or is still  *)
(* to be recorded by someone.                                              *)

DueAgent(p) == IF pc = "answered" /\ prov = p THEN Spent(prov, answer.tokens).tokens ELSE 0

Owed(j, p) == IF workers[j].at = "replied" /\ workers[j].job.prov = p THEN workers[j].spent.tokens ELSE 0
DueChat(p) == SumFunction([j \in Jobs |-> Owed(j, p)])

CliOwed(j, p) == IF cli[j].at = "rowed" /\ p = Cli THEN 2 ELSE 0
DueCli(p) == SumFunction([j \in Tasks |-> CliOwed(j, p)])

Balance ==
  \A p \in Providers :
    UsageOf(p) + generated[p] + DueAgent(p) + DueChat(p) + DueCli(p) = served[p]

LEMMA OwedIsInteger == ASSUME Staff, NEW p PROVE \A j \in Jobs : Owed(j, p) \in Int
BY DEF Staff, Owed, Money

LEMMA DuesAreIntegers ==
  ASSUME Heard, Figures, Staff, NEW p \in Providers
  PROVE  /\ UsageOf(p) \in Int /\ generated[p] \in Int /\ served[p] \in Int
         /\ DueAgent(p) \in Int /\ DueChat(p) \in Int /\ DueCli(p) \in Int
<1>1. UsageOf(p) \in Int /\ generated[p] \in Int /\ served[p] \in Int
  BY UsageIsInteger DEF Figures
<1>2. DueAgent(p) \in Int
  <2>1. Spent(prov, answer.tokens) \in Money
    BY SpentIsMoney, CalledProvide DEF Heard
  <2> QED BY <2>1 DEF DueAgent, Money
<1>3. DueChat(p) \in Int
  <2>1. [j \in Jobs |-> Owed(j, p)] \in [Jobs -> Int]
    BY OwedIsInteger
  <2> QED BY <2>1, SumIsInteger, FinitelyMany DEF DueChat
<1>4. DueCli(p) \in Int
  <2>1. [j \in Tasks |-> CliOwed(j, p)] \in [Tasks -> Int]
    BY DEF CliOwed
  <2> QED BY <2>1, SumIsInteger, FinitelyMany DEF DueCli
<1> QED BY <1>1, <1>2, <1>3, <1>4

LEMMA DueChatMoves ==
  ASSUME Staff, Staff', NEW j \in Jobs, \A i \in Jobs \ {j} : workers'[i] = workers[i],
         NEW p, NEW d \in Int, Owed(j, p)' = Owed(j, p) + d
  PROVE  DueChat(p)' = DueChat(p) + d
<1> DEFINE f == [i \in Jobs |-> Owed(i, p)]
           g == [i \in Jobs |-> Owed(i, p)']
<1>1. f \in [Jobs -> Int]
  BY OwedIsInteger
<1>2. g \in [Jobs -> Int]
  <2>1. \A i \in Jobs : workers'[i].spent.tokens \in Int
    BY DEF Staff, Money
  <2> QED BY <2>1 DEF Owed
<1>3. g[j] = f[j] + d /\ \A i \in Jobs \ {j} : g[i] = f[i]
  BY DEF Owed
<1> HIDE DEF f, g
<1>4. SumFunction(g) = SumFunction(f) + d
  BY <1>1, <1>2, <1>3, SumMoves, FinitelyMany
<1> QED BY <1>4 DEF f, g, DueChat

LEMMA DueCliMoves ==
  ASSUME NEW j \in Tasks, \A i \in Tasks \ {j} : cli'[i] = cli[i],
         NEW p, NEW d \in Int, CliOwed(j, p)' = CliOwed(j, p) + d
  PROVE  DueCli(p)' = DueCli(p) + d
<1> DEFINE f == [i \in Tasks |-> CliOwed(i, p)]
           g == [i \in Tasks |-> CliOwed(i, p)']
<1>1. f \in [Tasks -> Int] /\ g \in [Tasks -> Int]
  BY DEF CliOwed
<1>2. g[j] = f[j] + d /\ \A i \in Tasks \ {j} : g[i] = f[i]
  BY DEF CliOwed
<1> HIDE DEF f, g
<1>3. SumFunction(g) = SumFunction(f) + d
  BY <1>1, <1>2, SumMoves, FinitelyMany
<1> QED BY <1>3 DEF f, g, DueCli

LEMMA DueChatSame == ASSUME workers' = workers PROVE \A p : DueChat(p)' = DueChat(p)
BY DEF DueChat, Owed

LEMMA DueCliSame == ASSUME cli' = cli PROVE \A p : DueCli(p)' = DueCli(p)
BY DEF DueCli, CliOwed

LEMMA DueAgentSame == ASSUME UNCHANGED agent PROVE \A p : DueAgent(p)' = DueAgent(p)
<1>1. UNCHANGED <<pc, prov, answer>>
  BY DEF agent
<1>2. Spent(prov, answer.tokens)' = Spent(prov, answer.tokens)
  BY <1>1 DEF Spent
<1>3. PICK spent : spent = Spent(prov, answer.tokens)
  OBVIOUS
<1> QED BY <1>1, <1>2, <1>3 DEF DueAgent

\* Nothing is served, recorded or due.
LEMMA BalanceSame ==
  ASSUME Balance, Quiet,
         \A p \in Providers : /\ DueAgent(p)' = DueAgent(p)
                             /\ DueChat(p)' = DueChat(p) /\ DueCli(p)' = DueCli(p)
  PROVE  Balance'
<1>1. UNCHANGED <<generated, served>> /\ \A p \in Providers : UsageOf(p)' = UsageOf(p)
  BY QuietKeeps DEF Quiet
<1> QED BY <1>1 DEF Balance

LEMMA BalanceAgent ==
  ASSUME Heard, Figures, Staff, Balance, AgentNext
  PROVE  Balance'
<1>1. \A q \in Providers : /\ UsageOf(q) \in Int /\ generated[q] \in Int /\ served[q] \in Int
                           /\ DueAgent(q) \in Int /\ DueChat(q) \in Int /\ DueCli(q) \in Int
  BY DuesAreIntegers
<1>2. ASSUME UNCHANGED <<chat, others>>
      PROVE  /\ \A q : DueChat(q)' = DueChat(q) /\ DueCli(q)' = DueCli(q)
             /\ generated' = generated
  BY <1>2, DueChatSame, DueCliSame DEF chat, others, tasks
<1>3. CASE /\ Quiet /\ UNCHANGED <<chat, others>> /\ pc # "answered" /\ pc' # "answered"
  BY <1>2, <1>3, BalanceSame DEF DueAgent
<1>4. CASE Compact
  <2>1. pc = "compact" /\ pc' = "ask" /\ UNCHANGED <<chat, others>>
    BY <1>4, CompactBooks
  <2>2. ASSUME NEW p, NEW spent, CallBooked(Agent, p, spent)
        PROVE  Balance'
    <3>1. /\ p \in Providers /\ spent \in Money /\ Record(Agent, p, spent) /\ Serve(p, spent)
      BY <2>2, CalledProvide DEF CallBooked
    <3>2. \A q \in Providers : UsageOf(q)' = UsageOf(q) + (IF q = p THEN spent.tokens ELSE 0)
      BY <3>1, Recorded, Names
    <3>3. \A q \in Providers : served'[q] = served[q] + (IF q = p THEN spent.tokens ELSE 0)
      BY <3>1, Served
    <3>4. \A q : DueAgent(q)' = 0 /\ DueAgent(q) = 0
      BY <2>1 DEF DueAgent
    <3>5. spent.tokens \in Int
      BY <3>1 DEF Money
    <3> QED BY <1>1, <1>2, <2>1, <3>2, <3>3, <3>4, <3>5 DEF Balance
  <2> QED BY <1>3, <1>4, <2>1, <2>2, CompactBooks
<1>5. CASE Ask
  <2>1. pc = "ask" /\ UNCHANGED <<prov, ledger, chat, others>>
    BY <1>5, AskBooks
  <2>2. CASE Quiet /\ pc' # "answered"
    BY <1>3, <2>1, <2>2
  <2>3. ASSUME NEW p \in Called, NEW spent \in Money, p = prov, Serve(p, spent), pc' = "answered",
               spent = Spent(p, answer'.tokens)
        PROVE  Balance'
    <3>1. \A q \in Providers : served'[q] = served[q] + (IF q = p THEN spent.tokens ELSE 0)
      BY <2>3, Served, CalledProvide
    <3>2. \A q : DueAgent(q) = 0 /\ DueAgent(q)' = IF q = p THEN spent.tokens ELSE 0
      BY <2>1, <2>3 DEF DueAgent
    <3>3. \A q \in Providers : UsageOf(q)' = UsageOf(q)
      BY <2>1 DEF UsageOf, ledger
    <3>4. spent.tokens \in Int
      BY DEF Money
    <3> QED BY <1>1, <1>2, <2>1, <3>1, <3>2, <3>3, <3>4 DEF Balance
  <2> QED BY <1>5, <2>2, <2>3, AskBooks
<1>6. CASE RecordCall
  <2>1. pc = "answered" /\ pc' = "recorded" /\ UNCHANGED <<chat, others, served>>
    BY <1>6, RecordCallBooks
  <2>2. PICK p \in Called, spent \in Money :
          p = prov /\ Record(Agent, p, spent) /\ spent = Spent(p, answer.tokens)
    BY <1>6, RecordCallBooks
  <2>3. \A q \in Providers : UsageOf(q)' = UsageOf(q) + (IF q = p THEN spent.tokens ELSE 0)
    BY <2>2, Recorded, Names, CalledProvide
  <2>4. \A q : DueAgent(q)' = 0 /\ DueAgent(q) = IF q = p THEN spent.tokens ELSE 0
    BY <2>1, <2>2 DEF DueAgent
  <2>5. spent.tokens \in Int
    BY DEF Money
  <2> QED BY <1>1, <1>2, <2>1, <2>3, <2>4, <2>5 DEF Balance
<1>7. CASE UpdateRow
  <2>1. /\ pc = "recorded" /\ pc' = "act" /\ UNCHANGED <<entries, chat, others, served>>
    BY <1>7, UpdateRowBooks
  <2>2. \A q \in Providers : UsageOf(q)' = UsageOf(q) /\ DueAgent(q)' = 0 /\ DueAgent(q) = 0
    BY <2>1 DEF UsageOf, DueAgent
  <2> QED BY <1>2, <2>1, <2>2 DEF Balance
<1>8. CASE ~Compact /\ ~Ask /\ ~RecordCall /\ ~UpdateRow
  BY <1>3, <1>8, AgentQuiet
<1> QED BY <1>4, <1>5, <1>6, <1>7, <1>8

\* A worker that owes as much as before.
LEMMA DueChatStays ==
  ASSUME Staff, Staff', NEW j \in Jobs, \A i \in Jobs \ {j} : workers'[i] = workers[i],
         \A p : Owed(j, p)' = Owed(j, p)
  PROVE  \A p : DueChat(p)' = DueChat(p)
<1> SUFFICES ASSUME NEW p PROVE DueChat(p)' = DueChat(p)
  OBVIOUS
<1>1. Owed(j, p) \in Int /\ Owed(j, p)' = Owed(j, p) + 0
  BY OwedIsInteger
<1>2. DueChat(p)' = DueChat(p) + 0
  BY <1>1, DueChatMoves
<1>3. DueChat(p) \in Int
  <2>1. [i \in Jobs |-> Owed(i, p)] \in [Jobs -> Int]
    BY OwedIsInteger
  <2> QED BY <2>1, SumIsInteger, FinitelyMany DEF DueChat
<1> QED BY <1>2, <1>3

LEMMA BalanceChat ==
  ASSUME Conversing, Heard, Figures, Staff, Balance, ChatNext
  PROVE  Balance'
<1>1. Shape
  BY DEF Conversing
<1>2. \A q \in Providers : /\ UsageOf(q) \in Int /\ generated[q] \in Int /\ served[q] \in Int
                           /\ DueAgent(q) \in Int /\ DueChat(q) \in Int /\ DueCli(q) \in Int
  BY DuesAreIntegers
<1>3. Staff'
  BY StaffKept
<1>4. ASSUME UNCHANGED <<agent, others>>
      PROVE  /\ \A q : DueAgent(q)' = DueAgent(q) /\ DueCli(q)' = DueCli(q)
             /\ generated' = generated
  BY <1>4, DueAgentSame, DueCliSame DEF others, tasks
<1>5. ASSUME NEW j \in Jobs, \A i \in Jobs \ {j} : workers'[i] = workers[i],
             workers[j].at # "replied", workers'[j].at # "replied"
      PROVE  \A q : DueChat(q)' = DueChat(q)
  <2>1. \A q : Owed(j, q)' = 0 /\ Owed(j, q) = 0
    BY <1>5 DEF Owed
  <2> QED BY <1>3, <1>5, <2>1, DueChatStays
<1>6. CASE Open \/ Close
  <2>1. Quiet /\ UNCHANGED <<agent, others, workers>>
    BY <1>6, OpenBooks, CloseBooks
  <2>2. \A q : DueChat(q)' = DueChat(q)
    BY <2>1, DueChatSame
  <2> QED BY <1>4, <2>1, <2>2, BalanceSame
<1>7. CASE Send
  <2>1. Quiet /\ UNCHANGED <<agent, others>>
    BY <1>7, SendBooks
  <2>2. PICK j \in Jobs : /\ j = sends + 1 /\ workers'[j].at = "starting"
                          /\ \A i \in Jobs \ {j} : workers'[i] = workers[i]
    BY <1>7, SendBooks
  <2>3. workers[j].at = "unused"
    BY <1>1, <2>2 DEF Staff, Shape
  <2>4. \A q : DueChat(q)' = DueChat(q)
    BY <1>5, <2>2, <2>3
  <2> QED BY <1>4, <2>1, <2>4, BalanceSame
<1>8. ASSUME NEW j \in Jobs, Quiet, UNCHANGED <<agent, others>>, workers[j].at # "replied",
             NEW at, at # "replied", NEW job, NEW spent, Becomes(j, at, job, spent)
      PROVE  Balance'
  <2>1. \A q : DueChat(q)' = DueChat(q)
    BY <1>5, <1>8 DEF Becomes
  <2> QED BY <1>4, <1>8, <2>1, BalanceSame
<1>9. ASSUME NEW j \in Jobs, Take(j) \/ Deliver(j)
      PROVE  Balance'
  <2>1. CASE Take(j)
    <3>1. Quiet /\ UNCHANGED <<agent, others>> /\ workers[j].at = "starting"
      BY <1>1, <2>1, TakeBooks
    <3>2. PICK at : at \in {"ended", "sending"} /\ Becomes(j, at, slot, workers[j].spent)
      BY <1>1, <2>1, TakeBooks
    <3> QED BY <1>8, <3>1, <3>2
  <2>2. CASE Deliver(j)
    <3>1. Quiet /\ UNCHANGED <<agent, others>> /\ workers[j].at \in {"notifying", "failing"}
          /\ Becomes(j, "ended", workers[j].job, workers[j].spent)
      BY <1>1, <2>2, DeliverBooks
    <3> QED BY <1>8, <3>1
  <2> QED BY <1>9, <2>1, <2>2
<1>10. ASSUME NEW j \in Jobs, UpdateChatRow(j)
      PROVE  Balance'
  <2>1. /\ UNCHANGED <<agent, entries, others, served>> /\ workers[j].at = "recorded"
        /\ Becomes(j, "notifying", workers[j].job, workers[j].spent)
    BY <1>1, <1>10, UpdateChatRowBooks
  <2>2. \A q : DueChat(q)' = DueChat(q)
    BY <1>5, <2>1 DEF Becomes
  <2>3. \A q \in Providers : UsageOf(q)' = UsageOf(q)
    BY <2>1 DEF UsageOf
  <2> QED BY <1>4, <2>1, <2>2, <2>3 DEF Balance
<1>11. ASSUME NEW j \in Jobs, Reply(j)
       PROVE  Balance'
  <2>1. UNCHANGED <<agent, ledger, others>> /\ workers[j].at = "sending"
    BY <1>1, <1>11, ReplyBooks
  <2>2. CASE Quiet /\ Becomes(j, "failing", workers[j].job, workers[j].spent)
    BY <1>8, <2>1, <2>2
  <2>3. ASSUME NEW p \in Called, NEW spent \in Money, p = workers[j].job.prov, Serve(p, spent),
               Becomes(j, "replied", workers[j].job, spent)
        PROVE  Balance'
    <3>1. spent.tokens \in Int
      BY DEF Money
    <3>2. \A q \in Providers : served'[q] = served[q] + (IF q = p THEN spent.tokens ELSE 0)
      BY <2>3, Served, CalledProvide
    <3>3. ASSUME NEW q \in Providers
          PROVE  DueChat(q)' = DueChat(q) + (IF q = p THEN spent.tokens ELSE 0)
      <4>1. Owed(j, q)' = IF q = p THEN spent.tokens ELSE 0
        BY <2>3 DEF Owed, Becomes
      <4>2. Owed(j, q) = 0
        BY <2>1 DEF Owed
      <4>3. PICK d \in Int : d = IF q = p THEN spent.tokens ELSE 0
        BY <3>1
      <4>4. Owed(j, q)' = Owed(j, q) + d
        BY <4>1, <4>2, <4>3
      <4>5. DueChat(q)' = DueChat(q) + d
        BY <1>3, <2>3, <4>4, DueChatMoves DEF Becomes
      <4> QED BY <4>3, <4>5
    <3>4. \A q \in Providers : UsageOf(q)' = UsageOf(q)
      BY <2>1 DEF UsageOf, ledger
    <3> QED BY <1>2, <1>4, <2>1, <3>1, <3>2, <3>3, <3>4 DEF Balance
  <2> QED BY <1>1, <1>11, <2>2, <2>3, ReplyBooks
<1>12. ASSUME NEW j \in Jobs, RecordTurn(j)
       PROVE  Balance'
  <2>1. /\ UNCHANGED <<agent, others, served>> /\ workers[j].at = "replied"
        /\ Becomes(j, "recorded", workers[j].job, workers[j].spent)
    BY <1>1, <1>12, RecordTurnBooks
  <2>2. PICK w \in Chats, p \in Called : p = workers[j].job.prov /\ Record(Chat(w), p, workers[j].spent)
    BY <1>1, <1>12, RecordTurnBooks
  <2>3. PICK spent \in Money : spent = workers[j].spent
    BY DEF Staff
  <2>4. spent.tokens \in Int
    BY DEF Money
  <2>5. \A q \in Providers : UsageOf(q)' = UsageOf(q) + (IF q = p THEN spent.tokens ELSE 0)
    BY <2>2, <2>3, Recorded, Names, CalledProvide
  <2>6. ASSUME NEW q \in Providers
        PROVE  DueChat(q)' = DueChat(q) - (IF q = p THEN spent.tokens ELSE 0)
    <3>1. Owed(j, q) = IF q = p THEN spent.tokens ELSE 0
      BY <2>1, <2>2, <2>3 DEF Owed
    <3>2. Owed(j, q)' = 0
      BY <2>1 DEF Owed, Becomes
    <3>3. PICK d \in Int : d = -(IF q = p THEN spent.tokens ELSE 0)
      BY <2>4
    <3>4. Owed(j, q)' = Owed(j, q) + d
      BY <2>4, <3>1, <3>2, <3>3
    <3>5. DueChat(q)' = DueChat(q) + d
      BY <1>3, <2>1, <3>4, DueChatMoves DEF Becomes
    <3> QED BY <1>2, <2>4, <3>3, <3>5
  <2> QED BY <1>2, <1>4, <2>1, <2>4, <2>5, <2>6 DEF Balance
<1> QED BY <1>6, <1>7, <1>9, <1>10, <1>11, <1>12 DEF ChatNext, Worker

LEMMA BalanceCli ==
  ASSUME Heard, Figures, Staff, Launches, Balance, CliNext
  PROVE  Balance'
<1>1. \A q \in Providers : /\ UsageOf(q) \in Int /\ generated[q] \in Int /\ served[q] \in Int
                           /\ DueAgent(q) \in Int /\ DueChat(q) \in Int /\ DueCli(q) \in Int
  BY DuesAreIntegers
<1>2. ASSUME UNCHANGED <<agent, chat>>
      PROVE  \A q : DueAgent(q)' = DueAgent(q) /\ DueChat(q)' = DueChat(q)
  BY <1>2, DueAgentSame, DueChatSame DEF chat
<1>3. ASSUME NEW j \in Tasks, NEW at, CliMoves(j, at), NEW q, NEW d \in Int,
             d = (IF at = "rowed" /\ q = Cli THEN 2 ELSE 0) - CliOwed(j, q)
      PROVE  DueCli(q)' = DueCli(q) + d
  <2>1. CliOwed(j, q)' = CliOwed(j, q) + d
    BY <1>3 DEF CliOwed, CliMoves
  <2> QED BY <1>3, <2>1, DueCliMoves DEF CliMoves
<1>4. ASSUME NEW j \in Tasks, NEW at, CliMoves(j, at), Quiet, UNCHANGED <<agent, chat>>,
             cli[j].at # "rowed", at # "rowed"
      PROVE  Balance'
  <2>1. \A q \in Providers : DueCli(q)' = DueCli(q)
    <3> SUFFICES ASSUME NEW q \in Providers PROVE DueCli(q)' = DueCli(q)
      OBVIOUS
    <3>1. CliOwed(j, q) = 0
      BY <1>4 DEF CliOwed
    <3>2. DueCli(q)' = DueCli(q) + 0
      BY <1>3, <1>4, <3>1
    <3> QED BY <1>1, <3>2
  <2> QED BY <1>2, <1>4, <2>1, BalanceSame
<1>5. CASE Launch
  <2>1. PICK j \in Tasks : cli[j].at = "unused" /\ CliMoves(j, "starting")
    BY <1>5, LaunchBooks
  <2> QED BY <1>4, <1>5, <2>1, LaunchBooks
<1>6. ASSUME NEW j \in Tasks, TakeTask(j) \/ Finished(j)
      PROVE  Balance'
  BY <1>4, <1>6, TakeTaskBooks, FinishedBooks
<1>7. ASSUME NEW j \in Tasks, CliRow(j)
      PROVE  Balance'
  <2>1. UNCHANGED <<agent, chat, entries, generated>> /\ cli[j].at = "running"
    BY <1>7, CliRowBooks
  <2>2. CASE CliMoves(j, "finished") /\ Quiet
    BY <1>4, <2>1, <2>2
  <2>3. ASSUME NEW spent \in Money, CliMoves(j, "rowed"), Serve(Cli, spent), spent.tokens = 2
        PROVE  Balance'
    <3>1. \A q \in Providers : served'[q] = served[q] + (IF q = Cli THEN 2 ELSE 0)
      BY <2>3, Served, TurnsOK
    <3>2. ASSUME NEW q \in Providers
          PROVE  DueCli(q)' = DueCli(q) + (IF q = Cli THEN 2 ELSE 0)
      <4>1. PICK d \in Int : d = IF q = Cli THEN 2 ELSE 0
        OBVIOUS
      <4>2. CliOwed(j, q) = 0
        BY <2>1 DEF CliOwed
      <4>3. DueCli(q)' = DueCli(q) + d
        BY <1>3, <2>3, <4>1, <4>2
      <4> QED BY <4>1, <4>3
    <3>3. \A q \in Providers : UsageOf(q)' = UsageOf(q)
      BY <2>1 DEF UsageOf
    <3> QED BY <1>1, <1>2, <2>1, <3>1, <3>2, <3>3 DEF Balance
  <2> QED BY <1>7, <2>2, <2>3, CliRowBooks
<1>8. ASSUME NEW j \in Tasks, CliEntry(j)
      PROVE  Balance'
  <2>1. /\ UNCHANGED <<agent, chat, served, generated>>
        /\ cli[j].at = "rowed" /\ CliMoves(j, "finished")
    BY <1>8, CliEntryBooks
  <2>2. PICK spent \in Money : Record(CliRun(j), Cli, spent) /\ spent.tokens = 2
    BY <1>8, CliEntryBooks
  <2>3. \A q \in Providers : UsageOf(q)' = UsageOf(q) + (IF q = Cli THEN 2 ELSE 0)
    BY <2>2, Recorded, Names, TurnsOK
  <2>4. ASSUME NEW q \in Providers
        PROVE  DueCli(q)' = DueCli(q) - (IF q = Cli THEN 2 ELSE 0)
    <3>1. PICK d \in Int : d = 0 - (IF q = Cli THEN 2 ELSE 0)
      OBVIOUS
    <3>2. CliOwed(j, q) = IF q = Cli THEN 2 ELSE 0
      BY <2>1 DEF CliOwed
    <3>3. DueCli(q)' = DueCli(q) + d
      BY <1>3, <2>1, <3>1, <3>2
    <3> QED BY <1>1, <3>1, <3>3
  <2> QED BY <1>1, <1>2, <2>1, <2>3, <2>4 DEF Balance
<1> QED BY <1>5, <1>6, <1>7, <1>8 DEF CliNext, CliWorker

LEMMA BalanceProbe ==
  ASSUME Heard, Figures, Staff, Balance, NEW p \in Called, Probe(p) \/ Generate(p)
  PROVE  Balance'
<1>1. \A q \in Providers : /\ UsageOf(q) \in Int /\ generated[q] \in Int /\ served[q] \in Int
                           /\ DueAgent(q) \in Int /\ DueChat(q) \in Int /\ DueCli(q) \in Int
  BY DuesAreIntegers
<1>2. ASSUME UNCHANGED <<agent, chat, tasks>>
      PROVE  \A q : DueAgent(q)' = DueAgent(q) /\ DueChat(q)' = DueChat(q) /\ DueCli(q)' = DueCli(q)
  BY <1>2, DueAgentSame, DueChatSame, DueCliSame DEF chat, tasks
<1>3. CASE Probe(p)
  <2>1. UNCHANGED <<agent, chat, tasks>>
    BY <1>3, ProbeBooks
  <2>2. PICK spent : CallBooked(Probes, p, spent)
    BY <1>3, ProbeBooks
  <2>3. p \in Providers /\ spent \in Money /\ Record(Probes, p, spent) /\ Serve(p, spent) /\ generated' = generated
    BY <2>2, CalledProvide DEF CallBooked
  <2>4. spent.tokens \in Int
    BY <2>3 DEF Money
  <2>5. \A q \in Providers : UsageOf(q)' = UsageOf(q) + (IF q = p THEN spent.tokens ELSE 0)
    BY <2>3, Recorded, Names
  <2>6. \A q \in Providers : served'[q] = served[q] + (IF q = p THEN spent.tokens ELSE 0)
    BY <2>3, Served
  <2> QED BY <1>1, <1>2, <2>1, <2>3, <2>4, <2>5, <2>6 DEF Balance
<1>4. CASE Generate(p)
  <2>1. UNCHANGED <<agent, entries, chat, tasks>>
    BY <1>4, GenerateBooks DEF ledger
  <2>2. PICK spent \in Money : Serve(p, spent) /\ generated' = [generated EXCEPT ![p] = @ + spent.tokens]
    BY <1>4, GenerateBooks
  <2>3. spent.tokens \in Int
    BY DEF Money
  <2>4. \A q \in Providers : generated'[q] = generated[q] + (IF q = p THEN spent.tokens ELSE 0)
    BY <1>1, <2>2, <2>3 DEF Figures
  <2>5. \A q \in Providers : served'[q] = served[q] + (IF q = p THEN spent.tokens ELSE 0)
    BY <2>2, Served, CalledProvide
  <2>6. \A q \in Providers : UsageOf(q)' = UsageOf(q)
    BY <2>1 DEF UsageOf
  <2> QED BY <1>1, <1>2, <2>1, <2>3, <2>4, <2>5, <2>6 DEF Balance
<1> QED BY <1>3, <1>4

-----------------------------------------------------------------------------
(* The books.                                                              *)

Books == /\ Conversing /\ Heard /\ Figures /\ Launches /\ Staff
         /\ AgentBooks /\ ChatBooks /\ CliBooks /\ Balance

\* Nothing has been recorded.
LEMMA NothingRecorded ==
  ASSUME Init
  PROVE  /\ Figures
         /\ \A s \in Sessions : rows[s] = Nothing /\ Sum(s) = Nothing
         /\ \A p \in Providers : UsageOf(p) = 0 /\ generated[p] = 0 /\ served[p] = 0
<1>1. /\ entries = [s \in Sessions |-> [p \in Providers |-> Nothing]]
      /\ rows = [s \in Sessions |-> Nothing] /\ noted = Nothing
      /\ served = [p \in Providers |-> 0] /\ generated = [p \in Providers |-> 0]
  BY DEF Init
<1>2. Figures
  BY <1>1, NothingAdds DEF Figures
<1>3. ASSUME NEW s \in Sessions PROVE Sum(s) = Nothing
  <2>1. \A p \in Providers : entries[s][p].tokens = 0 /\ entries[s][p].cost = 0
    BY <1>1 DEF Nothing
  <2>2. SumFunction([p \in Providers |-> entries[s][p].tokens]) = 0
    BY <2>1, SumOfZeros, TurnsOK
  <2>3. SumFunction([p \in Providers |-> entries[s][p].cost]) = 0
    BY <2>1, SumOfZeros, TurnsOK
  <2> QED BY <2>2, <2>3 DEF Sum, Nothing
<1>4. ASSUME NEW p \in Providers PROVE UsageOf(p) = 0
  <2>1. \A s \in Sessions : entries[s][p].tokens = 0
    BY <1>1 DEF Nothing
  <2> QED BY <2>1, SumOfZeros, FinitelyMany DEF UsageOf
<1> QED BY <1>1, <1>2, <1>3, <1>4

LEMMA BooksAtFirst == ASSUME Init PROVE Books
<1>1. Conversing /\ Heard
  BY AtFirst, HeardAtFirst
<1>2. /\ Figures
      /\ \A s \in Sessions : rows[s] = Nothing /\ Sum(s) = Nothing
      /\ \A p \in Providers : UsageOf(p) = 0 /\ generated[p] = 0 /\ served[p] = 0
  BY NothingRecorded
<1>3. \A j \in Jobs : workers[j] = Idle
  BY DEF Init
<1>4. \A j \in Jobs : /\ workers[j].at = "unused" /\ workers[j].spent = Nothing
                      /\ ~HoldsJob(j) /\ ~Recording(j)
  BY <1>3 DEF Idle, HoldsJob, Held, Recording
<1>5. cli = [j \in Tasks |-> [at |-> "unused", task |-> NULL]]
  BY DEF Init
<1>6. opened \in {0, Windows} /\ launched \in {0, MaxTasks} /\ pc \in {"top", "absent"}
  BY DEF Init
<1>7. win = 0 /\ slot = NULL /\ totals = Nothing /\ noted = Nothing
  BY DEF Init
<1>8. Launches
  BY <1>5, <1>6, TurnsOK DEF Launches
<1>9. Staff
  BY <1>4, <1>6, <1>7, NothingAdds, TurnsOK DEF Staff
<1>10. AgentBooks
  <2>1. rows[Agent] = Nothing /\ Sum(Agent) = Nothing
    BY <1>2, Names
  <2> QED BY <2>1, <1>6, <1>7, NothingAdds DEF AgentBooks
<1>11. ChatBooks
  <2>1. OneJob
    BY <1>4 DEF OneJob
  <2>2. Prior
    BY <1>2, <1>4, <1>7, Names DEF Prior
  <2>3. InWindow
    BY <1>4, <1>7 DEF InWindow
  <2>4. Summed
    BY <1>2, <1>4, Names DEF Summed
  <2> QED BY <2>1, <2>2, <2>3, <2>4 DEF ChatBooks
<1>12. CliBooks
  BY <1>2, <1>5, Names DEF CliBooks, Nothing
<1>13. Balance
  <2> SUFFICES ASSUME NEW p \in Providers
               PROVE  DueAgent(p) = 0 /\ DueChat(p) = 0 /\ DueCli(p) = 0
    BY <1>2 DEF Balance
  <2>1. DueAgent(p) = 0
    BY <1>6 DEF DueAgent
  <2>2. DueChat(p) = 0
    BY <1>4, SumOfZeros, FinitelyMany DEF DueChat, Owed
  <2>3. DueCli(p) = 0
    BY <1>5, SumOfZeros, FinitelyMany DEF DueCli, CliOwed
  <2> QED BY <2>1, <2>2, <2>3
<1> QED BY <1>1, <1>2, <1>8, <1>9, <1>10, <1>11, <1>12, <1>13 DEF Books

\* Who changes what.
LEMMA AgentAlone == ASSUME AgentNext PROVE UNCHANGED <<chat, tasks>>
<1>1. UNCHANGED <<chat, others>>
  BY DEF AgentNext, Top, SkipCompaction, Compact, Ask, Migrate, Fail, RecordCall,
         UpdateRow, RunTools, ToolPanics, Nudge, Done
<1> QED BY <1>1 DEF others

LEMMA ChatAlone == ASSUME ChatNext PROVE UNCHANGED <<agent, noted, tasks>>
<1>1. UNCHANGED <<agent, noted, others>>
  BY DEF ChatNext, Worker, Open, Close, Send, Take, Reply, RecordTurn, UpdateChatRow, Deliver
<1> QED BY <1>1 DEF others

LEMMA CliAlone == ASSUME CliNext PROVE UNCHANGED <<agent, noted, chat>>
BY DEF CliNext, CliWorker, Launch, TakeTask, CliRow, CliEntry, Finished

LEMMA ProbeAlone == ASSUME NEW p \in Called, Probe(p) \/ Generate(p) PROVE UNCHANGED <<agent, noted, chat, tasks>>
BY DEF Probe, Generate

LEMMA LaunchesElsewhere == ASSUME Launches, UNCHANGED tasks PROVE Launches'
BY DEF Launches, tasks

LEMMA LaunchesKept == ASSUME Launches, CliNext PROVE Launches'
BY LaunchBooks, TakeTaskBooks, CliRowBooks, CliEntryBooks, FinishedBooks DEF CliNext, CliWorker

LEMMA ChatTouches ==
  ASSUME Shape, Staff, Figures, ChatNext
  PROVE  Figures' /\ \A s \in Sessions : (\A w \in Chats : s # Chat(w)) => Apart(s)
<1>1. CASE Open \/ Close
  BY <1>1, OpenBooks, CloseBooks, QuietKeeps
<1>2. CASE Send
  BY <1>2, QuietKeeps DEF Send, Quiet, others
<1>3. ASSUME NEW j \in Jobs, Worker(j)
      PROVE  Figures' /\ \A s \in Sessions : (\A w \in Chats : s # Chat(w)) => Apart(s)
  BY <1>3, WorkerTouches
<1> QED BY <1>1, <1>2, <1>3 DEF ChatNext

LEMMA ChatBooksKept ==
  ASSUME Conversing, Staff, Figures, ChatBooks, ChatNext
  PROVE  ChatBooks'
<1>1. Shape
  BY DEF Conversing
<1>2. CASE Open \/ Close \/ Send
  BY <1>1, <1>2, ChatBooksOpen, ChatBooksClose, ChatBooksSend
<1>3. ASSUME NEW j \in Jobs, Worker(j)
      PROVE  ChatBooks'
  BY <1>1, <1>3, ChatBooksTake, ChatBooksReply, ChatBooksRecord, ChatBooksUpdate, ChatBooksDeliver DEF Worker
<1> QED BY <1>2, <1>3 DEF ChatNext

LEMMA BooksKept == Books /\ [Next]_vars => Books'
<1> SUFFICES ASSUME Books, [Next]_vars PROVE Books'
  OBVIOUS
<1>1. /\ Conversing /\ Heard /\ Figures /\ Launches /\ Staff
      /\ AgentBooks /\ ChatBooks /\ CliBooks /\ Balance /\ Shape
  BY DEF Books, Conversing
<1>2. Conversing' /\ Heard'
  BY <1>1, StepKeeps, HeardKept
<1>3. CASE AgentNext
  <2>1. UNCHANGED <<chat, tasks>> /\ cli' = cli
    BY <1>3, AgentAlone DEF tasks
  <2>2. Figures' /\ \A s \in Sessions \ {Agent} : Apart(s)
    BY <1>1, <1>3, AgentTouches
  <2>3. (\A w \in Chats : Apart(Chat(w))) /\ (\A j \in Tasks : Apart(CliRun(j)))
    BY <2>2, Names
  <2>4. Launches' /\ Staff'
    BY <1>1, <2>1, LaunchesElsewhere, StaffElsewhere
  <2>5. AgentBooks'
    BY <1>1, <1>3, AgentBooksKept
  <2>6. ChatBooks'
    BY <1>1, <2>1, <2>3, ChatBooksElsewhere
  <2>7. CliBooks'
    BY <1>1, <2>1, <2>3, CliBooksElsewhere
  <2>8. Balance'
    BY <1>1, <1>3, BalanceAgent
  <2> QED BY <1>2, <2>2, <2>4, <2>5, <2>6, <2>7, <2>8 DEF Books
<1>4. CASE ChatNext
  <2>1. UNCHANGED <<agent, noted, tasks>> /\ cli' = cli
    BY <1>4, ChatAlone DEF tasks
  <2>2. Figures' /\ \A s \in Sessions : (\A w \in Chats : s # Chat(w)) => Apart(s)
    BY <1>1, <1>4, ChatTouches
  <2>3. Apart(Agent) /\ (\A j \in Tasks : Apart(CliRun(j)))
    BY <2>2, Names
  <2>4. Launches' /\ Staff'
    BY <1>1, <1>4, <2>1, LaunchesElsewhere, StaffKept
  <2>5. AgentBooks'
    BY <1>1, <2>1, <2>3, AgentBooksElsewhere
  <2>6. ChatBooks'
    BY <1>1, <1>4, ChatBooksKept
  <2>7. CliBooks'
    BY <1>1, <2>1, <2>3, CliBooksElsewhere
  <2>8. Balance'
    BY <1>1, <1>4, BalanceChat
  <2> QED BY <1>2, <2>2, <2>4, <2>5, <2>6, <2>7, <2>8 DEF Books
<1>5. CASE CliNext
  <2>1. UNCHANGED <<agent, noted, chat>>
    BY <1>5, CliAlone
  <2>2. Figures' /\ \A s \in Sessions : (\A j \in Tasks : s # CliRun(j)) => Apart(s)
    BY <1>1, <1>5, CliTouches
  <2>3. Apart(Agent) /\ (\A w \in Chats : Apart(Chat(w)))
    BY <2>2, Names
  <2>4. Launches' /\ Staff'
    BY <1>1, <1>5, <2>1, LaunchesKept, StaffElsewhere
  <2>5. AgentBooks'
    BY <1>1, <2>1, <2>3, AgentBooksElsewhere
  <2>6. ChatBooks'
    BY <1>1, <2>1, <2>3, ChatBooksElsewhere
  <2>7. CliBooks'
    BY <1>1, <1>5, CliBooksKept
  <2>8. Balance'
    BY <1>1, <1>5, BalanceCli
  <2> QED BY <1>2, <2>2, <2>4, <2>5, <2>6, <2>7, <2>8 DEF Books
<1>6. ASSUME NEW p \in Called, Probe(p) \/ Generate(p)
      PROVE  Books'
  <2>1. UNCHANGED <<agent, noted, chat, tasks>> /\ cli' = cli
    BY <1>6, ProbeAlone DEF tasks
  <2>2. Figures' /\ \A s \in Sessions \ {Probes} : Apart(s)
    BY <1>1, <1>6, ProbeTouches
  <2>3. Apart(Agent) /\ (\A w \in Chats : Apart(Chat(w))) /\ (\A j \in Tasks : Apart(CliRun(j)))
    BY <2>2, Names
  <2>4. Launches' /\ Staff'
    BY <1>1, <2>1, LaunchesElsewhere, StaffElsewhere
  <2>5. AgentBooks'
    BY <1>1, <2>1, <2>3, AgentBooksElsewhere
  <2>6. ChatBooks'
    BY <1>1, <2>1, <2>3, ChatBooksElsewhere
  <2>7. CliBooks'
    BY <1>1, <2>1, <2>3, CliBooksElsewhere
  <2>8. Balance'
    BY <1>1, <1>6, BalanceProbe
  <2> QED BY <1>2, <2>2, <2>4, <2>5, <2>6, <2>7, <2>8 DEF Books
<1>7. CASE UNCHANGED vars
  <2>1. UNCHANGED <<agent, chat, tasks, noted>> /\ Quiet /\ cli' = cli
    BY <1>7 DEF vars, others, tasks, Quiet
  <2>2. Figures' /\ \A s \in Sessions : Apart(s)
    BY <1>1, <2>1, QuietKeeps
  <2>3. Apart(Agent) /\ (\A w \in Chats : Apart(Chat(w))) /\ (\A j \in Tasks : Apart(CliRun(j)))
    BY <2>2, Names
  <2>4. Launches' /\ Staff'
    BY <1>1, <2>1, LaunchesElsewhere, StaffElsewhere
  <2>5. AgentBooks'
    BY <1>1, <2>1, <2>3, AgentBooksElsewhere
  <2>6. ChatBooks'
    BY <1>1, <2>1, <2>3, ChatBooksElsewhere
  <2>7. CliBooks'
    BY <1>1, <2>1, <2>3, CliBooksElsewhere
  <2>8. \A q : DueAgent(q)' = DueAgent(q) /\ DueChat(q)' = DueChat(q) /\ DueCli(q)' = DueCli(q)
    BY <2>1, DueAgentSame, DueChatSame, DueCliSame DEF chat
  <2>9. Balance'
    BY <1>1, <2>1, <2>8, BalanceSame
  <2> QED BY <1>2, <2>2, <2>4, <2>5, <2>6, <2>7, <2>9 DEF Books
<1> QED BY <1>3, <1>4, <1>5, <1>6, <1>7 DEF Next

\* Between an entry and its row, the row of every session in ledger.rs tells
\* what its entries tell together: the agent's but for its summaries, a chat's
\* whoever has taken its jobs, and the tokens of every launch of a CLI.
THEOREM BooksAddUp == Spec => []RowsAddUp
<1>1. ASSUME Books PROVE RowsAddUp
  <2>1. pc # "recorded" => Plus(rows[Agent], noted) = Sum(Agent)
    BY <1>1 DEF Books, AgentBooks
  <2>2. ASSUME NEW w \in Chats, \A j \in Jobs : workers[j].at = "recorded" => workers[j].job.home # w
        PROVE  rows[Chat(w)] = Sum(Chat(w))
    BY <1>1, <2>2 DEF Books, ChatBooks, Summed, Recording, HomeOf
  <2>3. ASSUME NEW j \in Tasks, cli[j].at # "rowed"
        PROVE  rows[CliRun(j)].tokens = Sum(CliRun(j)).tokens
    BY <1>1, <2>3 DEF Books, CliBooks, Launches
  <2> QED BY <2>1, <2>2, <2>3 DEF RowsAddUp
<1>2. Init => Books
  BY BooksAtFirst
<1>3. Books => RowsAddUp
  BY <1>1
<1> QED BY <1>2, <1>3, BooksKept, PTL DEF Spec

\* Once nothing waits to be recorded, the entries under a provider, which its
\* budgets and alerts add up, and the texts generated with it are what that
\* provider has reported: no call is charged twice, to no one or to another.
THEOREM ServedIsCharged == Spec => []ChargedToWhoServed
<1>1. ASSUME Books PROVE ChargedToWhoServed
  <2> SUFFICES ASSUME ~Unrecorded, NEW p \in Providers
               PROVE  UsageOf(p) + generated[p] = served[p]
    BY DEF ChargedToWhoServed
  <2>1. /\ pc # "answered" /\ \A j \in Tasks : cli[j].at # "rowed"
        /\ \A j \in Jobs : workers[j].at # "replied"
    BY DEF Unrecorded
  <2>2. DueAgent(p) = 0
    BY <2>1 DEF DueAgent
  <2>3. DueChat(p) = 0
    BY <2>1, SumOfZeros, FinitelyMany DEF DueChat, Owed
  <2>4. DueCli(p) = 0
    BY <2>1, SumOfZeros, FinitelyMany DEF DueCli, CliOwed
  <2>5. UsageOf(p) \in Int /\ generated[p] \in Int
    BY <1>1, UsageIsInteger DEF Books, Figures
  <2> QED BY <1>1, <2>2, <2>3, <2>4, <2>5 DEF Books, Balance
<1>2. Init => Books
  BY BooksAtFirst
<1>3. Books => ChargedToWhoServed
  BY <1>1
<1> QED BY <1>2, <1>3, BooksKept, PTL DEF Spec

-----------------------------------------------------------------------------
(* Numbers in their order.                                                  *)

LEMMA CountUpTo ==
  ASSUME NEW n \in Nat
  PROVE  IsFiniteSet(1 .. n) /\ Cardinality(1 .. n) = n
<1>1. /\ IsFiniteSet(1 .. n)
      /\ Cardinality(1 .. n) = IF 1 > n THEN 0 ELSE n - 1 + 1
  BY FS_Interval
<1> QED BY <1>1

\* Where D[x] is what comes before x, the elements of S in their order.
LEMMA Ordering ==
  ASSUME NEW S, IsFiniteSet(S), NEW D \in [S -> SUBSET S],
         \A x \in S : x \notin D[x],
         \A x, y \in S : x \in D[y] => D[x] \subseteq D[y],
         \A x, y \in S : x # y => x \in D[y] \/ y \in D[x],
         NEW order, order = [k \in 1 .. Cardinality(S) |-> order[k]],
         \A k \in 1 .. Cardinality(S) :
           (\E x \in S : Cardinality(D[x]) = k - 1) =>
             order[k] \in S /\ Cardinality(D[order[k]]) = k - 1
  PROVE  /\ order \in [1 .. Cardinality(S) -> S]
         /\ \A x \in S : \E k \in 1 .. Cardinality(S) : order[k] = x
         /\ \A i, j \in 1 .. Cardinality(S) : i < j => order[i] \in D[order[j]]
<1> DEFINE n == Cardinality(S)
           rank == [x \in S |-> Cardinality(D[x]) + 1]
<1>1. n \in Nat
  BY FS_CardinalityType
<1>2. \A x \in S : IsFiniteSet(D[x]) /\ Cardinality(D[x]) \in Nat
  BY FS_Subset, FS_CardinalityType
<1>3. ASSUME NEW x \in S, NEW y \in S, x \in D[y]
      PROVE  Cardinality(D[x]) < Cardinality(D[y])
  <2>1. D[x] \subseteq D[y] /\ D[x] # D[y]
    BY <1>3
  <2>2. /\ Cardinality(D[x]) <= Cardinality(D[y])
        /\ Cardinality(D[x]) # Cardinality(D[y])
    BY <2>1, <1>2, FS_Subset
  <2> QED BY <2>2, <1>2
<1>4. ASSUME NEW x \in S PROVE Cardinality(D[x]) < n
  <2>1. D[x] \in SUBSET S /\ D[x] # S
    OBVIOUS
  <2>2. Cardinality(D[x]) <= n /\ Cardinality(D[x]) # n
    BY <2>1, FS_Subset
  <2> QED BY <2>2, <1>1, <1>2
<1>5. rank \in [S -> 1 .. n]
  BY <1>1, <1>2, <1>4
<1>6. \A x, y \in S : rank[x] = rank[y] => x = y
  <2> SUFFICES ASSUME NEW x \in S, NEW y \in S, rank[x] = rank[y], x # y PROVE FALSE
    OBVIOUS
  <2>1. Cardinality(D[x]) = Cardinality(D[y])
    BY <1>2
  <2>2. x \in D[y] \/ y \in D[x]
    OBVIOUS
  <2> QED BY <2>1, <2>2, <1>2, <1>3
<1>7. rank \in Injection(S, 1 .. n)
  BY <1>5, <1>6, Fun_IsInj
<1>8. rank \in Surjection(S, 1 .. n)
  <2>1. IsFiniteSet(1 .. n) /\ Cardinality(S) = Cardinality(1 .. n)
    BY <1>1, CountUpTo
  <2> QED BY <1>7, <2>1, FS_Injection
<1> HIDE DEF rank
<1>9. \A k \in 1 .. n : \E x \in S : rank[x] = k
  BY <1>8 DEF Surjection
<1>10. ASSUME NEW k \in 1 .. n PROVE order[k] \in S /\ Cardinality(D[order[k]]) = k - 1
  <2>1. PICK x \in S : rank[x] = k
    BY <1>9
  <2>2. Cardinality(D[x]) = k - 1
    BY <2>1, <1>2 DEF rank
  <2> QED BY <2>2
<1>11. order \in [1 .. n -> S]
  BY <1>10
<1>12. ASSUME NEW x \in S PROVE \E k \in 1 .. n : order[k] = x
  <2>1. rank[x] \in 1 .. n /\ Cardinality(D[x]) = rank[x] - 1
    BY <1>2, <1>5 DEF rank
  <2>2. order[rank[x]] \in S /\ Cardinality(D[order[rank[x]]]) = Cardinality(D[x])
    BY <2>1, <1>10
  <2>3. order[rank[x]] = x
    BY <2>2, <1>6 DEF rank
  <2> QED BY <2>1, <2>3
<1>13. ASSUME NEW i \in 1 .. n, NEW j \in 1 .. n, i < j PROVE order[i] \in D[order[j]]
  <2>1. /\ order[i] \in S /\ Cardinality(D[order[i]]) = i - 1
        /\ order[j] \in S /\ Cardinality(D[order[j]]) = j - 1
    BY <1>10
  <2>2. order[i] # order[j]
    BY <2>1, <1>1, <1>13
  <2>3. order[i] \in D[order[j]] \/ order[j] \in D[order[i]]
    BY <2>1, <2>2
  <2>4. order[j] \notin D[order[i]]
    <3>1. ASSUME order[j] \in D[order[i]] PROVE FALSE
      <4>1. Cardinality(D[order[j]]) < Cardinality(D[order[i]])
        BY <2>1, <3>1, <1>3
      <4> QED BY <4>1, <2>1, <1>1, <1>13
    <3> QED BY <3>1
  <2> QED BY <2>3, <2>4
<1> QED BY <1>11, <1>12, <1>13

\* The numbers of I, from the least to the greatest.
Enumerates(at, I) ==
  /\ Cardinality(I) \in Nat /\ at \in [1 .. Cardinality(I) -> I]
  /\ \A x \in I : \E k \in 1 .. Cardinality(I) : at[k] = x
  /\ \A i, j \in 1 .. Cardinality(I) : i < j => at[i] < at[j]

LEMMA Places ==
  ASSUME NEW I \in SUBSET Nat, IsFiniteSet(I)
  PROVE  Enumerates(InOrder(I, <), I)
<1> DEFINE D == [x \in I |-> {y \in I : y < x}]
           at == InOrder(I, <)
           Nth(k) == CHOOSE x \in I : Cardinality({y \in I : y < x}) = k - 1
<1>1. at = [k \in 1 .. Cardinality(I) |-> Nth(k)]
  BY DEF InOrder
<1> HIDE DEF at
<1>2. ASSUME NEW k \in 1 .. Cardinality(I), NEW z \in I, Cardinality(D[z]) = k - 1
      PROVE  at[k] \in I /\ Cardinality(D[at[k]]) = k - 1
  <2>1. Cardinality({y \in I : y < z}) = k - 1
    BY <1>2
  <2>2. at[k] = CHOOSE x \in I : Cardinality({y \in I : y < x}) = k - 1
    <3> HIDE DEF Nth
    <3>1. at[k] = Nth(k)
      BY <1>1
    <3> QED BY <3>1 DEF Nth
  <2>3. at[k] \in I /\ Cardinality({y \in I : y < at[k]}) = k - 1
    BY <2>1, <2>2
  <2> QED BY <2>3
<1>3. at = [k \in 1 .. Cardinality(I) |-> at[k]]
  <2> HIDE DEF Nth
  <2> QED BY <1>1
<1>4. /\ D \in [I -> SUBSET I]
      /\ \A x \in I : x \notin D[x]
      /\ \A x, y \in I : x \in D[y] => D[x] \subseteq D[y]
      /\ \A x, y \in I : x # y => x \in D[y] \/ y \in D[x]
  <2>1. \A x, y \in I : x \in D[y] <=> x < y
    OBVIOUS
  <2>2. D \in [I -> SUBSET I]
    OBVIOUS
  <2> HIDE DEF D
  <2>3. \A x, y, z \in I : x < y /\ z < x => z < y
    OBVIOUS
  <2>4. \A x, y \in I : x \in D[y] => D[x] \subseteq D[y]
    BY <2>1, <2>2, <2>3
  <2>5. \A x, y \in I : ~(x < x) /\ (x # y => x < y \/ y < x)
    OBVIOUS
  <2> QED BY <2>1, <2>2, <2>4, <2>5
<1>5. \A x, y \in I : x \in D[y] => x < y
  OBVIOUS
<1>6. Cardinality(I) \in Nat
  BY FS_CardinalityType
<1> HIDE DEF D, Nth
<1>7. \A k \in 1 .. Cardinality(I) :
         (\E x \in I : Cardinality(D[x]) = k - 1) => at[k] \in I /\ Cardinality(D[at[k]]) = k - 1
  BY <1>2
<1>8. IsFiniteSet(I)
  OBVIOUS
<1>9. /\ at \in [1 .. Cardinality(I) -> I]
      /\ \A x \in I : \E k \in 1 .. Cardinality(I) : at[k] = x
      /\ \A i, j \in 1 .. Cardinality(I) : i < j => at[i] \in D[at[j]]
  BY <1>7, <1>8, <1>3, <1>4, Ordering
<1>10. \A i, j \in 1 .. Cardinality(I) : i < j => at[i] < at[j]
  <2>1. \A i \in 1 .. Cardinality(I) : at[i] \in I
    BY <1>9
  <2> QED BY <1>5, <1>9, <2>1
<1>11. Enumerates(at, I)
  BY <1>6, <1>9, <1>10 DEF Enumerates
<1> QED BY <1>11 DEF at

-----------------------------------------------------------------------------
(* The agent's history.                                                     *)

\* The provers do not know that a literal is a string.
Strings ==
  STRING \cup {"system", "user", "assistant", "results", "tool", "", "given", "call", "salvaged",
              "none", "whole", "string", "object", "word", "..."}

CallIds == Strings \X Nat \X Nat
Calls == [id : CallIds, tool : Strings, args : Strings]
Outcomes == [id : CallIds, tool : Strings, of : Calls]
Texts == Seq(Strings)
Entries == [is : Strings, text : Texts, calls : Seq(Calls), answers : Seq(Outcomes)]

\* No two calls of one reply have the same id.
Distinct(calls) ==
  /\ calls \in Seq(Calls)
  /\ \A i, k \in 1 .. Len(calls) : calls[i].id = calls[k].id => i = k

Results(calls) == [i \in DOMAIN calls |-> Outcome(calls[i])]

\* An answer of the model with what the agent puts behind it.
Exchange(m, n) ==
  \/ /\ m.is = "assistant" /\ Distinct(m.calls) /\ m.calls # <<>>
     /\ n.is = "results" /\ n.answers = Results(m.calls)
  \/ m.is = "assistant" /\ m.calls = <<>> /\ n.is = "user"

\* After its first b entries h is exchanges.
Exchanges(h, b) ==
  /\ Len(h) >= b /\ (Len(h) - b) % 2 = 0
  /\ \A i \in b + 1 .. Len(h) - 1 : (i - b) % 2 = 1 => Exchange(h[i], h[i + 1])

\* Only an assistant has calls and only results answer some.
Proper(h) ==
  /\ h \in Seq(Entries)
  /\ \A i \in 1 .. Len(h) : /\ h[i].is # "assistant" => h[i].calls = <<>>
                            /\ h[i].is # "results" => h[i].answers = <<>>

\* The head, perhaps the summary of a compaction, and exchanges.
Settled(h) ==
  /\ Proper(h) /\ Len(h) >= 2
  /\ h[1].is = "system" /\ h[2].is = "user"
  /\ \E b \in {2, 3} : Exchanges(h, b) /\ (b = 3 => h[3].is = "system")

-----------------------------------------------------------------------------
(* In the formats of OpenAI and Ollama.                                     *)

Sent == [id : CallIds, tool : Strings, args : Strings, form : Strings]
Spoken == [role : Strings, content : Texts, calls : Seq(Sent)]
Returned == [role : {"tool"}, of : Calls, id : CallIds, name : Strings]
Message == Spoken \cup Returned

LEMMA Literals ==
  \A s \in {"system", "user", "assistant", "results", "tool", "", "given", "call", "salvaged",
           "none", "whole", "string", "object", "word", "..."} : s \in Strings
BY DEF Strings

LEMMA EntryMessages ==
  ASSUME NEW m \in Entries, NEW style
  PROVE  OpenAiMessages(m, style) \in Seq(Message)
<1>1. CASE m.is = "results"
  <2> DEFINE told(i) == [role |-> "tool", of |-> m.answers[i].of, id |-> m.answers[i].id,
                         name |-> IF style = "ollama" THEN m.answers[i].tool ELSE ""]
  <2>1. m.answers \in Seq(Outcomes) /\ Len(m.answers) \in Nat /\ DOMAIN m.answers = 1 .. Len(m.answers)
    BY DEF Entries
  <2>2. ASSUME NEW i \in 1 .. Len(m.answers) PROVE told(i) \in Message
    <3>1. m.answers[i] \in Outcomes
      BY <2>1
    <3>2. \A s \in Strings : (IF style = "ollama" THEN s ELSE "") \in Strings
      BY Literals
    <3> QED BY <3>1, <3>2 DEF Outcomes, Message, Returned
  <2>3. OpenAiMessages(m, style) = [i \in 1 .. Len(m.answers) |-> told(i)]
    BY <1>1, <2>1 DEF OpenAiMessages
  <2> HIDE DEF told
  <2> QED BY <2>1, <2>2, <2>3
<1>2. CASE m.is = "assistant" /\ m.calls = <<>>
  <2> DEFINE text == IF m.text = <<>> THEN Ellipsis ELSE m.text
  <2>1. text \in Texts
    <3>1. "..." \in Strings
      BY Literals
    <3>2. Ellipsis \in Seq(Strings)
      BY <3>1 DEF Ellipsis
    <3> QED BY <3>2 DEF Texts, Entries
  <2>2. OpenAiMessages(m, style) = <<OpenAiMessage("assistant", text, <<>>)>>
    BY <1>2 DEF OpenAiMessages
  <2> HIDE DEF text
  <2>3. OpenAiMessage("assistant", text, <<>>) \in Message
    <3>1. "assistant" \in Strings
      BY Literals
    <3>2. <<>> \in Seq(Sent)
      OBVIOUS
    <3> QED BY <2>1, <3>1, <3>2 DEF OpenAiMessage, Message, Spoken
  <2> QED BY <2>2, <2>3
<1>3. CASE m.is = "assistant" /\ m.calls # <<>>
  <2> DEFINE sent == [i \in DOMAIN m.calls |-> OpenAiCall(m.calls[i], style)]
  <2>1. m.calls \in Seq(Calls) /\ Len(m.calls) \in Nat /\ DOMAIN m.calls = 1 .. Len(m.calls)
    BY DEF Entries
  <2>2. ASSUME NEW i \in 1 .. Len(m.calls) PROVE OpenAiCall(m.calls[i], style) \in Sent
    <3>1. m.calls[i] \in Calls
      BY <2>1
    <3>2. (IF style = "openai" THEN "string" ELSE "object") \in Strings
      BY Literals
    <3> QED BY <3>1, <3>2 DEF Calls, Sent, OpenAiCall
  <2>3. sent \in Seq(Sent)
    BY <2>1, <2>2
  <2>4. OpenAiMessages(m, style) = <<OpenAiMessage("assistant", m.text, sent)>>
    BY <1>3 DEF OpenAiMessages
  <2> HIDE DEF sent
  <2>5. OpenAiMessage("assistant", m.text, sent) \in Message
    BY <2>3, Literals DEF OpenAiMessage, Message, Spoken, Entries
  <2> QED BY <2>4, <2>5
<1>4. CASE m.is \notin {"results", "assistant"}
  <2>1. OpenAiMessages(m, style) = <<OpenAiMessage(m.is, m.text, <<>>)>>
    BY <1>4 DEF OpenAiMessages
  <2>3. OpenAiMessage(m.is, m.text, <<>>) \in Message
    BY <1>4 DEF OpenAiMessage, Message, Spoken, Entries
  <2> QED BY <2>1, <2>3
<1> QED BY <1>1, <1>2, <1>3, <1>4

\* What OpenAiFits says of one message.
FitsAt(body, j) ==
  /\ body[j].role = "assistant" /\ body[j].calls # <<>> =>
       /\ j + Len(body[j].calls) <= Len(body)
       /\ LET next == SubSeq(body, j + 1, j + Len(body[j].calls))
          IN  /\ \A i \in DOMAIN next : next[i].role = "tool"
              /\ Addressed(next, body[j].calls)
  /\ body[j].role = "tool" =>
       \E i \in 1 .. j - 1 : body[i].role = "assistant" /\ j - i <= Len(body[i].calls)

LEMMA FitsEverywhere ==
  ASSUME NEW body PROVE OpenAiFits(body) <=> \A j \in DOMAIN body : FitsAt(body, j)
BY DEF OpenAiFits, FitsAt

LEMMA CallsOfMessage ==
  ASSUME NEW x \in Message, x.role = "assistant", x.calls # <<>>
  PROVE  x.calls \in Seq(Sent) /\ Len(x.calls) \in Nat \ {0}
<1>1. x \in Spoken \/ x.role = "tool"
  BY DEF Message, Returned
<1>2. x.calls \in Seq(Sent)
  BY <1>1 DEF Spoken
<1> QED BY <1>2

\* Whatever was called is answered at once, and the other way round: a body
\* stays so when another one is put behind it.
LEMMA FitsTogether ==
  ASSUME NEW s \in Seq(Message), NEW t \in Seq(Message), OpenAiFits(s), OpenAiFits(t)
  PROVE  OpenAiFits(s \o t)
<1> DEFINE u == s \o t
           m == Len(s)
           n == Len(t)
<1>1. /\ m \in Nat /\ n \in Nat /\ DOMAIN s = 1 .. m /\ DOMAIN t = 1 .. n
      /\ u \in Seq(Message) /\ Len(u) = m + n /\ DOMAIN u = 1 .. m + n
      /\ \A i \in 1 .. m + n : u[i] = IF i <= m THEN s[i] ELSE t[i - m]
  <2>1. m \in Nat /\ n \in Nat /\ DOMAIN s = 1 .. m /\ DOMAIN t = 1 .. n
    OBVIOUS
  <2>2. /\ u \in Seq(Message) /\ Len(u) = m + n
        /\ \A i \in 1 .. m + n : u[i] = IF i <= m THEN s[i] ELSE t[i - m]
    BY ConcatProperties
  <2> HIDE DEF u
  <2>3. DOMAIN u = 1 .. m + n
    BY <2>2
  <2> QED BY <2>1, <2>2, <2>3
<1>2. \A i, k \in 1 .. m : SubSeq(u, i, k) = SubSeq(s, i, k)
  BY SubSeqOfConcat1
<1>3. \A i, k \in m + 1 .. m + n : SubSeq(u, i, k) = SubSeq(t, i - m, k - m)
  BY SubSeqOfConcat2
<1> HIDE DEF u, m, n
<1>4. m \in Nat /\ n \in Nat
  BY <1>1
<1>5. ASSUME NEW j \in 1 .. m PROVE FitsAt(u, j)
  <2>1. FitsAt(s, j) /\ u[j] = s[j] /\ s[j] \in Message
    <3>1. s[j] \in Message /\ j \in DOMAIN s /\ j \in 1 .. m + n /\ j <= m
      BY <1>1
    <3> QED BY <3>1, <1>1, FitsEverywhere
  <2>2. ASSUME s[j].role = "assistant", s[j].calls # <<>>
        PROVE  /\ j + Len(s[j].calls) <= m + n
               /\ SubSeq(u, j + 1, j + Len(s[j].calls)) = SubSeq(s, j + 1, j + Len(s[j].calls))
    <3>1. Len(s[j].calls) \in Nat \ {0}
      BY <2>1, <2>2, CallsOfMessage
    <3>2. j + Len(s[j].calls) <= m
      BY <2>1, <2>2 DEF FitsAt, m
    <3>3. j + 1 \in 1 .. m /\ j + Len(s[j].calls) \in 1 .. m
      BY <3>1, <3>2, <1>1
    <3> QED BY <3>2, <3>3, <1>1, <1>2
  <2>3. ASSUME s[j].role = "tool"
        PROVE  \E i \in 1 .. j - 1 : u[i].role = "assistant" /\ j - i <= Len(u[i].calls)
    <3>1. PICK i \in 1 .. j - 1 : s[i].role = "assistant" /\ j - i <= Len(s[i].calls)
      BY <2>1, <2>3 DEF FitsAt
    <3>2. u[i] = s[i]
      BY <1>1
    <3> QED BY <3>1, <3>2
  <2> QED BY <2>1, <2>2, <2>3, <1>1 DEF FitsAt
<1>6. ASSUME NEW k \in 1 .. n PROVE FitsAt(u, m + k)
  <2>4. PICK j : j = m + k
    OBVIOUS
  <2>1. FitsAt(t, k) /\ u[m + k] = t[k] /\ t[k] \in Message
    <3>1. t[k] \in Message /\ k \in DOMAIN t /\ m + k \in 1 .. m + n /\ ~(m + k <= m) /\ (m + k) - m = k
      BY <1>1 DEF n
    <3> QED BY <3>1, <1>1, FitsEverywhere
  <2>2. ASSUME t[k].role = "assistant", t[k].calls # <<>>
        PROVE  /\ m + k + Len(t[k].calls) <= m + n
               /\ SubSeq(u, m + k + 1, m + k + Len(t[k].calls)) = SubSeq(t, k + 1, k + Len(t[k].calls))
    <3>1. PICK c \in Nat \ {0} : c = Len(t[k].calls)
      BY <2>1, <2>2, CallsOfMessage
    <3>2. k + c <= n /\ c \in Nat /\ c >= 1 /\ k \in Nat
      BY <2>1, <2>2, <3>1 DEF FitsAt, n
    <3>3. /\ m + k + 1 \in m + 1 .. m + n /\ m + k + c \in m + 1 .. m + n
          /\ m + k + 1 - m = k + 1 /\ m + k + c - m = k + c
      BY <3>2, <1>4
    <3>6. PICK a, b : a = m + k + 1 /\ b = m + k + c
      OBVIOUS
    <3>4. SubSeq(u, m + k + 1, m + k + c) = SubSeq(t, k + 1, k + c)
      <4>1. a \in m + 1 .. m + n /\ b \in m + 1 .. m + n /\ a - m = k + 1 /\ b - m = k + c
        BY <3>3, <3>6, <3>2, <1>4
      <4>2. SubSeq(u, a, b) = SubSeq(t, a - m, b - m)
        BY <4>1, <1>3
      <4> QED BY <4>1, <4>2, <3>6
    <3>5. m + k + c <= m + n
      BY <3>2, <1>4
    <3> QED BY <3>1, <3>4, <3>5
  <2>3. ASSUME t[k].role = "tool"
        PROVE  \E i \in 1 .. j - 1 : u[i].role = "assistant" /\ j - i <= Len(u[i].calls)
    <3>1. PICK i \in 1 .. k - 1 : t[i].role = "assistant" /\ k - i <= Len(t[i].calls)
      BY <2>1, <2>3 DEF FitsAt
    <3>6. i \in Nat /\ i >= 1 /\ i < k /\ k \in Nat /\ k <= n
      BY <1>4
    <3>2. /\ m + i \in 1 .. m + n /\ ~(m + i <= m) /\ (m + i) - m = i
          /\ m + i \in 1 .. m + k - 1 /\ m + k - (m + i) = k - i
      BY <3>6, <1>4
    <3>3. u[m + i] = t[i]
      BY <3>2, <1>1
    <3>4. PICK g : g = m + i
      OBVIOUS
    <3>7. j - g = k - i /\ g \in 1 .. j - 1
      BY <3>6, <3>4, <2>4, <1>4
    <3>5. u[g].role = "assistant" /\ j - g <= Len(u[g].calls) /\ g \in 1 .. j - 1
      <4>1. u[g] = t[i]
        BY <3>3, <3>4
      <4> QED BY <3>1, <3>7, <4>1
    <3> QED BY <3>5
  <2>5. u[j] = t[k] /\ Len(u) = m + n
    BY <2>1, <2>4, <1>1
  <2>7. t[k].role = "assistant" /\ t[k].calls # <<>> =>
          /\ j + Len(t[k].calls) <= m + n
          /\ SubSeq(u, j + 1, j + Len(t[k].calls)) = SubSeq(t, k + 1, k + Len(t[k].calls))
    BY <2>2, <2>4
  <2>8. t[k].role = "tool" =>
          \E i \in 1 .. j - 1 : u[i].role = "assistant" /\ j - i <= Len(u[i].calls)
    BY <2>3
  <2>6. FitsAt(u, j)
    BY <2>1, <2>5, <2>7, <2>8 DEF FitsAt
  <2> QED BY <2>4, <2>6
<1>7. ASSUME NEW j \in DOMAIN u PROVE FitsAt(u, j)
  <2>1. CASE j <= m
    BY <2>1, <1>1, <1>5
  <2>2. CASE j > m
    <3>1. j - m \in 1 .. n /\ m + (j - m) = j
      BY <2>2, <1>1
    <3> QED BY <3>1, <1>6
  <2> QED BY <2>1, <2>2, <1>1
<1>8. OpenAiFits(u)
  BY <1>7, FitsEverywhere
<1> QED BY <1>8 DEF u

\* Messages that neither call nor answer fit in.
LEMMA SpeechFits ==
  ASSUME NEW body, \A j \in DOMAIN body : body[j].role # "tool" /\ body[j].calls = <<>>
  PROVE  OpenAiFits(body)
BY FitsEverywhere DEF FitsAt

\* Calls with different ids and their results.
LEMMA CallsFit ==
  ASSUME NEW m \in Entries, NEW n \in Entries, NEW style, Exchange(m, n), m.calls # <<>>
  PROVE  OpenAiFits(OpenAiMessages(m, style) \o OpenAiMessages(n, style))
<1> DEFINE sent == [i \in DOMAIN m.calls |-> OpenAiCall(m.calls[i], style)]
           x == OpenAiMessage("assistant", m.text, sent)
           told(i) == [role |-> "tool", of |-> n.answers[i].of, id |-> n.answers[i].id,
                       name |-> IF style = "ollama" THEN n.answers[i].tool ELSE ""]
           back == [i \in DOMAIN n.answers |-> told(i)]
           body == <<x>> \o back
<1>1. /\ m.is = "assistant" /\ Distinct(m.calls) /\ n.is = "results" /\ n.answers = Results(m.calls)
  BY DEF Exchange
<1>2. PICK c \in Nat \ {0} : c = Len(m.calls) /\ DOMAIN m.calls = 1 .. c
  <2>1. m.calls \in Seq(Calls)
    BY <1>1 DEF Distinct
  <2> QED BY <2>1
<1>3. /\ DOMAIN n.answers = 1 .. c
      /\ \A i \in 1 .. c : n.answers[i] = Outcome(m.calls[i])
  BY <1>1, <1>2 DEF Results
<1>4. OpenAiMessages(m, style) = <<x>> /\ OpenAiMessages(n, style) = back
  BY <1>1 DEF OpenAiMessages
<1>5. <<x>> \in Seq(Message) /\ back \in Seq(Message)
  BY <1>4, EntryMessages
<1> HIDE DEF x
<1>6. /\ Len(back) = c /\ DOMAIN back = 1 .. c
      /\ \A i \in 1 .. c : /\ back[i].role = "tool" /\ back[i].id = m.calls[i].id
                           /\ back[i].of = m.calls[i]
  <2>1. \A i \in 1 .. c : /\ told(i).role = "tool" /\ told(i).id = m.calls[i].id
                          /\ told(i).of = m.calls[i]
    <3> TAKE i \in 1 .. c
    <3>1. n.answers[i].id = m.calls[i].id /\ n.answers[i].of = m.calls[i]
      <4>1. n.answers[i] = Outcome(m.calls[i])
        BY <1>3
      <4>2. \A call : Outcome(call).id = call.id /\ Outcome(call).of = call
        BY DEF Outcome
      <4> QED BY <4>1, <4>2
    <3>2. told(i).role = "tool" /\ told(i).id = n.answers[i].id /\ told(i).of = n.answers[i].of
      OBVIOUS
    <3> QED BY <3>1, <3>2
  <2> HIDE DEF told
  <2>2. back = [i \in 1 .. c |-> told(i)]
    BY <1>3
  <2> HIDE DEF back
  <2>3. Len(back) = c /\ DOMAIN back = 1 .. c /\ \A i \in 1 .. c : back[i] = told(i)
    BY <2>2, <1>2
  <2> QED BY <2>1, <2>3
<1> HIDE DEF back, told
<1>7. /\ Len(body) = c + 1 /\ DOMAIN body = 1 .. c + 1 /\ body \in Seq(Message)
      /\ body[1] = x /\ \A i \in 1 .. c : body[1 + i] = back[i]
  <2>1. /\ body \in Seq(Message) /\ Len(body) = Len(<<x>>) + Len(back)
        /\ \A i \in 1 .. Len(<<x>>) + Len(back) :
             body[i] = IF i <= Len(<<x>>) THEN <<x>>[i] ELSE back[i - Len(<<x>>)]
    BY <1>5, ConcatProperties
  <2>2. Len(<<x>>) = 1 /\ <<x>>[1] = x
    OBVIOUS
  <2> HIDE DEF body
  <2>6. Len(<<x>>) + Len(back) = c + 1
    BY <2>2, <1>2, <1>6
  <2>3. Len(body) = c + 1 /\ \A i \in 1 .. c + 1 : body[i] = IF i <= 1 THEN x ELSE back[i - 1]
    BY <2>1, <2>2, <2>6
  <2>4. DOMAIN body = 1 .. c + 1 /\ body[1] = x
    BY <2>1, <2>3, <1>2
  <2>5. ASSUME NEW i \in 1 .. c PROVE body[1 + i] = back[i]
    <3>1. 1 + i \in 1 .. c + 1 /\ ~(1 + i <= 1) /\ (1 + i) - 1 = i
      BY <1>2
    <3> QED BY <3>1, <2>3
  <2> QED BY <2>1, <2>3, <2>4, <2>5
<1> HIDE DEF body
<1>8. x.role = "assistant" /\ x.calls = sent
  BY DEF x, OpenAiMessage
<1>9. Len(sent) = c /\ DOMAIN sent = 1 .. c /\ \A i \in 1 .. c : sent[i] = OpenAiCall(m.calls[i], style)
  BY <1>2
<1> HIDE DEF sent
<1>10. Addressed(back, sent)
  <2>1. DOMAIN back = 1 .. c
    BY <1>6
  <2>2. ASSUME NEW i \in 1 .. c
        PROVE  /\ sent[i].id = back[i].id
               /\ sent[i].tool = back[i].of.tool /\ sent[i].args = back[i].of.args
    BY <1>6, <1>9 DEF OpenAiCall
  <2>3. ASSUME NEW i \in 1 .. c, NEW k \in 1 .. c, sent[k].id = back[i].id
        PROVE  k = i
    <3>1. m.calls[k].id = m.calls[i].id
      BY <2>3, <1>6, <1>9 DEF OpenAiCall
    <3> QED BY <3>1, <1>1, <1>2 DEF Distinct
  <2> QED BY <2>1, <2>2, <2>3, <1>6, <1>9 DEF Addressed
<1>11. FitsAt(body, 1)
  <2> DEFINE next == SubSeq(body, 2, 1 + c)
  <2>1. /\ Len(next) = c /\ DOMAIN next = 1 .. c
        /\ \A i \in 1 .. c : next[i] = back[i]
    <3>1. Len(next) = (1 + c) - 2 + 1 /\ \A i \in 1 .. (1 + c) - 2 + 1 : next[i] = body[2 + i - 1]
      BY <1>2, <1>7, SubSeqProperties
    <3>2. DOMAIN next = 1 .. c
      BY <1>2
    <3>3. ASSUME NEW i \in 1 .. c PROVE body[2 + i - 1] = body[1 + i]
      <4>1. 2 + i - 1 = 1 + i
        OBVIOUS
      <4> QED BY <4>1
    <3>4. (1 + c) - 2 + 1 = c
      BY <1>2
    <3> HIDE DEF next
    <3> QED BY <3>1, <3>2, <3>3, <3>4, <1>7
  <2> HIDE DEF next
  <2>2. next = back
    <3>1. back = [i \in 1 .. c |-> back[i]] /\ next = [i \in 1 .. c |-> next[i]]
      <4>1. DOMAIN back = 1 .. c
        BY <1>6
      <4>2. next = [i \in DOMAIN next |-> next[i]]
        BY DEF next
      <4> QED BY <4>1, <4>2, <2>1, <1>5
    <3> QED BY <3>1, <2>1
  <2>3. \A i \in DOMAIN next : next[i].role = "tool"
    BY <2>1, <1>6
  <2>4. Addressed(next, sent)
    BY <2>2, <1>10
  <2>5. next = SubSeq(body, 1 + 1, 1 + Len(sent))
    BY <1>9, <1>2 DEF next
  <2> QED BY <2>3, <2>4, <2>5, <1>7, <1>8, <1>9, <1>2 DEF FitsAt
<1>12. ASSUME NEW i \in 1 .. c PROVE FitsAt(body, 1 + i)
  <2>1. body[1 + i].role = "tool"
    BY <1>6, <1>7
  <2>2. 1 \in 1 .. (1 + i) - 1 /\ (1 + i) - 1 <= c
    BY <1>2
  <2>3. \E f \in 1 .. (1 + i) - 1 : body[f].role = "assistant" /\ (1 + i) - f <= Len(body[f].calls)
    BY <2>2, <1>7, <1>8, <1>9
  <2> QED BY <2>1, <2>3 DEF FitsAt
<1>13. ASSUME NEW j \in DOMAIN body PROVE FitsAt(body, j)
  <2>1. CASE j = 1
    BY <2>1, <1>11
  <2>2. CASE j # 1
    <3>1. j - 1 \in 1 .. c /\ 1 + (j - 1) = j
      BY <2>2, <1>7, <1>2
    <3> QED BY <3>1, <1>12
  <2> QED BY <2>1, <2>2
<1>14. OpenAiFits(body)
  BY <1>13, FitsEverywhere
<1> QED BY <1>4, <1>14 DEF body

LEMMA ExchangeFits ==
  ASSUME NEW m \in Entries, NEW n \in Entries, NEW style, Exchange(m, n), n.is # "results" => n.calls = <<>>
  PROVE  OpenAiFits(OpenAiMessages(m, style) \o OpenAiMessages(n, style))
<1>1. CASE m.calls # <<>>
  BY <1>1, CallsFit
<1>2. CASE m.calls = <<>>
  <2>1. m.is = "assistant" /\ n.is = "user"
    BY <1>2 DEF Exchange
  <2> DEFINE x == OpenAiMessage("assistant", IF m.text = <<>> THEN Ellipsis ELSE m.text, <<>>)
             y == OpenAiMessage("user", n.text, <<>>)
  <2>2. OpenAiMessages(m, style) = <<x>> /\ OpenAiMessages(n, style) = <<y>>
    BY <1>2, <2>1 DEF OpenAiMessages
  <2>3. x.role = "assistant" /\ x.calls = <<>> /\ y.role = "user" /\ y.calls = <<>>
    BY DEF OpenAiMessage
  <2> HIDE DEF x, y
  <2>4. PICK a, b, z : a = <<x>> /\ b = <<y>> /\ z = a \o b
    OBVIOUS
  <2>5. a \in Seq({x, y}) /\ b \in Seq({x, y}) /\ Len(a) = 1 /\ Len(b) = 1 /\ a[1] = x /\ b[1] = y
    BY <2>4
  <2>6. /\ Len(z) = 2 /\ z \in Seq({x, y})
        /\ \A i \in 1 .. 2 : z[i] = IF i <= 1 THEN a[i] ELSE b[i - 1]
    BY <2>4, <2>5, ConcatProperties
  <2>7. DOMAIN z = 1 .. 2 /\ z[1] = x /\ z[2] = y
    BY <2>5, <2>6
  <2>8. OpenAiFits(z)
    BY <2>3, <2>7, SpeechFits
  <2>9. z = OpenAiMessages(m, style) \o OpenAiMessages(n, style)
    BY <2>2, <2>4
  <2> QED BY <2>8, <2>9
<1> QED BY <1>1, <1>2

LEMMA SayingFits ==
  ASSUME NEW m \in Entries, NEW style, m.is \in {"system", "user"}
  PROVE  OpenAiFits(OpenAiMessages(m, style))
<1> DEFINE x == OpenAiMessage(m.is, m.text, <<>>)
<1>1. OpenAiMessages(m, style) = <<x>>
  BY DEF OpenAiMessages
<1>2. x.role # "tool" /\ x.calls = <<>>
  BY DEF OpenAiMessage
<1> HIDE DEF x
<1>3. OpenAiFits(<<x>>)
  BY <1>2, SpeechFits
<1> QED BY <1>1, <1>3

LEMMA LeastNumber ==
  ASSUME NEW Bad \in SUBSET Nat, Bad # {}
  PROVE  \E n \in Bad : \A m \in Bad : n <= m
<1>1. PICK n \in Bad : \A m \in Bad : <<m, n>> \notin OpToRel(<, Nat)
  BY NatLessThanWellFounded, WFMin
<1>2. ASSUME NEW m \in Bad PROVE n <= m
  <2>1. ASSUME m < n PROVE FALSE
    <3>1. <<m, n>> \in OpToRel(<, Nat)
      BY <2>1 DEF OpToRel
    <3> QED BY <3>1, <1>1
  <2>2. m \in Nat /\ n \in Nat
    OBVIOUS
  <2> QED BY <2>1, <2>2
<1> QED BY <1>2

\* FlattenSeq goes along its sequences, up to the n-th one.
Joins(s, n, g) == g = [i \in 1 .. n |-> IF i = 1 THEN s[i] ELSE g[i - 1] \o s[i]]
Joined(s) == CHOOSE g : Joins(s, Len(s), g)

LEMMA FlattenIsJoined == ASSUME NEW s, Len(s) # 0 PROVE FlattenSeq(s) = Joined(s)[Len(s)]
BY DEF FlattenSeq, Joined, Joins

LEMMA JoinsExist ==
  ASSUME NEW s, Len(s) \in Nat
  PROVE  Joins(s, Len(s), Joined(s))
<1> DEFINE Bad == {n \in Nat : ~ \E g : Joins(s, n, g)}
<1>1. ASSUME NEW n \in Bad, n - 1 \notin Bad PROVE FALSE
  <2>1. PICK g : n = 0 \/ Joins(s, n - 1, g)
    BY <1>1
  <2> DEFINE h == [i \in 1 .. n |-> IF i = 1 THEN s[i] ELSE g[i - 1] \o s[i]]
  <2>2. ASSUME NEW i \in 1 .. n, i # 1 PROVE h[i - 1] = g[i - 1]
    <3>1. i - 1 \in 1 .. n /\ i - 1 \in 1 .. n - 1 /\ n # 0
      BY <2>2
    <3>2. Joins(s, n - 1, g)
      BY <3>1, <2>1
    <3> DEFINE k == i - 1
    <3>3. k \in 1 .. n /\ k \in 1 .. n - 1
      BY <3>1
    <3> HIDE DEF k
    <3>4. g[k] = IF k = 1 THEN s[k] ELSE g[k - 1] \o s[k]
      BY <3>2, <3>3 DEF Joins
    <3>5. h[k] = IF k = 1 THEN s[k] ELSE g[k - 1] \o s[k]
      BY <3>3
    <3>6. h[k] = g[k]
      BY <3>4, <3>5
    <3> QED BY <3>6 DEF k
  <2>3. h = [i \in 1 .. n |-> IF i = 1 THEN s[i] ELSE h[i - 1] \o s[i]]
    <3> HIDE DEF h
    <3>1. h = [i \in 1 .. n |-> IF i = 1 THEN s[i] ELSE g[i - 1] \o s[i]]
      BY DEF h
    <3> QED BY <3>1, <2>2
  <2>4. Joins(s, n, h)
    BY <2>3 DEF Joins
  <2> QED BY <2>4
<1>2. Bad = {}
  <2> HIDE DEF Bad
  <2>1. Bad \in SUBSET Nat
    BY DEF Bad
  <2> QED BY <1>1, <2>1, SmallestNumber
<1>3. \E g : Joins(s, Len(s), g)
  BY <1>2
<1> QED BY <1>3 DEF Joined

LEMMA JoinedStep ==
  ASSUME NEW s, Len(s) \in Nat, NEW i \in 1 .. Len(s)
  PROVE  Joined(s)[i] = IF i = 1 THEN s[i] ELSE Joined(s)[i - 1] \o s[i]
<1>1. Joins(s, Len(s), Joined(s))
  BY JoinsExist
<1> QED BY <1>1 DEF Joins

LEMMA JoinedMessages ==
  ASSUME NEW s \in Seq(Seq(Message)), NEW n \in 1 .. Len(s)
  PROVE  Joined(s)[n] \in Seq(Message)
<1> DEFINE Bad == {i \in Nat : i \in 1 .. Len(s) /\ Joined(s)[i] \notin Seq(Message)}
<1>1. ASSUME NEW i \in Bad, i - 1 \notin Bad PROVE FALSE
  <2>1. i \in 1 .. Len(s) /\ s[i] \in Seq(Message) /\ Len(s) \in Nat
    OBVIOUS
  <2>2. Joined(s)[i] = IF i = 1 THEN s[i] ELSE Joined(s)[i - 1] \o s[i]
    BY <2>1, JoinedStep
  <2>3. i # 1 => i - 1 \in 1 .. Len(s)
    BY <2>1
  <2>4. i # 1 => Joined(s)[i - 1] \in Seq(Message)
    BY <2>3, <1>1
  <2>5. i # 1 => Joined(s)[i - 1] \o s[i] \in Seq(Message)
    BY <2>1, <2>4, ConcatProperties
  <2> QED BY <2>1, <2>2, <2>5
<1>2. Bad = {}
  <2> HIDE DEF Bad
  <2>1. Bad \in SUBSET Nat
    BY DEF Bad
  <2> QED BY <1>1, <2>1, SmallestNumber
<1> QED BY <1>2

\* A settled history in the format of OpenAI or Ollama.
LEMMA SettledFitsOpenAi ==
  ASSUME NEW h, Settled(h), NEW style
  PROVE  OpenAiFits(OpenAiBody(h, style))
<1> DEFINE told(i) == OpenAiMessages(h[i], style)
           s == [i \in DOMAIN h |-> told(i)]
<1>1. /\ h \in Seq(Entries) /\ Len(h) \in Nat /\ DOMAIN h = 1 .. Len(h) /\ Len(h) >= 2
      /\ h[1].is = "system" /\ h[2].is = "user"
  BY DEF Settled, Proper
<1>2. PICK b \in {2, 3} : Exchanges(h, b) /\ (b = 3 => h[3].is = "system")
  BY DEF Settled
<1>3. b \in Nat /\ b >= 2 /\ Len(h) >= b /\ (Len(h) - b) % 2 = 0
  BY <1>2 DEF Exchanges
<1>4. s \in Seq(Seq(Message)) /\ Len(s) = Len(h) /\ \A i \in 1 .. Len(h) : s[i] = told(i)
  <2>1. \A i \in 1 .. Len(h) : told(i) \in Seq(Message)
    <3> TAKE i \in 1 .. Len(h)
    <3>1. h[i] \in Entries
      BY <1>1
    <3> QED BY <3>1, EntryMessages
  <2> HIDE DEF told
  <2>2. s = [i \in 1 .. Len(h) |-> told(i)]
    BY <1>1
  <2> HIDE DEF s
  <2> QED BY <2>1, <2>2, <1>1
<1> HIDE DEF s
<1> DEFINE j == Joined(s)
<1>5. \A i \in 1 .. Len(h) : j[i] = (IF i = 1 THEN s[i] ELSE j[i - 1] \o s[i]) /\ j[i] \in Seq(Message)
  <2>1. Len(s) \in Nat
    BY <1>1, <1>4
  <2> QED BY <1>4, <2>1, JoinedStep, JoinedMessages
<1> HIDE DEF j
<1> DEFINE Ends(n) == n <= b \/ (n - b) % 2 = 0
           Bad == {n \in Nat : n \in 1 .. Len(h) /\ Ends(n) /\ ~OpenAiFits(j[n])}
<1>6. ASSUME NEW n \in Bad, \A i \in Bad : n <= i PROVE FALSE
  <2>1. n \in Nat /\ n \in 1 .. Len(h) /\ Ends(n) /\ ~OpenAiFits(j[n])
    OBVIOUS
  <2> HIDE DEF Ends
  <2>2. CASE n <= b
    <3>1. h[n].is \in {"system", "user"} /\ h[n] \in Entries
      <4>1. n = 1 \/ n = 2 \/ (n = 3 /\ b = 3)
        BY <2>1, <2>2, <1>2
      <4> QED BY <4>1, <1>1, <1>2, <2>1
    <3>2. OpenAiFits(s[n]) /\ s[n] \in Seq(Message)
      BY <3>1, <1>4, <2>1, SayingFits, EntryMessages
    <3>3. CASE n = 1
      BY <3>2, <3>3, <2>1, <1>5
    <3>4. CASE n # 1
      <4>1. n - 1 \in Nat /\ n - 1 \in 1 .. Len(h) /\ n - 1 <= b /\ ~(n <= n - 1)
        BY <3>4, <2>1, <2>2, <1>3
      <4>2. OpenAiFits(j[n - 1])
        BY <4>1, <1>6 DEF Ends
      <4>3. OpenAiFits(j[n - 1] \o s[n])
        BY <4>1, <4>2, <3>2, <1>5, FitsTogether
      <4> QED BY <4>3, <3>4, <2>1, <1>5
    <3> QED BY <3>3, <3>4
  <2>3. CASE ~(n <= b)
    <3>1. /\ n - 2 \in Nat /\ n - 2 \in 1 .. Len(h) /\ (n - 2 <= b \/ ((n - 2) - b) % 2 = 0) /\ ~(n <= n - 2)
          /\ n - 1 \in b + 1 .. Len(h) - 1 /\ ((n - 1) - b) % 2 = 1 /\ (n - 1) + 1 = n
          /\ n - 1 \in 1 .. Len(h) /\ n - 1 # 1 /\ n # 1 /\ (n - 1) - 1 = n - 2
      BY <2>1, <2>3, <1>3, <1>1 DEF Ends
    <3>2. Exchange(h[n - 1], h[n])
      BY <3>1, <1>2 DEF Exchanges
    <3>3. h[n - 1] \in Entries /\ h[n] \in Entries /\ (h[n].is # "results" => h[n].calls = <<>>)
      <4>1. h[n].is # "assistant"
        BY <3>2 DEF Exchange
      <4> QED BY <4>1, <3>1, <2>1, <1>1 DEF Settled, Proper
    <3>4. OpenAiFits(s[n - 1] \o s[n])
      BY <3>1, <3>2, <3>3, <2>1, <1>4, ExchangeFits
    <3>5. s[n - 1] \in Seq(Message) /\ s[n] \in Seq(Message) /\ j[n - 2] \in Seq(Message)
      BY <3>1, <2>1, <1>4, <1>5
    <3>6. OpenAiFits(j[n - 2])
      BY <3>1, <1>6 DEF Ends
    <3>7. s[n - 1] \o s[n] \in Seq(Message)
      BY <3>5, ConcatProperties
    <3>8. OpenAiFits(j[n - 2] \o (s[n - 1] \o s[n]))
      BY <3>4, <3>5, <3>6, <3>7, FitsTogether
    <3>9. (j[n - 2] \o s[n - 1]) \o s[n] = j[n - 2] \o (s[n - 1] \o s[n])
      <4>1. PICK x, y, z : x = j[n - 2] /\ y = s[n - 1] /\ z = s[n]
        OBVIOUS
      <4>2. x \in Seq(Message) /\ y \in Seq(Message) /\ z \in Seq(Message)
        BY <3>5, <4>1
      <4>3. (x \o y) \o z = x \o (y \o z)
        BY <4>2, ConcatAssociative
      <4> QED BY <4>1, <4>3
    <3>10. j[n] = j[n - 1] \o s[n] /\ j[n - 1] = j[n - 2] \o s[n - 1]
      BY <3>1, <2>1, <1>5
    <3> QED BY <3>8, <3>9, <3>10, <2>1
  <2> QED BY <2>2, <2>3
<1>7. Bad = {}
  <2> HIDE DEF Bad
  <2>1. Bad \in SUBSET Nat
    BY DEF Bad
  <2> QED BY <1>6, <2>1, LeastNumber
<1>8. OpenAiFits(j[Len(h)])
  BY <1>7, <1>3, <1>1
<1>9. OpenAiBody(h, style) = j[Len(h)]
  <2>1. OpenAiBody(h, style) = FlattenSeq(s)
    BY DEF OpenAiBody, s
  <2>2. Len(s) # 0
    BY <1>1, <1>4
  <2> QED BY <2>1, <2>2, <1>4, FlattenIsJoined DEF j
<1> QED BY <1>8, <1>9

\* After its head every entry of a settled history belongs to an exchange.
LEMMA SettledEntries ==
  ASSUME NEW h, Settled(h), NEW i \in 1 .. Len(h), h[i].is # "system"
  PROVE  /\ h[i].is \in {"user", "assistant", "results"}
         /\ h[i].is = "assistant" => i + 1 \in 1 .. Len(h) /\ Exchange(h[i], h[i + 1])
         /\ h[i].is = "results" => i - 1 \in 1 .. Len(h) /\ Exchange(h[i - 1], h[i])
<1>1. /\ Len(h) \in Nat /\ Len(h) >= 2 /\ h[1].is = "system" /\ h[2].is = "user"
  BY DEF Settled, Proper
<1>2. PICK b \in {2, 3} : Exchanges(h, b) /\ (b = 3 => h[3].is = "system")
  BY DEF Settled
<1>3. b \in Nat /\ b >= 2 /\ Len(h) >= b /\ (Len(h) - b) % 2 = 0 /\ i \in Nat
  BY <1>2 DEF Exchanges
<1>4. CASE i <= b
  <2>1. i = 2
    BY <1>1, <1>2, <1>4
  <2> QED BY <2>1, <1>1
<1>5. CASE i > b /\ (i - b) % 2 = 1
  <2>1. i \in b + 1 .. Len(h) - 1 /\ i + 1 \in 1 .. Len(h)
    BY <1>1, <1>3, <1>5
  <2>2. Exchange(h[i], h[i + 1])
    BY <2>1, <1>2, <1>5 DEF Exchanges
  <2> QED BY <2>1, <2>2 DEF Exchange
<1>6. CASE i > b /\ (i - b) % 2 = 0
  <2>1. /\ i - 1 \in b + 1 .. Len(h) - 1 /\ i - 1 \in 1 .. Len(h) /\ ((i - 1) - b) % 2 = 1
        /\ (i - 1) + 1 = i
    BY <1>1, <1>3, <1>6
  <2>2. Exchange(h[i - 1], h[i])
    BY <2>1, <1>2 DEF Exchanges
  <2> QED BY <2>1, <2>2 DEF Exchange
<1> QED BY <1>3, <1>4, <1>5, <1>6

LEMMA NextPlace ==
  ASSUME NEW I \in SUBSET Nat, NEW at, Enumerates(at, I),
         NEW k \in 1 .. Cardinality(I), at[k] + 1 \in I
  PROVE  k + 1 \in 1 .. Cardinality(I) /\ at[k + 1] = at[k] + 1
<1>1. PICK n \in Nat : n = Cardinality(I)
  BY DEF Enumerates
<1>2. /\ \A i \in 1 .. n : at[i] \in Nat
      /\ \A i, j \in 1 .. n : i < j => at[i] < at[j]
  BY <1>1 DEF Enumerates
<1>3. PICK l \in 1 .. n : at[l] = at[k] + 1
  BY <1>1 DEF Enumerates
<1>4. k \in 1 .. n /\ at[k] \in Nat
  BY <1>1, <1>2
<1>5. k < l
  <2>1. CASE l < k
    BY <1>2, <1>3, <1>4, <2>1
  <2>2. CASE l = k
    BY <1>3, <1>4, <2>2
  <2> QED BY <2>1, <2>2, <1>4, <1>1
<1>6. k + 1 = l
  <2>1. ASSUME k + 1 < l PROVE FALSE
    <3>1. PICK m : m = k + 1
      OBVIOUS
    <3>2. m \in 1 .. n /\ k < m /\ m < l
      BY <3>1, <2>1, <1>1, <1>4
    <3>3. at[k] < at[m] /\ at[m] < at[l] /\ at[m] \in Nat
      BY <3>2, <1>2, <1>4
    <3> QED BY <3>3, <1>3, <1>4
  <2> QED BY <2>1, <1>5, <1>1, <1>4
<1> QED BY <1>1, <1>3, <1>6

LEMMA ResultsAddressed ==
  ASSUME NEW calls, Distinct(calls)
  PROVE  Addressed(Results(calls), calls)
<1>1. PICK c \in Nat : c = Len(calls) /\ DOMAIN calls = 1 .. c
  <2>1. calls \in Seq(Calls)
    BY DEF Distinct
  <2> QED BY <2>1
<1> DEFINE back == Results(calls)
<1>2. Len(back) = c /\ DOMAIN back = 1 .. c /\ \A i \in 1 .. c : back[i] = Outcome(calls[i])
  BY <1>1 DEF Results
<1> HIDE DEF back
<1>3. \A i \in 1 .. c : back[i].id = calls[i].id /\ back[i].of = calls[i]
  BY <1>2 DEF Outcome
<1>4. \A i, k \in 1 .. c : calls[k].id = calls[i].id => k = i
  BY <1>1 DEF Distinct
<1>5. Addressed(back, calls)
  BY <1>1, <1>2, <1>3, <1>4 DEF Addressed
<1> QED BY <1>5 DEF back

\* A settled history in the format of Anthropic, where the results are blocks
\* of the next message.
LEMMA SettledFitsAnthropic ==
  ASSUME NEW h, Settled(h)
  PROVE  AnthropicFits(AnthropicBody(h).messages)
<1> DEFINE I == {i \in DOMAIN h : h[i].is # "system"}
           at == InOrder(I, <)
           n == Cardinality(I)
           said(k) == AnthropicMessage(h[at[k]])
           body == AnthropicBody(h).messages
<1>1. /\ h \in Seq(Entries) /\ Len(h) \in Nat /\ DOMAIN h = 1 .. Len(h)
      /\ \A i \in 1 .. Len(h) : /\ h[i].is # "assistant" => h[i].calls = <<>>
                                /\ h[i].is # "results" => h[i].answers = <<>>
  BY DEF Settled, Proper
<1>2. I \in SUBSET Nat /\ IsFiniteSet(I)
  <2>1. I \subseteq 1 .. Len(h) /\ IsFiniteSet(1 .. Len(h))
    BY <1>1, CountUpTo
  <2> HIDE DEF I
  <2>2. IsFiniteSet(I)
    BY <2>1, FS_Subset
  <2> QED BY <2>1, <2>2
<1>3. body = [k \in DOMAIN at |-> said(k)]
  BY DEF AnthropicBody, Kept
<1>4. \A i : i \in I <=> i \in 1 .. Len(h) /\ h[i].is # "system"
  BY <1>1
<1> HIDE DEF I
<1>5. Enumerates(at, I)
  BY <1>2, Places
<1> HIDE DEF at, said, body
<1>6. n \in Nat /\ DOMAIN at = 1 .. n /\ \A k \in 1 .. n : at[k] \in I /\ at[k] \in Nat
  BY <1>2, <1>5 DEF Enumerates
<1>7. Len(body) = n /\ DOMAIN body = 1 .. n /\ \A k \in 1 .. n : body[k] = AnthropicMessage(h[at[k]])
  <2>1. Len(body) = n /\ DOMAIN body = 1 .. n /\ \A k \in 1 .. n : body[k] = said(k)
    BY <1>3, <1>6
  <2> QED BY <2>1 DEF said
<1> HIDE DEF n
<1>8. ASSUME NEW k \in 1 .. n PROVE h[at[k]].is \in {"user", "assistant", "results"}
  <2>1. at[k] \in 1 .. Len(h) /\ h[at[k]].is # "system"
    BY <1>4, <1>6
  <2> QED BY <2>1, SettledEntries
<1>9. ASSUME NEW k \in 1 .. n, body[k].uses # <<>>
      PROVE  k < Len(body) /\ Addressed(body[k + 1].results, body[k].uses)
  <2>1. PICK e : e = h[at[k]]
    OBVIOUS
  <2>2. body[k] = AnthropicMessage(e) /\ e.is \in {"user", "assistant", "results"}
    BY <2>1, <1>7, <1>8
  <2>3. e.is = "assistant" /\ body[k].uses = e.calls /\ e.calls # <<>>
    BY <2>2, <1>9 DEF AnthropicMessage
  <2>4. PICK i : i = at[k]
    OBVIOUS
  <2>5. i \in 1 .. Len(h) /\ h[i].is # "system" /\ h[i] = e
    BY <2>1, <2>4, <1>4, <1>6
  <2>6. i + 1 \in 1 .. Len(h) /\ Exchange(e, h[i + 1])
    BY <2>3, <2>5, SettledEntries
  <2>7. PICK f : f = h[i + 1]
    OBVIOUS
  <2>8. Distinct(e.calls) /\ f.is = "results" /\ f.answers = Results(e.calls)
    BY <2>3, <2>6, <2>7 DEF Exchange
  <2>9. i + 1 \in I
    BY <2>6, <2>7, <2>8, <1>4
  <2>10. k + 1 \in 1 .. n /\ at[k + 1] = i + 1
    BY <2>4, <2>9, <1>2, <1>5, NextPlace DEF n
  <2>11. body[k + 1] = AnthropicMessage(f)
    BY <2>7, <2>10, <1>7
  <2>12. body[k + 1].results = Results(e.calls)
    BY <2>8, <2>11 DEF AnthropicMessage
  <2>13. Addressed(Results(e.calls), e.calls)
    BY <2>8, ResultsAddressed
  <2>14. k < Len(body)
    BY <2>10, <1>6, <1>7
  <2> QED BY <2>3, <2>12, <2>13, <2>14
<1>10. ASSUME NEW k \in 1 .. n, body[k].results # <<>>
       PROVE  k > 1 /\ body[k - 1].uses # <<>>
  <2>1. PICK f : f = h[at[k]]
    OBVIOUS
  <2>2. body[k] = AnthropicMessage(f) /\ f.is \in {"user", "assistant", "results"}
    BY <2>1, <1>7, <1>8
  <2>3. f.is = "results"
    BY <2>2, <1>10 DEF AnthropicMessage
  <2>4. PICK i : i = at[k]
    OBVIOUS
  <2>5. i \in 1 .. Len(h) /\ h[i].is # "system" /\ h[i] = f
    BY <2>1, <2>4, <1>4, <1>6
  <2>6. i - 1 \in 1 .. Len(h) /\ Exchange(h[i - 1], f)
    BY <2>3, <2>5, SettledEntries
  <2>7. PICK e : e = h[i - 1]
    OBVIOUS
  <2>8. e.is = "assistant" /\ e.calls # <<>>
    BY <2>3, <2>6, <2>7 DEF Exchange
  <2>9. i - 1 \in I
    BY <2>6, <2>7, <2>8, <1>4
  <2>10. PICK l \in 1 .. n : at[l] = i - 1
    BY <2>9, <1>5 DEF Enumerates, n
  <2>11. i \in Nat /\ (i - 1) + 1 = i /\ i \in I
    BY <2>4, <1>6
  <2>12. l + 1 \in 1 .. n /\ at[l + 1] = i
    BY <2>10, <2>11, <1>2, <1>5, NextPlace DEF n
  <2>13. l + 1 = k
    <3>1. \A x, y \in 1 .. n : x < y => at[x] < at[y]
      BY <1>5 DEF Enumerates, n
    <3>2. PICK m : m = l + 1
      OBVIOUS
    <3>3. m \in 1 .. n /\ at[m] = at[k] /\ at[k] \in Nat
      BY <3>2, <2>4, <2>12, <1>6
    <3>4. m = k
      BY <3>1, <3>3, <1>6
    <3> QED BY <3>2, <3>4
  <2>14. k > 1 /\ k - 1 = l
    BY <2>13, <2>10, <1>6
  <2>15. body[l] = AnthropicMessage(e)
    BY <2>7, <2>10, <1>7
  <2>16. body[l].uses # <<>>
    BY <2>8, <2>15 DEF AnthropicMessage
  <2> QED BY <2>14, <2>16
<1>11. AnthropicFits(body)
  BY <1>7, <1>9, <1>10 DEF AnthropicFits
<1> QED BY <1>11 DEF body

-----------------------------------------------------------------------------
(* Calls that come in have different ids.                                   *)

LEMMA ReadInOrder ==
  ASSUME NEW I \in SUBSET Nat, NEW at, Enumerates(at, I), NEW read \in [I -> Calls],
         \A i, k \in I : read[i].id = read[k].id => i = k,
         NEW calls, calls = [k \in DOMAIN at |-> read[at[k]]]
  PROVE  Distinct(calls)
<1>1. PICK n \in Nat : n = Cardinality(I)
  BY DEF Enumerates
<1>2. /\ DOMAIN at = 1 .. n /\ \A k \in 1 .. n : at[k] \in I
      /\ \A i, k \in 1 .. n : i < k => at[i] < at[k]
  BY <1>1 DEF Enumerates
<1>3. calls \in Seq(Calls) /\ Len(calls) = n /\ \A k \in 1 .. n : calls[k] = read[at[k]]
  <2>1. \A i \in I : read[i] \in Calls
    OBVIOUS
  <2>2. calls = [k \in 1 .. n |-> read[at[k]]]
    BY <1>2
  <2>3. \A k \in 1 .. n : read[at[k]] \in Calls
    BY <2>1, <1>2
  <2> HIDE DEF Calls
  <2> QED BY <2>2, <2>3, <1>1
<1>4. ASSUME NEW i \in 1 .. n, NEW k \in 1 .. n, calls[i].id = calls[k].id PROVE i = k
  <2>1. at[i] = at[k] /\ at[i] \in Nat /\ at[k] \in Nat
    BY <1>2, <1>3, <1>4
  <2> QED BY <2>1, <1>1, <1>2
<1> QED BY <1>3, <1>4 DEF Distinct

LEMMA StringsAreStrings == STRING \subseteq Strings
BY DEF Strings

LEMMA NamedPlaces ==
  ASSUME NEW raws \in Seq(RawCalls), NEW I, I = {i \in DOMAIN raws : raws[i].named}
  PROVE  /\ I \in SUBSET Nat /\ IsFiniteSet(I)
         /\ \A i \in I : i \in 1 .. Len(raws) /\ raws[i] \in RawCalls /\ i - 1 \in Nat
<1>1. Len(raws) \in Nat /\ DOMAIN raws = 1 .. Len(raws) /\ \A i \in 1 .. Len(raws) : raws[i] \in RawCalls
  OBVIOUS
<1>2. I \subseteq 1 .. Len(raws)
  BY <1>1
<1>3. IsFiniteSet(I)
  BY <1>1, <1>2, CountUpTo, FS_Subset
<1> QED BY <1>1, <1>2, <1>3

LEMMA OpenAiCallsDiffer ==
  ASSUME NEW raws \in Seq(RawCalls), NEW turn \in Nat
  PROVE  Distinct(OpenAiCalls(raws, turn))
<1> DEFINE I == {i \in DOMAIN raws : raws[i].named}
           Read(i) == [id |-> OpenAiId(raws[i], turn, i), tool |-> raws[i].tool,
                       args |-> IF raws[i].args = "cut" THEN "none" ELSE raws[i].args]
           read == [i \in I |-> Read(i)]
           at == InOrder(I, <)
<1>1. /\ I \in SUBSET Nat /\ IsFiniteSet(I)
      /\ \A i \in I : i \in 1 .. Len(raws) /\ raws[i] \in RawCalls /\ i - 1 \in Nat
  BY NamedPlaces
<1>2. OpenAiCalls(raws, turn) = [k \in DOMAIN at |-> Read(at[k])]
  BY DEF OpenAiCalls
<1> HIDE DEF I
<1>3. Enumerates(at, I)
  BY <1>1, Places
<1> HIDE DEF at
<1>4. \A k \in DOMAIN at : at[k] \in I
  BY <1>3 DEF Enumerates
<1>5. ASSUME NEW i \in I PROVE Read(i) \in Calls
  <2>1. raws[i].tool \in Strings /\ raws[i].args \in Strings /\ "none" \in Strings
    BY <1>1, StringsAreStrings, Literals DEF RawCalls
  <2>2. OpenAiId(raws[i], turn, i) \in CallIds
    BY <1>1, Literals DEF OpenAiId, CallIds
  <2> QED BY <2>1, <2>2 DEF Calls
<1>6. ASSUME NEW i \in I, NEW k \in I, Read(i).id = Read(k).id PROVE i = k
  <2>1. OpenAiId(raws[i], turn, i) = OpenAiId(raws[k], turn, k)
    BY <1>6
  <2>2. i \in Nat /\ k \in Nat
    BY <1>1
  <2> QED BY <2>1, <2>2 DEF OpenAiId
<1> HIDE DEF Read
<1>7. /\ read \in [I -> Calls]
      /\ \A i, k \in I : read[i].id = read[k].id => i = k
  BY <1>5, <1>6
<1>8. OpenAiCalls(raws, turn) = [k \in DOMAIN at |-> read[at[k]]]
  BY <1>2, <1>4
<1> HIDE DEF read
<1> QED BY <1>1, <1>3, <1>7, <1>8, ReadInOrder

LEMMA AnthropicCallsDiffer ==
  ASSUME NEW raws \in Seq(RawCalls), NEW turn \in Nat, \A i \in DOMAIN raws : raws[i].given
  PROVE  Distinct(AnthropicCalls(raws, turn))
<1> DEFINE I == {i \in DOMAIN raws : raws[i].named}
           Read(i) == [id |-> IF raws[i].given THEN <<"given", turn, i>> ELSE <<"", 0, 0>>,
                       tool |-> raws[i].tool, args |-> raws[i].args]
           read == [i \in I |-> Read(i)]
           at == InOrder(I, <)
<1>1. /\ I \in SUBSET Nat /\ IsFiniteSet(I)
      /\ \A i \in I : i \in 1 .. Len(raws) /\ raws[i] \in RawCalls /\ i - 1 \in Nat
  BY NamedPlaces
<1>2. \A i \in I : raws[i].given
  OBVIOUS
<1>3. AnthropicCalls(raws, turn) = [k \in DOMAIN at |-> Read(at[k])]
  BY DEF AnthropicCalls
<1> HIDE DEF I
<1>4. Enumerates(at, I)
  BY <1>1, Places
<1> HIDE DEF at
<1>5. \A k \in DOMAIN at : at[k] \in I
  BY <1>4 DEF Enumerates
<1>6. ASSUME NEW i \in I PROVE Read(i) \in Calls /\ Read(i).id = <<"given", turn, i>>
  <2>1. raws[i].tool \in Strings /\ raws[i].args \in Strings /\ "given" \in Strings
    BY <1>1, StringsAreStrings, Literals DEF RawCalls
  <2>2. <<"given", turn, i>> \in CallIds
    BY <1>1, <2>1 DEF CallIds
  <2> QED BY <2>1, <2>2, <1>2 DEF Calls
<1> HIDE DEF Read
<1>7. ASSUME NEW i \in I, NEW k \in I, Read(i).id = Read(k).id PROVE i = k
  BY <1>6, <1>7
<1>8. /\ read \in [I -> Calls]
      /\ \A i, k \in I : read[i].id = read[k].id => i = k
  BY <1>6, <1>7
<1>9. AnthropicCalls(raws, turn) = [k \in DOMAIN at |-> read[at[k]]]
  BY <1>3, <1>5
<1> HIDE DEF read
<1> QED BY <1>1, <1>4, <1>8, <1>9, ReadInOrder

LEMMA SalvagedDiffer ==
  ASSUME NEW text \in Texts
  PROVE  Distinct(Salvaged(text))
<1> DEFINE I == {i \in DOMAIN text : text[i] \in KnownTools}
           at == InOrder(I, <)
           tools == Kept(text, I)
           Call(i) == [id |-> <<"salvaged", 0, i - 1>>, tool |-> tools[i], args |-> "whole"]
           calls == Salvaged(text)
<1>1. PICK l \in Nat : DOMAIN text = 1 .. l /\ \A i \in 1 .. l : text[i] \in Strings
  BY DEF Texts
<1>2. I \in SUBSET Nat /\ IsFiniteSet(I) /\ I \subseteq 1 .. l
  <2>1. I \subseteq 1 .. l /\ IsFiniteSet(1 .. l)
    BY <1>1, CountUpTo
  <2> HIDE DEF I
  <2>2. IsFiniteSet(I)
    BY <2>1, FS_Subset
  <2> QED BY <2>1, <2>2
<1>3. tools = [k \in DOMAIN at |-> text[at[k]]]
  BY DEF Kept
<1>4. calls = [i \in DOMAIN tools |-> Call(i)]
  BY DEF Salvaged
<1> HIDE DEF I, tools, calls
<1>5. Enumerates(at, I)
  BY <1>2, Places
<1> HIDE DEF at
<1>6. PICK n \in Nat : n = Cardinality(I)
  BY <1>5 DEF Enumerates
<1>7. DOMAIN tools = 1 .. n /\ \A k \in 1 .. n : tools[k] \in Strings
  <2>1. DOMAIN at = 1 .. n /\ \A k \in 1 .. n : at[k] \in 1 .. l
    BY <1>2, <1>5, <1>6 DEF Enumerates
  <2> QED BY <2>1, <1>1, <1>3
<1>8. ASSUME NEW i \in 1 .. n PROVE Call(i) \in Calls /\ Call(i).id = <<"salvaged", 0, i - 1>>
  <2>1. <<"salvaged", 0, i - 1>> \in CallIds
    <3>1. i - 1 \in Nat /\ 0 \in Nat
      BY <1>6
    <3>2. "salvaged" \in Strings
      BY Literals
    <3> HIDE DEF Strings
    <3> QED BY <3>1, <3>2 DEF CallIds
  <2> QED BY <2>1, <1>7, Literals DEF Calls
<1> HIDE DEF Call
<1>9. calls \in Seq(Calls) /\ Len(calls) = n /\ \A i \in 1 .. n : calls[i] = Call(i)
  BY <1>4, <1>6, <1>7, <1>8
<1>10. ASSUME NEW i \in 1 .. n, NEW k \in 1 .. n, calls[i].id = calls[k].id PROVE i = k
  <2>1. i - 1 = k - 1
    BY <1>8, <1>9, <1>10
  <2> QED BY <2>1
<1>11. Distinct(calls)
  BY <1>9, <1>10 DEF Distinct
<1> QED BY <1>11 DEF calls

-----------------------------------------------------------------------------
(* What the agent's steps add to its history.                               *)

LEMMA SeqOfMore ==
  ASSUME NEW S, NEW T, S \subseteq T, NEW s \in Seq(S)
  PROVE  s \in Seq(T)
<1>1. Len(s) \in Nat /\ s = [i \in 1 .. Len(s) |-> s[i]] /\ \A i \in 1 .. Len(s) : s[i] \in T
  OBVIOUS
<1> QED BY <1>1

\* A reply that can be read, with calls that can be told apart.
LEMMA ReplyRead ==
  ASSUME NEW p \in Called, NEW r \in Replies[Api[p]], NEW turn \in Nat,
         ChatTools(Api[p], r, turn).error = ""
  PROVE  /\ Distinct(ChatTools(Api[p], r, turn).calls)
         /\ ChatTools(Api[p], r, turn).text \in Texts
<1>1. /\ Api[p] \in {"openai", "anthropic", "ollama"}
      /\ r.http \in {"ok", "busy", "refused", "unsent"}
  BY TurnsOK
<1>2. r.text \in Texts /\ r.calls \in Seq(RawCalls)
  <2>1. r.text \in Seq(STRING) /\ r.calls \in Seq(RawCalls)
    BY RepliesOK
  <2>2. r.text \in Seq(Strings)
    BY <2>1, StringsAreStrings, SeqOfMore
  <2> QED BY <2>1, <2>2 DEF Texts
<1>3. \A parsed : Received(r, parsed) = parsed \/ Received(r, parsed).error # ""
  <2>1. \A why : Failed(why).error = why
    BY DEF Failed
  <2> QED BY <2>1, <1>1 DEF Received
<1> DEFINE Fine(reply) == Distinct(reply.calls) /\ reply.text \in Texts
<1>4. \A calls, tokens : Distinct(calls) => Fine(Parsed(r.text, calls, tokens))
  BY <1>2 DEF Parsed
<1> HIDE DEF Fine
<1>5. CASE Api[p] = "openai"
  <2>1. ChatTools(Api[p], r, turn) = Received(r, OpenAiToolsReply(r, turn))
    BY <1>5 DEF ChatTools, OpenAiChatTools
  <2>2. Distinct(OpenAiCalls(r.calls, turn))
    BY <1>2, OpenAiCallsDiffer
  <2>3. Fine(OpenAiToolsReply(r, turn))
    BY <2>2, <1>4 DEF OpenAiToolsReply
  <2>4. ChatTools(Api[p], r, turn) = OpenAiToolsReply(r, turn)
    BY <2>1, <1>3
  <2> QED BY <2>3, <2>4 DEF Fine
<1>6. CASE Api[p] = "ollama"
  <2>1. ChatTools(Api[p], r, turn) = Received(r, OllamaToolsReply(r, turn))
    BY <1>6 DEF ChatTools, OllamaChatTools
  <2>2. Distinct(OpenAiCalls(r.calls, turn))
    BY <1>2, OpenAiCallsDiffer
  <2>3. Fine(OllamaToolsReply(r, turn))
    BY <2>2, <1>4 DEF OllamaToolsReply
  <2>4. ChatTools(Api[p], r, turn) = OllamaToolsReply(r, turn)
    BY <2>1, <1>3
  <2> QED BY <2>3, <2>4 DEF Fine
<1>7. CASE Api[p] = "anthropic"
  <2>1. ChatTools(Api[p], r, turn) = Received(r, AnthropicToolsReply(r, turn))
    BY <1>7 DEF ChatTools, AnthropicChatTools
  <2>2. Distinct(AnthropicCalls(r.calls, turn))
    <3>1. \A i \in DOMAIN r.calls : r.calls[i].given
      BY <1>7, TurnsOK
    <3> QED BY <3>1, <1>2, AnthropicCallsDiffer
  <2>3. Fine(AnthropicToolsReply(r, turn))
    BY <2>2, <1>4 DEF AnthropicToolsReply
  <2>4. ChatTools(Api[p], r, turn) = AnthropicToolsReply(r, turn)
    BY <2>1, <1>3
  <2> QED BY <2>3, <2>4 DEF Fine
<1> QED BY <1>1, <1>5, <1>6, <1>7

LEMMA AgentSaid ==
  ASSUME NEW text \in Texts, NEW calls \in Seq(Calls)
  PROVE  ModelSays(text, calls) \in Entries
<1>1. "assistant" \in Strings
  BY Literals
<1>2. <<>> \in Seq(Outcomes)
  OBVIOUS
<1> HIDE DEF Outcomes, Calls, Strings, Texts
<1> QED BY <1>1, <1>2 DEF ModelSays, Entry, Entries

LEMMA PlainSays ==
  /\ SystemSays(<<Word>>) \in Entries /\ UserSays(<<Word>>) \in Entries
  /\ SystemSays(<<Word>>).is = "system" /\ UserSays(<<Word>>).is = "user"
  /\ SystemSays(<<Word>>).calls = <<>> /\ UserSays(<<Word>>).calls = <<>>
  /\ SystemSays(<<Word>>).answers = <<>> /\ UserSays(<<Word>>).answers = <<>>
<1>1. "system" \in Strings /\ "user" \in Strings
  BY Literals
<1>2. <<>> \in Seq(Outcomes) /\ <<>> \in Seq(Calls) /\ <<Word>> \in Texts
  <2>1. "word" \in Strings
    BY Literals
  <2> QED BY <2>1 DEF Word, Texts
<1> HIDE DEF Outcomes, Calls, Strings, Texts
<1> QED BY <1>1, <1>2 DEF SystemSays, UserSays, Entry, Entries

LEMMA ResultsSaid ==
  ASSUME NEW calls \in Seq(Calls)
  PROVE  /\ ToolsSay(Results(calls)) \in Entries
         /\ ToolsSay(Results(calls)).is = "results" /\ ToolsSay(Results(calls)).calls = <<>>
         /\ ToolsSay(Results(calls)).answers = Results(calls)
<1>1. \A c \in Calls : Outcome(c) \in Outcomes
  BY DEF Outcome, Outcomes, Calls
<1>2. Len(calls) \in Nat /\ DOMAIN calls = 1 .. Len(calls) /\ \A i \in 1 .. Len(calls) : calls[i] \in Calls
  OBVIOUS
<1>3. Results(calls) \in Seq(Outcomes)
  <2> HIDE DEF Outcomes, Calls
  <2> QED BY <1>1, <1>2 DEF Results
<1>4. "results" \in Strings /\ <<>> \in Texts
  <2>1. "results" \in Strings
    BY Literals
  <2>2. <<>> \in Seq(Strings)
    OBVIOUS
  <2> QED BY <2>1, <2>2 DEF Texts
<1>5. <<>> \in Seq(Calls)
  OBVIOUS
<1> HIDE DEF Outcomes, Calls, Strings, Texts
<1> QED BY <1>3, <1>4, <1>5 DEF ToolsSay, Entry, Entries

\* An exchange more.
LEMMA ExchangeSettles ==
  ASSUME NEW h, Settled(h), NEW m \in Entries, NEW n \in Entries, Exchange(m, n),
         m.answers = <<>>, n.calls = <<>>, n.is # "results" => n.answers = <<>>
  PROVE  Settled(h \o <<m, n>>)
<1>1. PICK l \in Nat : l = Len(h)
  BY DEF Settled, Proper
<1>2. /\ h \in Seq(Entries) /\ l >= 2 /\ h[1].is = "system" /\ h[2].is = "user"
      /\ \A i \in 1 .. l : /\ h[i].is # "assistant" => h[i].calls = <<>>
                           /\ h[i].is # "results" => h[i].answers = <<>>
  BY <1>1 DEF Settled, Proper
<1>3. PICK b \in {2, 3} : Exchanges(h, b) /\ (b = 3 => h[3].is = "system")
  BY DEF Settled
<1>4. PICK two : two = <<m, n>>
  OBVIOUS
<1>5. two \in Seq(Entries) /\ Len(two) = 2 /\ two[1] = m /\ two[2] = n
  BY <1>4
<1>6. PICK g : g = h \o two
  OBVIOUS
<1>7. /\ g \in Seq(Entries) /\ Len(g) = l + 2
      /\ \A i \in 1 .. l + 2 : g[i] = IF i <= l THEN h[i] ELSE two[i - l]
  <2>1. /\ g \in Seq(Entries) /\ Len(g) = Len(h) + Len(two)
        /\ \A i \in 1 .. Len(h) + Len(two) : g[i] = IF i <= Len(h) THEN h[i] ELSE two[i - Len(h)]
    BY <1>2, <1>5, <1>6, ConcatProperties
  <2> QED BY <2>1, <1>1, <1>5
<1>8. (\A i \in 1 .. l : g[i] = h[i]) /\ g[l + 1] = m /\ g[l + 2] = n
  BY <1>5, <1>7
<1>9. /\ b \in Nat /\ b >= 2 /\ l >= b /\ (l - b) % 2 = 0
      /\ \A i \in b + 1 .. l - 1 : (i - b) % 2 = 1 => Exchange(h[i], h[i + 1])
  <2>1. b \in Nat /\ b >= 2
    OBVIOUS
  <2>2. /\ Len(h) >= b /\ (Len(h) - b) % 2 = 0
        /\ \A i \in b + 1 .. Len(h) - 1 : (i - b) % 2 = 1 => Exchange(h[i], h[i + 1])
    BY <1>3 DEF Exchanges
  <2>3. /\ l >= b /\ (l - b) % 2 = 0
        /\ \A i \in b + 1 .. l - 1 : (i - b) % 2 = 1 => Exchange(h[i], h[i + 1])
    BY <1>1, <2>2
  <2> QED BY <2>1, <2>3
<1>10. ASSUME NEW i \in b + 1 .. l + 1, (i - b) % 2 = 1
       PROVE  Exchange(g[i], g[i + 1])
  <2>1. CASE i < l
    <3>1. i \in b + 1 .. l - 1 /\ i \in 1 .. l /\ i + 1 \in 1 .. l
      BY <2>1, <1>9
    <3>2. Exchange(h[i], h[i + 1])
      BY <3>1, <1>9, <1>10
    <3>3. g[i] = h[i] /\ g[i + 1] = h[i + 1]
      BY <3>1, <1>8
    <3> QED BY <3>2, <3>3
  <2>2. CASE i = l
    BY <2>2, <1>9, <1>10
  <2>3. CASE i = l + 1
    <3>1. g[i] = m /\ g[i + 1] = n
      <4>1. i + 1 = l + 2
        BY <2>3
      <4> QED BY <4>1, <2>3, <1>8
    <3> QED BY <3>1
  <2> QED BY <2>1, <2>2, <2>3, <1>9
<1>11. Exchanges(g, b)
  <2>1. Len(g) >= b /\ (Len(g) - b) % 2 = 0 /\ Len(g) - 1 = l + 1
    BY <1>7, <1>9
  <2> QED BY <2>1, <1>10 DEF Exchanges
<1>12. ASSUME NEW i \in 1 .. l + 2
       PROVE  /\ g[i].is # "assistant" => g[i].calls = <<>>
              /\ g[i].is # "results" => g[i].answers = <<>>
  <2>1. CASE i <= l
    BY <2>1, <1>2, <1>8
  <2>2. CASE i = l + 1
    <3>1. g[i] = m /\ m.is = "assistant"
      BY <2>2, <1>8 DEF Exchange
    <3> QED BY <3>1
  <2>3. CASE i = l + 2
    BY <2>3, <1>8
  <2> QED BY <2>1, <2>2, <2>3
<1>13. Proper(g)
  BY <1>7, <1>12 DEF Proper
<1>14. Len(g) >= 2 /\ g[1].is = "system" /\ g[2].is = "user" /\ (b = 3 => g[3].is = "system")
  BY <1>2, <1>3, <1>7, <1>8, <1>9
<1>15. Settled(g)
  BY <1>11, <1>13, <1>14 DEF Settled
<1> QED BY <1>15, <1>4, <1>6

\* A compaction keeps the head and the last exchanges whole.
LEMMA CondensedParts ==
  ASSUME Settled(history), Len(history) > KeepHead + KeepTail
  PROVE  /\ Condensed \in Seq(Entries) /\ Len(Condensed) = 3 + KeepTail
         /\ Condensed[1] = history[1] /\ Condensed[2] = history[2]
         /\ Condensed[3] = SystemSays(<<Word>>)
         /\ \A i \in 1 .. KeepTail : Condensed[3 + i] = history[Len(history) - KeepTail + i]
<1>1. PICK l, k \in Nat : l = Len(history) /\ k = KeepTail
  BY TurnsOK DEF Settled, Proper
<1>2. PICK h \in Seq(Entries) : h = history
  BY DEF Settled, Proper
<1>3. PICK note \in Entries : note = SystemSays(<<Word>>)
  BY PlainSays
<1>4. KeepHead = 2 /\ k >= 1 /\ l > 2 + k /\ Len(h) = l
  BY <1>1, <1>2, TurnsOK, KeepsExchanges
<1>5. PICK head : head = SubSeq(h, 1, 2)
  OBVIOUS
<1>6. PICK tail : tail = SubSeq(h, (l - k) + 1, l)
  OBVIOUS
<1>7. PICK one : one = <<note>>
  OBVIOUS
<1>8. PICK start : start = head \o one
  OBVIOUS
<1>9. PICK all : all = start \o tail
  OBVIOUS
<1>10. Condensed = all
  BY <1>1, <1>2, <1>3, <1>4, <1>5, <1>6, <1>7, <1>8, <1>9 DEF Condensed
<1>11. head \in Seq(Entries) /\ Len(head) = 2 /\ head[1] = h[1] /\ head[2] = h[2]
  BY <1>1, <1>4, <1>5
<1>12. one \in Seq(Entries) /\ Len(one) = 1 /\ one[1] = note
  BY <1>7
<1>13. tail \in Seq(Entries) /\ Len(tail) = k /\ \A i \in 1 .. k : tail[i] = h[l - k + i]
  <2>1. (l - k) + 1 \in 1 .. l /\ l \in Nat /\ l - ((l - k) + 1) + 1 = k
    BY <1>1, <1>4
  <2>2. /\ tail \in Seq(Entries) /\ Len(tail) = l - ((l - k) + 1) + 1
        /\ \A i \in 1 .. l - ((l - k) + 1) + 1 : tail[i] = h[(l - k) + 1 + i - 1]
    BY <2>1, <1>4, <1>6, SubSeqProperties
  <2>3. ASSUME NEW i \in 1 .. k PROVE tail[i] = h[l - k + i]
    <3>1. (l - k) + 1 + i - 1 = l - k + i /\ i \in 1 .. l - ((l - k) + 1) + 1
      BY <1>1, <1>4
    <3> QED BY <3>1, <2>2
  <2> QED BY <2>1, <2>2, <2>3
<1>14. /\ start \in Seq(Entries) /\ Len(start) = 3
       /\ start[1] = h[1] /\ start[2] = h[2] /\ start[3] = note
  <2>1. /\ start \in Seq(Entries) /\ Len(start) = 3
        /\ \A i \in 1 .. 3 : start[i] = IF i <= 2 THEN head[i] ELSE one[i - 2]
    <3>1. /\ start \in Seq(Entries) /\ Len(start) = Len(head) + Len(one)
          /\ \A i \in 1 .. Len(head) + Len(one) : start[i] = IF i <= Len(head) THEN head[i] ELSE one[i - Len(head)]
      BY <1>8, <1>11, <1>12, ConcatProperties
    <3> QED BY <3>1, <1>11, <1>12
  <2> QED BY <2>1, <1>11, <1>12
<1>15. /\ all \in Seq(Entries) /\ Len(all) = 3 + k
       /\ \A i \in 1 .. 3 + k : all[i] = IF i <= 3 THEN start[i] ELSE tail[i - 3]
  <2>1. /\ all \in Seq(Entries) /\ Len(all) = Len(start) + Len(tail)
        /\ \A i \in 1 .. Len(start) + Len(tail) : all[i] = IF i <= Len(start) THEN start[i] ELSE tail[i - Len(start)]
    BY <1>9, <1>13, <1>14, ConcatProperties
  <2> QED BY <2>1, <1>13, <1>14
<1>16. all[1] = h[1] /\ all[2] = h[2] /\ all[3] = note
  BY <1>1, <1>14, <1>15
<1>17. ASSUME NEW i \in 1 .. k PROVE all[3 + i] = h[l - k + i]
  <2>1. 3 + i \in 1 .. 3 + k /\ ~(3 + i <= 3) /\ (3 + i) - 3 = i
    BY <1>1
  <2>2. all[3 + i] = tail[i]
    BY <2>1, <1>15
  <2> QED BY <2>2, <1>13
<1> QED BY <1>1, <1>2, <1>3, <1>10, <1>15, <1>16, <1>17

LEMMA CondensedSettles ==
  ASSUME Settled(history), Len(history) > KeepHead + KeepTail
  PROVE  Settled(Condensed)
<1>1. PICK l, k \in Nat : l = Len(history) /\ k = KeepTail
  BY TurnsOK DEF Settled, Proper
<1>2. PICK c : c = Condensed
  OBVIOUS
<1>3. /\ c \in Seq(Entries) /\ Len(c) = 3 + k
      /\ c[1] = history[1] /\ c[2] = history[2] /\ c[3] = SystemSays(<<Word>>)
      /\ \A i \in 1 .. k : c[3 + i] = history[l - k + i]
  BY <1>1, <1>2, CondensedParts
<1>4. /\ k >= 1 /\ k % 2 = 0 /\ l > 2 + k
      /\ history[1].is = "system" /\ history[2].is = "user"
      /\ \A i \in 1 .. l : /\ history[i].is # "assistant" => history[i].calls = <<>>
                           /\ history[i].is # "results" => history[i].answers = <<>>
  BY <1>1, TurnsOK, KeepsExchanges DEF Settled, Proper
<1>5. PICK b \in {2, 3} : Exchanges(history, b)
  BY DEF Settled
<1>6. /\ b \in Nat /\ l >= b /\ (l - b) % 2 = 0
      /\ \A i \in b + 1 .. l - 1 : (i - b) % 2 = 1 => Exchange(history[i], history[i + 1])
  BY <1>1, <1>5 DEF Exchanges
<1>7. ((l - k) - b) % 2 = 0
  BY <1>1, <1>4, <1>6
<1>8. ASSUME NEW i \in 4 .. k + 2, (i - 3) % 2 = 1
      PROVE  Exchange(c[i], c[i + 1])
  <2>1. PICK j \in Nat : j = i - 3
    BY <1>8
  <2>2. j \in 1 .. k /\ j + 1 \in 1 .. k /\ 3 + j = i /\ 3 + (j + 1) = i + 1
    BY <2>1, <1>1
  <2>3. c[i] = history[l - k + j] /\ c[i + 1] = history[l - k + (j + 1)]
    BY <2>2, <1>3
  <2>4. PICK f : f = l - k + j
    OBVIOUS
  <2>7. PICK d : d = (l - k) - b
    OBVIOUS
  <2>8. d \in Int /\ d % 2 = 0 /\ f - b = d + j /\ j % 2 = 1 /\ l - k >= b
    BY <2>1, <2>4, <2>7, <1>1, <1>4, <1>6, <1>7, <1>8
  <2>9. (d + j) % 2 = 1
    BY <2>8
  <2>5. f \in b + 1 .. l - 1 /\ (f - b) % 2 = 1 /\ f + 1 = l - k + (j + 1)
    <3>1. (f - b) % 2 = 1
      BY <2>8, <2>9
    <3>2. l \in Nat /\ k \in Nat /\ j \in Nat /\ j >= 1 /\ j + 1 <= k /\ l - k >= b /\ b \in Nat
      BY <2>2, <2>8, <1>1, <1>6
    <3>3. f \in b + 1 .. l - 1 /\ f + 1 = l - k + (j + 1)
      BY <3>2, <2>4
    <3> QED BY <3>1, <3>3
  <2>6. Exchange(history[f], history[f + 1])
    BY <2>5, <1>6
  <2> QED BY <2>3, <2>4, <2>5, <2>6
<1>9. Exchanges(c, 3)
  <2>1. Len(c) >= 3 /\ (Len(c) - 3) % 2 = 0 /\ Len(c) - 1 = k + 2
    BY <1>1, <1>3, <1>4
  <2> QED BY <2>1, <1>8 DEF Exchanges
<1>10. ASSUME NEW i \in 1 .. 3 + k
       PROVE  /\ c[i].is # "assistant" => c[i].calls = <<>>
              /\ c[i].is # "results" => c[i].answers = <<>>
  <2>1. CASE i <= 2
    BY <2>1, <1>1, <1>3, <1>4
  <2>2. CASE i = 3
    BY <2>2, <1>3, PlainSays
  <2>3. CASE i > 3
    <3>3. i - 3 \in 1 .. k /\ i = 3 + (i - 3)
      BY <2>3, <1>1
    <3>1. PICK j \in 1 .. k : i = 3 + j
      BY <3>3
    <3>4. l - k + j \in 1 .. l
      BY <1>1, <1>4
    <3>2. c[i] = history[l - k + j]
      BY <3>1, <1>3
    <3> QED BY <3>2, <3>4, <1>4
  <2> QED BY <2>1, <2>2, <2>3
<1>11. Proper(c)
  BY <1>3, <1>10 DEF Proper
<1>12. Len(c) >= 2 /\ c[1].is = "system" /\ c[2].is = "user" /\ c[3].is = "system"
  BY <1>1, <1>3, <1>4, PlainSays
<1>13. Settled(c)
  BY <1>9, <1>11, <1>12 DEF Settled
<1> QED BY <1>2, <1>13

\* The agent's history is settled, and what it has at hand can join it.
Memory ==
  /\ Settled(history)
  /\ steps \in Nat
  /\ answer.text \in Texts /\ Distinct(answer.calls)

LEMMA NothingAtHand == NoAnswer.text \in Texts /\ Distinct(NoAnswer.calls)
<1>1. NoAnswer.text = <<>> /\ NoAnswer.calls = <<>>
  BY DEF NoAnswer, Answer, Failed
<1>2. <<>> \in Texts
  BY DEF Texts
<1>3. Distinct(<<>>)
  BY DEF Distinct
<1> QED BY <1>1, <1>2, <1>3

LEMMA MemoryAtFirst == Init => Memory
<1> SUFFICES ASSUME Init PROVE Memory
  OBVIOUS
<1>1. history = <<SystemSays(<<Word>>), UserSays(<<Word>>)>> /\ answer = NoAnswer /\ steps = 0
  BY DEF Init
<1>2. PICK m, n \in Entries : m = SystemSays(<<Word>>) /\ n = UserSays(<<Word>>)
  BY PlainSays
<1>3. m.is = "system" /\ n.is = "user" /\ m.calls = <<>> /\ n.calls = <<>> /\ m.answers = <<>> /\ n.answers = <<>>
  BY <1>2, PlainSays
<1>4. PICK h : h = <<m, n>>
  OBVIOUS
<1>5. h \in Seq(Entries) /\ Len(h) = 2 /\ h[1] = m /\ h[2] = n
  BY <1>4
<1>6. Proper(h)
  <2>1. \A i \in 1 .. 2 : i = 1 \/ i = 2
    OBVIOUS
  <2> QED BY <2>1, <1>3, <1>5 DEF Proper
<1>7. Exchanges(h, 2)
  BY <1>5 DEF Exchanges
<1>8. Settled(h)
  BY <1>3, <1>5, <1>6, <1>7 DEF Settled
<1> QED BY <1>1, <1>2, <1>4, <1>8, NothingAtHand DEF Memory

LEMMA CallsAtHand == ASSUME Memory PROVE Distinct(ToolCalls)
BY SalvagedDiffer DEF Memory, ToolCalls

LEMMA RunToolsSettles == ASSUME Memory, RunTools PROVE Settled(history')
<1>1. PICK calls : calls = ToolCalls
  OBVIOUS
<1>2. Distinct(calls) /\ calls # <<>> /\ calls \in Seq(Calls)
  BY <1>1, CallsAtHand DEF RunTools, Distinct
<1>3. PICK m \in Entries : m = ModelSays(answer.text, calls)
  BY <1>2, AgentSaid DEF Memory
<1>4. PICK n \in Entries : n = ToolsSay(Results(calls))
  BY <1>2, ResultsSaid
<1>5. n.is = "results" /\ n.calls = <<>> /\ n.answers = Results(calls)
  BY <1>2, <1>4, ResultsSaid
<1>6. m.is = "assistant" /\ m.calls = calls /\ m.answers = <<>>
  BY <1>3 DEF ModelSays, Entry
<1>7. Exchange(m, n)
  BY <1>2, <1>5, <1>6 DEF Exchange
<1>8. history' = history \o <<m, n>>
  BY <1>1, <1>3, <1>4 DEF RunTools, Results
<1> QED BY <1>5, <1>6, <1>7, <1>8, ExchangeSettles DEF Memory

LEMMA NudgeSettles == ASSUME Memory, Nudge PROVE Settled(history')
<1>1. PICK m \in Entries : m = ModelSays(answer.text, <<>>)
  <2>1. <<>> \in Seq(Calls)
    OBVIOUS
  <2> QED BY <2>1, AgentSaid DEF Memory
<1>2. PICK n \in Entries : n = UserSays(<<Word>>)
  BY PlainSays
<1>3. n.is = "user" /\ n.calls = <<>> /\ n.answers = <<>>
  BY <1>2, PlainSays
<1>4. m.is = "assistant" /\ m.calls = <<>> /\ m.answers = <<>>
  BY <1>1 DEF ModelSays, Entry
<1>5. Exchange(m, n)
  BY <1>3, <1>4 DEF Exchange
<1>6. history' = history \o <<m, n>>
  BY <1>1, <1>2 DEF Nudge
<1> QED BY <1>3, <1>4, <1>5, <1>6, ExchangeSettles DEF Memory

LEMMA MemoryKept == Heard /\ Memory /\ [Next]_vars => Memory'
<1> SUFFICES ASSUME Heard, Memory, [Next]_vars PROVE Memory'
  OBVIOUS
<1>1. CASE UNCHANGED agent
  BY <1>1 DEF agent, Memory
<1>2. CASE Ask
  <2>1. history' = history /\ steps' = steps
    BY <1>2 DEF Ask
  <2>2. CASE answer' = answer
    BY <2>1, <2>2 DEF Memory
  <2>3. CASE answer' # answer
    <3>1. PICK r \in Replies[Api[prov]] :
            /\ ChatTools(Api[prov], r, steps).error = ""
            /\ answer' = Answer(ChatTools(Api[prov], r, steps), r.usage)
      BY <2>3, <1>2 DEF Ask
    <3> DEFINE reply == ChatTools(Api[prov], r, steps)
    <3>2. Distinct(reply.calls) /\ reply.text \in Texts
      BY <3>1, ReplyRead DEF Heard, Memory
    <3>3. answer'.calls = reply.calls /\ answer'.text = reply.text
      BY <3>1 DEF Answer
    <3> HIDE DEF reply
    <3> QED BY <3>2, <3>3, <2>1 DEF Memory
  <2> QED BY <2>2, <2>3
<1>3. CASE Top
  BY <1>3 DEF Top, Memory
<1>4. CASE Compact
  <2>1. Settled(history') /\ answer' = answer /\ steps' = steps
    <3>1. history' = Condensed /\ Len(history) > KeepHead + KeepTail
      BY <1>4 DEF Compact
    <3>2. answer' = answer /\ steps' = steps
      BY <1>4 DEF Compact
    <3> QED BY <3>1, <3>2, CondensedSettles DEF Memory
  <2> QED BY <2>1 DEF Memory
<1>5. CASE RunTools
  <2>1. answer' = NoAnswer /\ steps' = steps
    BY <1>5 DEF RunTools
  <2> QED BY <2>1, <1>5, RunToolsSettles, NothingAtHand DEF Memory
<1>6. CASE Nudge
  <2>1. answer' = NoAnswer /\ steps' = steps
    BY <1>6 DEF Nudge
  <2> QED BY <2>1, <1>6, NudgeSettles, NothingAtHand DEF Memory
<1>7. CASE SkipCompaction \/ Migrate \/ Fail \/ RecordCall \/ UpdateRow \/ ToolPanics \/ Done
  <2>1. history' = history /\ answer' = answer /\ steps' = steps
    BY <1>7 DEF SkipCompaction, Migrate, Fail, RecordCall, UpdateRow, ToolPanics, Done
  <2> QED BY <2>1 DEF Memory
<1>8. CASE ChatNext
  BY <1>1, <1>8 DEF ChatNext, Worker, Open, Close, Send, Take, Reply, RecordTurn, UpdateChatRow, Deliver
<1>9. CASE CliNext
  BY <1>1, <1>9 DEF CliNext, CliWorker, Launch, TakeTask, CliRow, CliEntry, Finished
<1>10. CASE \E p \in Called : Probe(p) \/ Generate(p)
  BY <1>1, <1>10 DEF Probe, Generate
<1>11. CASE UNCHANGED vars
  BY <1>1, <1>11 DEF vars
<1> QED BY <1>2, <1>3, <1>4, <1>5, <1>6, <1>7, <1>8, <1>9, <1>10, <1>11 DEF Next, AgentNext

\* Whatever provider is asked next, and whichever made up or left out the ids of
\* the calls so far, the request in its format tells it which result belongs to
\* which call (agent.rs:414-415).
THEOREM HistoryIsTold == Spec => []WireTellsHistory
<1>1. Memory => WireTellsHistory
  BY SettledFitsOpenAi, SettledFitsAnthropic DEF Memory, WireTellsHistory
<1> QED BY <1>1, MemoryAtFirst, MemoryKept, HeardAtFirst, HeardKept, PTL DEF Spec
=============================================================================
