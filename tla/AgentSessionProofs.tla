------------------------- MODULE AgentSessionProofs -------------------------
(***************************************************************************)
(* What AgentSession promises of histories, snapshots and cancel, for any  *)
(* number of runs, steps and nudges.  The invariant Session says what the  *)
(* loop relies on between its steps: a history is whole exchanges after    *)
(* its head, except while the results of one are outstanding.              *)
(***************************************************************************)
EXTENDS AgentSession, SequenceTheorems, TLAPS

Places == {"top", "gate", "pausing", "saving", "paused", "compact", "call",
           "tools", "results", "finishing", "clearing", "cancelling",
           "cancelled", "keeping", "failing", "ended", "panicked", "died"}
Rows == {"absent", "running", "paused", "done", "interrupted", "failed"}
History == Seq(Message)

\* A state of the program: it is where it can be, and rounds are numbered.
TypeOK ==
  /\ pc \in Places /\ run \in 1 .. Runs
  /\ history \in History
  /\ steps \in Nat /\ nudges \in Nat
  /\ pause \in BOOLEAN /\ cancel \in BOOLEAN /\ needy \in BOOLEAN
  /\ row \in [1 .. Runs -> Rows]
  /\ snap \in [1 .. Runs -> {NoFile, Torn} \cup {File(h) : h \in History}]
  /\ worked \in Nat /\ missed \in SUBSET Nat /\ late \in Nat
  /\ unsaved \in BOOLEAN

-----------------------------------------------------------------------------
(* The inductive invariant.                                                *)

\* One answer of the model with what the loop puts behind it.
Exchange(m, n) ==
  \/ m.kind = "calls" /\ n.kind = "results"
  \/ m.kind = "text" /\ n.kind = "nudge"

\* After its first b messages h is exchanges.
Exchanges(h, b) ==
  /\ Len(h) >= b /\ (Len(h) - b) % 2 = 0
  /\ \A i \in b + 1 .. Len(h) - 1 : (i - b) % 2 = 1 => Exchange(h[i], h[i + 1])

\* The head, perhaps a note of a compaction, and exchanges.
Settled(h) ==
  /\ h \in History
  /\ Len(h) >= 2 /\ h[1].kind = "system" /\ h[2].kind = "task"
  /\ \/ Exchanges(h, 2)
     \/ Len(h) >= 3 /\ h[3].kind = "note" /\ Exchanges(h, 3)

Outstanding == pc \in {"tools", "results"}

Conversation ==
  /\ Running /\ ~Outstanding => Settled(history)
  /\ Outstanding => \E h : Settled(h) /\ history = Append(h, Msg("calls", {}))

Snapshots ==
  \A r \in 1 .. Runs : Readable(snap[r]) => Settled(snap[r][2])

\* Between Truncate and Save the file is half written, after them it is whole
\* unless it could not be written.
Saving ==
  /\ pc \in {"saving", "keeping"} => snap[run] = Torn
  /\ pc = "paused" /\ ~unsaved => snap[run] = File(history)

\* Snapshots tell of nothing that has not taken effect.
Truthful ==
  \A r \in 1 .. Runs : Readable(snap[r]) => Told(snap[r][2]) \subseteq 1 .. worked

\* What has taken effect is told, except between a round and its report.
Reporting ==
  /\ Running =>
       Told(history) \cup missed = 1 .. (IF pc = "results" THEN worked - 1 ELSE worked)
  /\ pc = "results" => worked > 0
  /\ pc = "clearing" => row[run] = "done"

\* A round begun after cancel is the last before the loop looks at it.
Heeding ==
  \/ late = 0
  \/ late = 1 /\ cancel /\ pc \notin {"gate", "pausing", "saving", "paused", "compact", "call"}

Session ==
  /\ TypeOK /\ Conversation /\ Snapshots /\ Saving /\ Truthful /\ Reporting /\ Heeding
  /\ SnapshotTellsAll

-----------------------------------------------------------------------------
(* Histories: what is appended, and what a compaction makes of them.       *)

\* Two messages of one exchange keep a history settled.
LEMMA ExchangeSettles ==
  ASSUME NEW h, Settled(h), NEW m \in Message, NEW n \in Message, Exchange(m, n)
  PROVE  Settled(Append(Append(h, m), n))
<1> DEFINE g == Append(Append(h, m), n)
<1>1. /\ h \in History /\ g \in History /\ Len(g) = Len(h) + 2
      /\ \A i \in 1 .. Len(h) : g[i] = h[i]
      /\ g[Len(h) + 1] = m /\ g[Len(h) + 2] = n
  BY DEF Settled, History
<1> HIDE DEF g
<1>2. ASSUME NEW b \in {2, 3}, Exchanges(h, b)
      PROVE  Exchanges(g, b)
  <2>1. Len(g) >= b /\ (Len(g) - b) % 2 = 0
    BY <1>1, <1>2 DEF Exchanges, History
  <2>2. ASSUME NEW i \in b + 1 .. Len(g) - 1, (i - b) % 2 = 1
        PROVE  Exchange(g[i], g[i + 1])
    <3>1. CASE i \in b + 1 .. Len(h) - 1
      BY <1>1, <1>2, <2>2, <3>1 DEF Exchanges, History
    <3>2. CASE i = Len(h)
      BY <1>1, <1>2, <2>2, <3>2 DEF Exchanges, History
    <3>3. CASE i = Len(h) + 1
      BY <1>1, <3>3
    <3> QED BY <1>1, <3>1, <3>2, <3>3 DEF History
  <2> QED BY <2>1, <2>2 DEF Exchanges
<1>3. Len(h) \in Nat
  BY <1>1 DEF History
<1>4. Settled(g)
  BY <1>1, <1>2, <1>3 DEF Settled
<1> QED BY <1>4 DEF g

\* A settled history is one a provider accepts.
LEMMA SettledIsWellFormed ==
  ASSUME NEW h, Settled(h)
  PROVE  WellFormed(h)
<1>1. h \in History /\ Len(h) \in Nat /\ DOMAIN h = 1 .. Len(h) /\ Len(h) >= 2
      /\ h[1].kind = "system" /\ h[2].kind = "task"
  BY DEF Settled, History
<1>2. PICK b \in {2, 3} : Exchanges(h, b) /\ (b = 3 => h[3].kind = "note")
  BY <1>1 DEF Settled
<1>a. Len(h) \in Nat /\ b \in Nat /\ b >= 2
  BY <1>1, <1>2
<1>3. ASSUME NEW i \in Nat, i > b, i <= Len(h)
      PROVE  \/ (i - b) % 2 = 1 /\ i < Len(h) /\ Exchange(h[i], h[i + 1])
             \/ i > 1 /\ Exchange(h[i - 1], h[i])
  <2>1. CASE (i - b) % 2 = 1
    <3>1. i # Len(h)
      BY <1>1, <1>2, <2>1 DEF Exchanges
    <3>2. i \in b + 1 .. Len(h) - 1
      BY <1>a, <1>3, <3>1
    <3>3. Exchange(h[i], h[i + 1])
      BY <1>2, <2>1, <3>2 DEF Exchanges
    <3> QED BY <1>1, <2>1, <3>2, <3>3
  <2>2. CASE (i - b) % 2 = 0
    <3>1. i - 1 \in b + 1 .. Len(h) - 1 /\ ((i - 1) - b) % 2 = 1
      BY <1>1, <1>2, <1>3, <2>2
    <3> QED BY <3>1, <1>2, <1>3, <1>1 DEF Exchanges
  <2> QED BY <2>1, <2>2, <1>1
<1>4. ASSUME NEW i \in 1 .. Len(h)
      PROVE  /\ h[i].kind = "calls" => i < Len(h) /\ h[i + 1].kind = "results"
             /\ h[i].kind = "results" => i > 1 /\ h[i - 1].kind = "calls"
  <2>1. CASE i > b
    BY <1>3, <2>1 DEF Exchange
  <2>2. CASE i <= b
    BY <1>1, <1>2, <2>2
  <2> QED BY <2>1, <2>2, <1>1, <1>2
<1> QED BY <1>1, <1>4 DEF WellFormed

\* A message more tells its own rounds more.
LEMMA ToldAppend ==
  ASSUME NEW h \in History, NEW m \in Message
  PROVE  Told(Append(h, m)) = Told(h) \cup m.tells
<1> DEFINE g == Append(h, m)
<1>1. /\ DOMAIN g = DOMAIN h \cup {Len(h) + 1}
      /\ \A i \in DOMAIN h : g[i] = h[i]
      /\ g[Len(h) + 1] = m
  BY DEF History
<1> HIDE DEF g
<1>2. Told(g) = Told(h) \cup m.tells
  BY <1>1 DEF Told
<1> QED BY <1>2 DEF g

\* What a compaction puts together: the head, a note that tells all that the
\* middle told, and the tail, which begins with an exchange.
LEMMA CompactedParts ==
  ASSUME history \in History, Len(history) >= 2, Surplus > 0
  PROVE  /\ Compacted \in History /\ Len(Compacted) = 3 + KeepTail
         /\ Compacted[1] = history[1] /\ Compacted[2] = history[2]
         /\ Compacted[3] = Msg("note", Told(SubSeq(history, 3, Len(history) - KeepTail)))
         /\ \A i \in 1 .. KeepTail :
              Compacted[3 + i] = history[Len(history) - KeepTail + i]
<1> DEFINE cut == Len(history) - KeepTail
           head == SubSeq(history, 1, 2)
           middle == SubSeq(history, 3, cut)
           note == Msg("note", Told(middle))
           start == head \o <<note>>
           tail == SubSeq(history, cut + 1, Len(history))
<1>1. KeepTail \in Nat \ {0} /\ Len(history) \in Nat /\ cut \in Nat /\ cut > 2 /\ cut < Len(history)
  BY SessionOK, KeepsExchanges DEF Surplus, History
<1>2. head \in History /\ Len(head) = 2 /\ head[1] = history[1] /\ head[2] = history[2]
  BY <1>1 DEF History
<1>3. middle \in History
  BY <1>1 DEF History
<1>4. note \in Message
  <2>1. Told(middle) \in SUBSET Nat
    BY <1>3 DEF Told, History, Message
  <2> QED BY <2>1 DEF Msg, Message, Kinds
<1>5. tail \in History /\ Len(tail) = KeepTail
      /\ \A i \in 1 .. KeepTail : tail[i] = history[cut + i]
  BY <1>1 DEF History
<1>6. Compacted = start \o tail
  BY KeepsExchanges DEF Compacted
<1> HIDE DEF cut, head, note, tail
<1>7. start = Append(head, note)
  BY <1>2, <1>4 DEF History
<1> HIDE DEF start
<1>8. /\ start \in Seq(Message) /\ Len(start) = 3
      /\ start[1] = history[1] /\ start[2] = history[2] /\ start[3] = note
  <2>1. head \in Seq(Message)
    BY <1>2 DEF History
  <2>2. /\ start \in Seq(Message) /\ Len(start) = Len(head) + 1
        /\ \A i \in 1 .. Len(head) : start[i] = head[i]
        /\ start[Len(head) + 1] = note
    BY <1>4, <1>7, <2>1, AppendProperties
  <2> QED BY <1>2, <2>2
<1>9. /\ Compacted \in Seq(Message) /\ Len(Compacted) = 3 + KeepTail
      /\ \A i \in 1 .. 3 + KeepTail :
           Compacted[i] = IF i <= 3 THEN start[i] ELSE tail[i - 3]
  <2>1. tail \in Seq(Message) /\ Len(tail) = KeepTail
    BY <1>5 DEF History
  <2>2. start \in Seq(Message)
    BY <1>8
  <2>3. start \o tail \in Seq(Message) /\ Len(start \o tail) = Len(start) + Len(tail)
        /\ \A i \in 1 .. Len(start) + Len(tail) :
             (start \o tail)[i] = IF i <= Len(start) THEN start[i] ELSE tail[i - Len(start)]
    BY <2>1, <2>2, ConcatProperties
  <2> QED BY <1>6, <1>8, <2>1, <2>3
<1>10. \A i \in 1 .. KeepTail : Compacted[3 + i] = tail[i]
  BY <1>1, <1>9
<1>11. Compacted[1] = history[1] /\ Compacted[2] = history[2] /\ Compacted[3] = note
  BY <1>1, <1>8, <1>9
<1> QED BY <1>5, <1>9, <1>10, <1>11 DEF note, cut, History

\* A compacted history is settled: no results lose their calls.
LEMMA CompactionSettles ==
  ASSUME Settled(history), Surplus > 0
  PROVE  Settled(Compacted)
<1> DEFINE cut == Len(history) - KeepTail
<1>1. /\ history \in History /\ Len(history) \in Nat /\ Len(history) >= 2
      /\ KeepTail \in Nat \ {0} /\ KeepTail % 2 = 0 /\ cut \in Nat /\ cut >= 3
  BY SessionOK, KeepsExchanges DEF Settled, History, Surplus
<1>2. PICK b \in {2, 3} : Exchanges(history, b)
  BY DEF Settled
<1>3. /\ Compacted \in History /\ Len(Compacted) = 3 + KeepTail
      /\ Compacted[1] = history[1] /\ Compacted[2] = history[2]
      /\ Compacted[3].kind = "note"
      /\ \A i \in 1 .. KeepTail : Compacted[3 + i] = history[cut + i]
  BY <1>1, CompactedParts DEF Msg
<1>4. (cut - b) % 2 = 0
  BY <1>1, <1>2 DEF Exchanges
<1>5. ASSUME NEW i \in 4 .. KeepTail + 2, (i - 3) % 2 = 1
      PROVE  Exchange(Compacted[i], Compacted[i + 1])
  <2>1. PICK j \in Nat : j = i - 3
    BY <1>5
  <2>2. j \in 1 .. KeepTail /\ j + 1 \in 1 .. KeepTail /\ 3 + j = i /\ 3 + (j + 1) = i + 1
    BY <2>1, <1>1
  <2>3. Compacted[i] = history[cut + j] /\ Compacted[i + 1] = history[cut + (j + 1)]
    BY <2>2, <1>3
  <2>4. cut + j \in b + 1 .. Len(history) - 1 /\ ((cut + j) - b) % 2 = 1
        /\ (cut + j) + 1 = cut + (j + 1)
    BY <2>1, <2>2, <1>1, <1>2, <1>4, <1>5
  <2>5. Exchange(history[cut + j], history[(cut + j) + 1])
    BY <2>4, <1>2 DEF Exchanges
  <2> QED BY <2>3, <2>4, <2>5
<1>6. Exchanges(Compacted, 3)
  BY <1>1, <1>3, <1>5 DEF Exchanges
<1> QED BY <1>1, <1>3, <1>6 DEF Settled

\* A compaction forgets no round.
LEMMA CompactionTells ==
  ASSUME history \in History, Len(history) >= 2, Surplus > 0
  PROVE  Told(Compacted) = Told(history)
<1> DEFINE cut == Len(history) - KeepTail
           middle == SubSeq(history, 3, cut)
<1>1. /\ KeepTail \in Nat \ {0} /\ Len(history) \in Nat /\ cut \in Nat /\ cut >= 3
      /\ DOMAIN history = 1 .. Len(history) /\ Len(history) = cut + KeepTail
  BY SessionOK, KeepsExchanges DEF History, Surplus
<1>2. /\ DOMAIN Compacted = 1 .. 3 + KeepTail
      /\ Compacted[1] = history[1] /\ Compacted[2] = history[2]
      /\ Compacted[3].tells = Told(middle)
      /\ \A i \in 1 .. KeepTail : Compacted[3 + i] = history[cut + i]
  BY <1>1, CompactedParts DEF Msg, History
<1>3. DOMAIN middle = 1 .. cut - 2 /\ \A i \in 1 .. cut - 2 : middle[i] = history[i + 2]
  BY <1>1 DEF History
<1> HIDE DEF cut, middle
<1>4. ASSUME NEW x, x \in Told(Compacted)
      PROVE  x \in Told(history)
  <2>1. PICK i \in 1 .. 3 + KeepTail : x \in Compacted[i].tells
    BY <1>2, <1>4 DEF Told
  <2>2. CASE i \in {1, 2}
    BY <1>1, <1>2, <2>1, <2>2 DEF Told
  <2>3. CASE i = 3
    <3>1. PICK j \in 1 .. cut - 2 : x \in history[j + 2].tells
      BY <1>2, <1>3, <2>1, <2>3 DEF Told
    <3>2. j + 2 \in DOMAIN history
      BY <1>1
    <3> QED BY <3>1, <3>2 DEF Told
  <2>4. CASE i > 3
    <3>1. PICK j \in 1 .. KeepTail : i = 3 + j
      BY <2>1, <2>4, <1>1
    <3>2. cut + j \in DOMAIN history /\ x \in history[cut + j].tells
      BY <3>1, <2>1, <1>1, <1>2
    <3> QED BY <3>2 DEF Told
  <2> QED BY <2>1, <2>2, <2>3, <2>4, <1>1
<1>5. ASSUME NEW x, x \in Told(history)
      PROVE  x \in Told(Compacted)
  <2>1. PICK i \in 1 .. Len(history) : x \in history[i].tells
    BY <1>1, <1>5 DEF Told
  <2>2. CASE i \in {1, 2}
    <3>1. i \in DOMAIN Compacted /\ x \in Compacted[i].tells
      BY <1>1, <1>2, <2>1, <2>2
    <3> QED BY <3>1 DEF Told
  <2>3. CASE i \in 3 .. cut
    <3>1. i - 2 \in DOMAIN middle /\ middle[i - 2] = history[i]
      BY <2>3, <1>1, <1>3
    <3>2. x \in Told(middle)
      BY <3>1, <2>1 DEF Told
    <3>3. 3 \in DOMAIN Compacted
      BY <1>1, <1>2
    <3> QED BY <1>2, <3>2, <3>3 DEF Told
  <2>4. CASE i > cut
    <3>1. PICK j \in 1 .. KeepTail : i = cut + j
      BY <2>1, <2>4, <1>1
    <3>2. 3 + j \in DOMAIN Compacted /\ x \in Compacted[3 + j].tells
      BY <3>1, <2>1, <1>1, <1>2
    <3> QED BY <3>2 DEF Told
  <2> QED BY <2>1, <2>2, <2>3, <2>4, <1>1
<1> QED BY <1>4, <1>5

-----------------------------------------------------------------------------
(* The steps.                                                              *)

\* A message of the loop is a message, and a snapshot file is one of three.
LEMMA Made ==
  /\ \A k \in Kinds, t \in SUBSET Nat : Msg(k, t) \in Message /\ Msg(k, t).kind = k /\ Msg(k, t).tells = t
  /\ \A h : Readable(File(h)) /\ File(h)[2] = h /\ File(h) # NoFile /\ File(h) # Torn
  /\ ~Readable(NoFile) /\ ~Readable(Torn) /\ Torn # NoFile
BY DEF Msg, Message, File, Readable, NoFile, Torn

LEMMA InitSession == Init => Session
<1> SUFFICES ASSUME Init PROVE Session
  OBVIOUS
<1> USE DEF Init
<1>1. Msg("system", {}) \in Message /\ Msg("task", {}) \in Message
  BY Made DEF Kinds
<1>2. /\ history \in History /\ Len(history) = 2
      /\ history[1] = Msg("system", {}) /\ history[2] = Msg("task", {})
  BY <1>1 DEF History, Fresh
<1>3. run \in 1 .. Runs /\ row \in [1 .. Runs -> Rows]
  BY SessionOK DEF Rows
<1>4. TypeOK
  BY <1>2, <1>3 DEF TypeOK, Places
<1>5. Settled(history)
  BY <1>2, Made DEF Settled, Exchanges, Kinds
<1>6. Told(history) = {}
  BY <1>2, Made DEF Told, Kinds, History
<1>7. Conversation /\ Snapshots /\ Saving /\ Truthful /\ Heeding /\ SnapshotTellsAll
  BY <1>5, Made DEF Conversation, Outstanding, Snapshots, Truthful, Saving, Heeding, SnapshotTellsAll
<1>8. Reporting
  BY <1>6 DEF Reporting
<1> QED BY <1>4, <1>7, <1>8 DEF Session

LEMMA TypeStep == Session /\ [Next]_vars => TypeOK'
<1> SUFFICES ASSUME Session, [Next]_vars PROVE TypeOK'
  OBVIOUS
<1> USE DEF Session, TypeOK, Places, Rows, Goto, Mark, flags, counters, past
<1>1. CASE Loop
  <2>1. CASE Top
    BY <2>1 DEF Top
  <2>10. CASE PassGate \/ SkipCompaction \/ CallFails \/ CallEnds
    BY <2>10 DEF PassGate, SkipCompaction, CallFails, CallEnds
  <2>2. CASE EnterPause \/ LeavePause \/ Finish \/ FinishCancelled \/ FinishFailed
    BY <2>2 DEF EnterPause, LeavePause, Finish, FinishCancelled, FinishFailed
  <2>3. CASE Truncate \/ ClearSnapshot
    BY <2>3 DEF Truncate, ClearSnapshot, Emptied
  <2>4. CASE Save \/ SaveFails
    BY <2>4 DEF Save, SaveFails, Filled
  <2>5. CASE Compact
    <3>1. CASE Surplus > 0 /\ pc' = "call" /\ history' = Compacted
      <4>1. Settled(history)
        BY <2>5 DEF Compact, Conversation, Running, Outstanding
      <4>2. Compacted \in History
        BY <4>1, <3>1, CompactionSettles DEF Settled
      <4> QED BY <2>5, <3>1, <4>2 DEF Compact
    <3>2. CASE pc' = "panicked" /\ UNCHANGED history
      BY <2>5, <3>2 DEF Compact
    <3> QED BY <2>5, <3>1, <3>2 DEF Compact
  <2>6. CASE CallTools
    <3>1. history' \in History
      BY <2>6, Made DEF CallTools, Kinds, History
    <3> QED BY <2>6, <3>1 DEF CallTools
  <2>7. CASE RunTools
    BY <2>7 DEF RunTools
  <2>8. CASE Report
    <3>1. history' \in History
      BY <2>8, Made DEF Report, Reported, Kinds, History
    <3> QED BY <2>8, <3>1 DEF Report
  <2>9. CASE Nudge
    <3>1. Msg("text", {}) \in Message /\ Msg("nudge", {}) \in Message
      BY Made DEF Kinds
    <3>2. history' \in History
      BY <2>9, <3>1 DEF Nudge, History
    <3> QED BY <2>9, <3>2 DEF Nudge
  <2> QED BY <1>1, <2>1, <2>2, <2>3, <2>4, <2>5, <2>6, <2>7, <2>8, <2>9, <2>10 DEF Loop
<1>2. CASE SetPause \/ ClearPause \/ Cancel \/ Die
  BY <1>2 DEF SetPause, ClearPause, Cancel, Die
<1>3. CASE Resume
  <2>1. run' \in 1 .. Runs /\ row' \in [1 .. Runs -> Rows]
    BY <1>3, SessionOK DEF Resume
  <2>2. history' \in History /\ missed' \in SUBSET Nat /\ pc' \in Places
    BY <1>3, SessionOK, Made DEF Resume, Snapshots, Settled
  <2> QED BY <1>3, <2>1, <2>2 DEF Resume
<1>4. CASE UNCHANGED vars
  BY <1>4 DEF vars
<1> QED BY <1>1, <1>2, <1>3, <1>4 DEF Next

\* Between exchanges a history is whole, whatever became of it.
LEMMA ConversationStep == Session /\ [Next]_vars => Conversation'
<1> SUFFICES ASSUME Session, [Next]_vars PROVE Conversation'
  OBVIOUS
<1> USE DEF Conversation, Outstanding, Running
<1>0. Conversation /\ TypeOK /\ Snapshots
  BY DEF Session
<1>1. CASE Loop
  <2>1. CASE Compact
    BY <1>0, <2>1, CompactionSettles DEF Compact
  <2>2. CASE CallTools
    BY <1>0, <2>2 DEF CallTools, Goto
  <2>3. CASE RunTools
    BY <1>0, <2>3 DEF RunTools, Goto
  <2>4. CASE Report
    <3>1. PICK h : Settled(h) /\ history = Append(h, Msg("calls", {}))
      BY <1>0, <2>4 DEF Report, Goto
    <3>2. history' = Append(Append(h, Msg("calls", {})), Msg("results", {worked}))
      BY <2>4, <3>1 DEF Report, Reported
    <3>3. /\ Msg("calls", {}) \in Message /\ Msg("results", {worked}) \in Message
          /\ Exchange(Msg("calls", {}), Msg("results", {worked}))
      BY <1>0, Made DEF TypeOK, Kinds, Exchange
    <3>4. Settled(history')
      BY <3>1, <3>2, <3>3, ExchangeSettles
    <3> QED BY <2>4, <3>4 DEF Report, Goto
  <2>5. CASE Nudge
    <3>1. Settled(history)
      BY <1>0, <2>5 DEF Nudge, Goto
    <3>2. /\ Msg("text", {}) \in Message /\ Msg("nudge", {}) \in Message
          /\ Exchange(Msg("text", {}), Msg("nudge", {}))
      BY Made DEF Kinds, Exchange
    <3>3. history' = Append(Append(history, Msg("text", {})), Msg("nudge", {}))
      BY <2>5, <3>1, <3>2 DEF Nudge, Settled, History
    <3>4. Settled(history')
      BY <3>1, <3>2, <3>3, ExchangeSettles
    <3> QED BY <2>5, <3>4 DEF Nudge, Goto
  <2>6. CASE Top \/ PassGate \/ EnterPause \/ LeavePause \/ SkipCompaction
    BY <1>0, <2>6 DEF Top, PassGate, EnterPause, LeavePause, SkipCompaction, Goto
  <2>8. CASE Truncate \/ Save \/ SaveFails
    BY <1>0, <2>8 DEF Truncate, Save, SaveFails, Goto
  <2>7. CASE CallFails \/ CallEnds \/ Finish \/ ClearSnapshot \/ FinishCancelled \/ FinishFailed
    BY <1>0, <2>7 DEF CallFails, CallEnds, Finish, ClearSnapshot, FinishCancelled, FinishFailed, Goto
  <2> QED BY <1>1, <2>1, <2>2, <2>3, <2>4, <2>5, <2>6, <2>7, <2>8 DEF Loop
<1>2. CASE SetPause \/ ClearPause \/ Cancel \/ Die
  BY <1>0, <1>2 DEF SetPause, ClearPause, Cancel, Die
<1>3. CASE Resume
  <2>1. PICK r \in 1 .. run :
          \/ Readable(snap[r]) /\ pc' = "top" /\ history' = snap[r][2]
          \/ pc' = "ended"
    BY <1>3 DEF Resume
  <2>2. r \in 1 .. Runs
    BY <1>0, SessionOK DEF TypeOK
  <2>3. Readable(snap[r]) => Settled(snap[r][2])
    BY <1>0, <2>2 DEF Snapshots
  <2> QED BY <2>1, <2>3
<1>4. CASE UNCHANGED vars
  BY <1>0, <1>4 DEF vars
<1> QED BY <1>1, <1>2, <1>3, <1>4 DEF Next

\* What is saved is settled, and a pause sleeps on what it saved.
LEMMA SnapshotStep == Session /\ [Next]_vars => Snapshots' /\ Saving'
<1> SUFFICES ASSUME Session, [Next]_vars PROVE Snapshots' /\ Saving'
  OBVIOUS
<1>0. Conversation /\ TypeOK /\ Snapshots /\ Saving
  BY DEF Session
<1>a. snap \in [1 .. Runs -> {NoFile, Torn} \cup {File(h) : h \in History}] /\ run \in 1 .. Runs
  BY <1>0 DEF TypeOK
<1>1. CASE Loop
  <2>1. CASE Truncate
    BY <1>0, <1>a, <2>1, Made DEF Truncate, Emptied, Goto, Snapshots, Saving
  <2>2. CASE Save
    <3>1. pc \in {"saving", "keeping"} /\ snap[run] = Torn /\ Settled(history)
      BY <1>0, <2>2 DEF Save, Goto, Saving, Conversation, Running, Outstanding
    <3>2. snap' = [snap EXCEPT ![run] = File(history)] /\ pc' \in {"paused", "ended"}
          /\ UNCHANGED <<run, history>>
      BY <2>2, <3>1 DEF Save, Filled, Goto
    <3> QED BY <1>0, <1>a, <3>1, <3>2, Made DEF Snapshots, Saving
  <2>3. CASE ClearSnapshot \/ SaveFails
    <3>1. /\ UNCHANGED snap \/ snap' = [snap EXCEPT ![run] = NoFile]
          /\ pc' = "ended" \/ (pc' = "paused" /\ unsaved')
      BY <2>3 DEF ClearSnapshot, SaveFails, Goto
    <3> QED BY <1>0, <1>a, <3>1, Made DEF Snapshots, Saving
  <2>4. CASE Top \/ PassGate \/ EnterPause \/ LeavePause \/ SkipCompaction \/ Compact
    BY <1>0, <2>4 DEF Top, PassGate, EnterPause, LeavePause, SkipCompaction, Compact, Goto, past, Snapshots, Saving
  <2>5. CASE CallFails \/ CallTools \/ RunTools \/ Report \/ Nudge \/ CallEnds
    BY <1>0, <2>5 DEF CallFails, CallTools, RunTools, Report, Nudge, CallEnds, Goto, past, Snapshots, Saving
  <2>6. CASE Finish \/ FinishCancelled \/ FinishFailed
    BY <1>0, <2>6 DEF Finish, FinishCancelled, FinishFailed, Goto, past, Snapshots, Saving
  <2> QED BY <1>1, <2>1, <2>2, <2>3, <2>4, <2>5, <2>6 DEF Loop
<1>2. CASE SetPause \/ ClearPause \/ Cancel
  <2>1. UNCHANGED <<pc, run, history, snap, unsaved>>
    BY <1>2 DEF SetPause, ClearPause, Cancel, past
  <2> QED BY <1>0, <2>1 DEF Snapshots, Saving
<1>5. CASE Die
  BY <1>0, <1>5 DEF Die, Snapshots, Saving
<1>3. CASE Resume
  BY <1>0, <1>3 DEF Resume, Snapshots, Saving
<1>4. CASE UNCHANGED vars
  BY <1>0, <1>4 DEF vars, Snapshots, Saving
<1> QED BY <1>1, <1>2, <1>3, <1>4, <1>5 DEF Next

LEMMA HeedingStep == Session /\ [Next]_vars => Heeding'
<1> SUFFICES ASSUME Session, [Next]_vars PROVE Heeding'
  OBVIOUS
<1> USE DEF Heeding, Goto
<1>0. Heeding /\ cancel \in BOOLEAN
  BY DEF Session, TypeOK
<1>1. CASE Loop
  <2>1. CASE Top
    BY <1>0, <2>1 DEF Top, Heeds, flags, past
  <2>2. CASE CallTools
    BY <1>0, <2>2 DEF CallTools, flags
  <2>3. CASE PassGate \/ EnterPause \/ Truncate \/ Save \/ SaveFails \/ LeavePause \/ SkipCompaction \/ Compact
    BY <1>0, <2>3 DEF PassGate, EnterPause, Truncate, Save, SaveFails, LeavePause, SkipCompaction, Compact, flags, past
  <2>4. CASE CallFails \/ RunTools \/ Report \/ Nudge \/ CallEnds
    BY <1>0, <2>4 DEF CallFails, RunTools, Report, Nudge, CallEnds, flags, past
  <2>5. CASE Finish \/ ClearSnapshot \/ FinishCancelled \/ FinishFailed
    BY <1>0, <2>5 DEF Finish, ClearSnapshot, FinishCancelled, FinishFailed, flags, past
  <2> QED BY <1>1, <2>1, <2>2, <2>3, <2>4, <2>5 DEF Loop
<1>2. CASE SetPause \/ ClearPause
  BY <1>0, <1>2 DEF SetPause, ClearPause, past
<1>5. CASE Cancel
  BY <1>0, <1>5 DEF Cancel, past
<1>6. CASE Die
  BY <1>0, <1>6 DEF Die, flags, past
<1>3. CASE Resume
  BY <1>3 DEF Resume
<1>4. CASE UNCHANGED vars
  BY <1>0, <1>4 DEF vars
<1> QED BY <1>1, <1>2, <1>3, <1>4, <1>5, <1>6 DEF Next

\* A snapshot is the history of a moment when nothing was outstanding, and
\* rounds that have taken effect stay so.
LEMMA TruthfulStep == Session /\ [Next]_vars => Truthful'
<1> SUFFICES ASSUME Session, [Next]_vars PROVE Truthful'
  OBVIOUS
<1>0. Truthful /\ Saving /\ Reporting
  BY DEF Session
<1>a. /\ worked \in Nat /\ run \in 1 .. Runs
      /\ snap \in [1 .. Runs -> {NoFile, Torn} \cup {File(h) : h \in History}]
  BY DEF Session, TypeOK
<1>1. CASE Save
  <2>1. snap[run] = Torn /\ Told(history) \subseteq 1 .. worked
    BY <1>0, <1>1 DEF Save, Goto, Saving, Reporting, Running
  <2>2. snap' = [snap EXCEPT ![run] = File(history)] /\ UNCHANGED worked
    BY <1>1, <2>1 DEF Save, Filled, past
  <2>3. snap'[run][2] = history /\ \A r \in 1 .. Runs : r # run => snap'[r] = snap[r]
    BY <1>a, <2>2, Made
  <2> QED BY <1>0, <2>1, <2>2, <2>3 DEF Truthful
<1>2. CASE Truncate \/ ClearSnapshot
  <2>1. (snap' = [snap EXCEPT ![run] = Torn] \/ snap' \in {snap, [snap EXCEPT ![run] = NoFile]}) /\ UNCHANGED worked
    BY <1>2 DEF Truncate, ClearSnapshot, Emptied, past
  <2>2. \A r \in 1 .. Runs : snap'[r] = snap[r] \/ ~Readable(snap'[r])
    BY <1>a, <2>1, Made
  <2> QED BY <1>0, <2>1, <2>2 DEF Truthful
<1>3. CASE RunTools
  <2>1. worked' = worked + 1 /\ UNCHANGED snap
    BY <1>3 DEF RunTools
  <2>2. 1 .. worked \subseteq 1 .. worked'
    BY <1>a, <2>1
  <2> QED BY <1>0, <2>1, <2>2 DEF Truthful
<1>4. CASE UNCHANGED <<snap, worked>>
  BY <1>0, <1>4 DEF Truthful
<1>5. CASE Top \/ PassGate \/ EnterPause \/ SaveFails \/ LeavePause \/ SkipCompaction \/ Compact \/ CallFails
  BY <1>4, <1>5 DEF Top, PassGate, EnterPause, SaveFails, LeavePause, SkipCompaction, Compact, CallFails, past
<1>6. CASE CallTools \/ Report \/ Nudge \/ CallEnds \/ Finish \/ FinishCancelled \/ FinishFailed
  BY <1>4, <1>6 DEF CallTools, Report, Nudge, CallEnds, Finish, FinishCancelled, FinishFailed, past
<1>7. CASE SetPause \/ ClearPause \/ Cancel \/ Die \/ Resume \/ UNCHANGED vars
  BY <1>4, <1>7 DEF SetPause, ClearPause, Cancel, Die, Resume, vars, past
<1> QED BY <1>1, <1>2, <1>3, <1>5, <1>6, <1>7 DEF Next, Loop

\* Every round is told once its results are reported, compacted or not, and a
\* snapshot that ends an interrupted session tells all of them.
LEMMA ReportingStep == Session /\ [Next]_vars => Reporting' /\ SnapshotTellsAll'
<1> SUFFICES ASSUME Session, [Next]_vars PROVE Reporting' /\ SnapshotTellsAll'
  OBVIOUS
<1>0. Reporting /\ SnapshotTellsAll /\ Conversation /\ Saving /\ Truthful
  BY DEF Session
<1>a. /\ history \in History /\ worked \in Nat /\ missed \in SUBSET Nat /\ run \in 1 .. Runs
      /\ row \in [1 .. Runs -> Rows]
      /\ snap \in [1 .. Runs -> {NoFile, Torn} \cup {File(h) : h \in History}]
  BY DEF Session, TypeOK
<1>b. Running /\ ~Outstanding => Told(history) \cup missed = 1 .. worked
  BY <1>0 DEF Reporting, Outstanding
<1>1. CASE Loop
  <2>1. CASE Compact
    <3>1. Settled(history)
      BY <1>0, <2>1 DEF Compact, Conversation, Running, Outstanding
    <3>2. Surplus > 0 => Told(Compacted) = Told(history)
      BY <3>1, CompactionTells DEF Settled
    <3> QED BY <1>0, <2>1, <3>2 DEF Compact, Reporting, Running, SnapshotTellsAll, past
  <2>2. CASE CallTools
    <3>1. Msg("calls", {}) \in Message /\ Msg("calls", {}).tells = {}
      BY Made DEF Kinds
    <3>2. Told(history') = Told(history)
      BY <1>a, <2>2, <3>1, ToldAppend DEF CallTools
    <3> QED BY <1>0, <2>2, <3>2 DEF CallTools, Goto, Reporting, Running, SnapshotTellsAll
  <2>3. CASE RunTools
    <3>1. Told(history) \cup missed = 1 .. worked
      BY <1>0, <2>3 DEF RunTools, Goto, Reporting, Running
    <3>2. /\ worked' - 1 = worked /\ worked' > 0 /\ pc' = "results"
          /\ UNCHANGED <<history, missed>>
      BY <1>a, <2>3 DEF RunTools, Goto
    <3> QED BY <3>1, <3>2 DEF Reporting, SnapshotTellsAll
  <2>4. CASE Report
    <3>1. Told(history) \cup missed = 1 .. worked - 1 /\ worked > 0
      BY <1>0, <2>4 DEF Report, Goto, Reporting, Running
    <3>2. Msg("results", {worked}) \in Message /\ Msg("results", {worked}).tells = {worked}
      BY <1>a, Made DEF Kinds
    <3>3. Told(history') = Told(history) \cup {worked}
      BY <1>a, <2>4, <3>2, ToldAppend DEF Report, Reported
    <3>4. (1 .. worked - 1) \cup {worked} = 1 .. worked
      BY <1>a, <3>1
    <3>5. Told(history') \cup missed' = 1 .. worked' /\ pc' = "top"
      BY <2>4, <3>1, <3>3, <3>4 DEF Report, Goto, past
    <3> QED BY <3>5 DEF Reporting, SnapshotTellsAll
  <2>5. CASE Nudge
    <3>1. /\ Msg("text", {}) \in Message /\ Msg("nudge", {}) \in Message
          /\ Msg("text", {}).tells = {} /\ Msg("nudge", {}).tells = {}
      BY Made DEF Kinds
    <3>2. history' = Append(Append(history, Msg("text", {})), Msg("nudge", {}))
      BY <1>a, <2>5, <3>1 DEF Nudge, History
    <3>3. Append(history, Msg("text", {})) \in History
      BY <1>a, <3>1 DEF History
    <3>4. Told(history') = Told(history)
      BY <1>a, <3>1, <3>2, <3>3, ToldAppend
    <3> QED BY <1>0, <2>5, <3>4 DEF Nudge, Goto, Reporting, Running, SnapshotTellsAll, past
  <2>6. CASE Save
    <3>1. pc \in {"saving", "keeping"} /\ snap[run] = Torn /\ Told(history) \cup missed = 1 .. worked
      BY <1>0, <2>6 DEF Save, Goto, Saving, Reporting, Running
    <3>2. snap'[run] = File(history) /\ pc' \in {"paused", "ended"}
          /\ UNCHANGED <<run, history, worked, missed, row>>
      BY <1>a, <2>6, <3>1 DEF Save, Filled, Goto, past
    <3> QED BY <3>1, <3>2, Made DEF Reporting, Running, SnapshotTellsAll
  <2>7. CASE ClearSnapshot
    <3>1. row[run] = "done" /\ pc' = "ended" /\ UNCHANGED <<run, row>>
      BY <1>0, <2>7 DEF ClearSnapshot, Goto, Reporting
    <3> QED BY <3>1 DEF Reporting, Running, SnapshotTellsAll
  <2>8. CASE Finish
    <3>1. row'[run'] = "done" /\ pc' = "clearing" /\ pc = "finishing"
          /\ UNCHANGED <<history, worked, missed>>
      BY <1>a, <2>8 DEF Finish, Goto, Mark, past
    <3> QED BY <1>0, <3>1 DEF Reporting, Running, SnapshotTellsAll
  <2>9. CASE FinishFailed
    <3>1. row'[run'] = "failed" /\ pc' = "ended"
      BY <1>a, <2>9 DEF FinishFailed, Goto, Mark
    <3> QED BY <3>1 DEF Reporting, Running, SnapshotTellsAll
  <2>10. CASE Top \/ PassGate \/ SkipCompaction \/ CallFails \/ CallEnds
    BY <1>0, <2>10 DEF Top, PassGate, SkipCompaction, CallFails, CallEnds, Goto, past,
         Reporting, Running, SnapshotTellsAll
  <2>12. CASE SaveFails
    BY <1>0, <2>12 DEF SaveFails, Goto, Reporting, Running, SnapshotTellsAll
  <2>11. CASE EnterPause \/ LeavePause \/ Truncate \/ FinishCancelled
    BY <1>0, <2>11 DEF EnterPause, LeavePause, Truncate, FinishCancelled, Goto, past,
         Reporting, Running, SnapshotTellsAll
  <2> QED BY <1>1, <2>1, <2>2, <2>3, <2>4, <2>5, <2>6, <2>7, <2>8, <2>9, <2>10, <2>11, <2>12 DEF Loop
<1>2. CASE SetPause \/ ClearPause \/ Cancel
  BY <1>0, <1>2 DEF SetPause, ClearPause, Cancel, past, Reporting, Running, SnapshotTellsAll
<1>3. CASE Die
  BY <1>3 DEF Die, Reporting, Running, SnapshotTellsAll
<1>4. CASE Resume
  <2>1. run + 1 \in 1 .. Runs /\ run' = run + 1 /\ row'[run'] = "running"
    BY <1>a, <1>4, SessionOK DEF Resume
  <2>2. PICK r \in 1 .. run :
          \/ /\ Readable(snap[r]) /\ pc' = "top" /\ history' = snap[r][2]
             /\ missed' = (1 .. worked) \ Told(snap[r][2])
          \/ pc' = "ended"
    BY <1>4 DEF Resume
  <2>3. CASE pc' = "ended"
    BY <2>1, <2>3 DEF Reporting, Running, SnapshotTellsAll
  <2>4. CASE Readable(snap[r]) /\ pc' = "top" /\ history' = snap[r][2]
             /\ missed' = (1 .. worked) \ Told(snap[r][2])
    <3>1. Told(history') \subseteq 1 .. worked
      <4>1. r \in 1 .. Runs
        BY <1>a, <2>2, SessionOK
      <4> QED BY <1>0, <2>4, <4>1 DEF Truthful
    <3>2. Told(history') \cup missed' = 1 .. worked' /\ pc' = "top"
      BY <1>4, <2>4, <3>1 DEF Resume
    <3> QED BY <3>2 DEF Reporting, SnapshotTellsAll
  <2> QED BY <2>2, <2>3, <2>4
<1>5. CASE UNCHANGED vars
  BY <1>0, <1>5 DEF vars, Reporting, Running, SnapshotTellsAll
<1> QED BY <1>1, <1>2, <1>3, <1>4, <1>5 DEF Next

-----------------------------------------------------------------------------
(* The theorems.                                                           *)

LEMMA SessionHolds == Spec => []Session
<1>1. Session /\ [Next]_vars => Session'
  BY TypeStep, ConversationStep, SnapshotStep, TruthfulStep, ReportingStep, HeedingStep DEF Session
<1> QED BY InitSession, <1>1, PTL DEF Spec

\* Whatever is compacted, nudged, cancelled, killed and resumed, the model and
\* the snapshots get conversations in which results follow their calls.
THEOREM HistoriesAreAccepted == Spec => []ResultsFollowCalls
<1>1. Session => ResultsFollowCalls
  <2> SUFFICES ASSUME Session PROVE ResultsFollowCalls
    OBVIOUS
  <2>1. pc = "call" => Settled(history)
    BY DEF Session, Conversation, Running, Outstanding
  <2>2. \A r \in 1 .. Runs : Readable(snap[r]) => Settled(snap[r][2])
    BY DEF Session, Snapshots
  <2> QED BY <2>1, <2>2, SettledIsWellFormed DEF ResultsFollowCalls
<1> QED BY <1>1, SessionHolds, PTL

\* The snapshot of a cancelled session, if it could be written, reports every
\* round that took effect, through any number of compactions and resumptions.
THEOREM SnapshotsTellAll == Spec => []SnapshotTellsAll
<1>1. Session => SnapshotTellsAll
  BY DEF Session
<1> QED BY <1>1, SessionHolds, PTL

\* A session that sleeps in its pause has saved the history it will go on with,
\* unless its snapshot could not be written.
THEOREM PausesAreResumable == Spec => []PausedIsResumable
<1>1. Session => PausedIsResumable
  BY DEF Session, Saving, PausedIsResumable
<1> QED BY <1>1, SessionHolds, PTL

\* After cancel at most one more round of tool calls begins.
THEOREM CancelIsHeeded == Spec => []CancelStopsWork
<1>1. Session => CancelStopsWork
  BY DEF Session, Heeding, CancelStopsWork
<1> QED BY <1>1, SessionHolds, PTL

=============================================================================
