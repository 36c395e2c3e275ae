-------------------------- MODULE WriteQueueProofs --------------------------
(***************************************************************************)
(* What WriteQueue promises, for any tickets, readers and paths: its types *)
(* first, then the order of each path and what readers see, then the       *)
(* write_tickets table, and last that it implements PathStore.             *)
(***************************************************************************)
EXTENDS WriteQueueStore, TLAPS

LEMMA MessageTypes ==
  /\ \A t \in Tickets : Msg("new", t) \in Message /\ Msg("done", t) \in Message
  /\ \A r \in Readers : Msg("read", r) \in Message
  /\ Msg("shutdown", None) \in Message
BY DEF Msg, Message

\* What a request is made of.
LEMMA RequestTypes ==
  ASSUME NEW t \in Tickets
  PROVE  /\ Key(t) \in Keys
         /\ File(t) \in Files \cup {None}
         /\ Req[t].text \in Content \cup {None}
         /\ Req[t].op \in Ops
BY ConstantsOK DEF Key, File, Request

LEMMA CurrentType ==
  ASSUME ApplierTypes, NEW k \in Keys
  PROVE  ContentOf(k) \in Content \cup {None}
BY ConstantsOK DEF ApplierTypes, ContentOf

-----------------------------------------------------------------------------
(* What each thread leaves alone.                                          *)

LEMMA SubmitterFrame ==
  ASSUME NEW t \in Tickets, Submitter(t)
  PROVE  UNCHANGED <<dispVars, applyVars, readVars, fs>>
BY DEF Submitter, Admit, Count, Send, Wait

LEMMA ApplierFrame ==
  ASSUME NEW t \in Tickets, Applier(t)
  PROVE  UNCHANGED <<submitVars, dispVars, readVars, history>>
<1>1. CASE Check(t)     BY <1>1 DEF Check, Untouched
<1>2. CASE MergeStep(t) BY <1>2 DEF MergeStep
<1>3. CASE WriteTmp(t)  BY <1>3 DEF WriteTmp, Untouched
<1>4. CASE RenameTmp(t) BY <1>4 DEF RenameTmp, Untouched
<1>5. CASE Remove(t)    BY <1>5 DEF Remove, Untouched
<1>6. CASE Unlink(t)    BY <1>6 DEF Unlink, Untouched
<1>7. CASE Move(t)      BY <1>7 DEF Move, Untouched
<1>8. CASE Record(t)    BY <1>8 DEF Record
<1>9. CASE Report(t)    BY <1>9 DEF Report
<1>. QED BY <1>1, <1>2, <1>3, <1>4, <1>5, <1>6, <1>7, <1>8, <1>9 DEF Applier

\* Only Record writes the journal, only Report sends, only two steps answer.
LEMMA ApplierJournal ==
  ASSUME NEW t \in Tickets, Applier(t)
  PROVE  Record(t) \/ UNCHANGED journal
BY DEF Applier, Check, MergeStep, WriteTmp, RenameTmp, Remove, Unlink, Move, Report, Untouched

LEMMA ApplierSends ==
  ASSUME NEW t \in Tickets, Applier(t)
  PROVE  Report(t) \/ UNCHANGED chan
BY DEF Applier, Check, MergeStep, WriteTmp, RenameTmp, Remove, Unlink, Move, Record, Untouched

LEMMA DispatcherFrame ==
  ASSUME Dispatcher
  PROVE  UNCHANGED <<submitVars, outcome, buf, fs, journal, history>>
<1>1. CASE HandleNew      BY <1>1 DEF HandleNew
<1>2. CASE HandleRead     BY <1>2 DEF HandleRead, applyVars
<1>3. CASE HandleDone     BY <1>3 DEF HandleDone
<1>4. CASE HandleShutdown BY <1>4 DEF HandleShutdown, applyVars
<1>. QED BY <1>1, <1>2, <1>3, <1>4 DEF Dispatcher

-----------------------------------------------------------------------------
(* Type correctness.  What Record writes and Done answers is a verdict.    *)

Verdicts ==
  /\ \A t \in Tickets : ap[t] \in Decided => outcome[t] # "none"
  /\ \A i \in DOMAIN chan : chan[i].kind = "done" => outcome[chan[i].id] # "none"

TypeInv == TypeOK /\ Verdicts

LEMMA SubmitTypesStep ==
  ASSUME SubmitTypes, ApplierTypes, Verdicts, [Next]_vars
  PROVE  SubmitTypes'
<1> USE DEF SubmitTypes
<1>1. ASSUME NEW t \in Tickets, Submitter(t) PROVE SubmitTypes'
  <2>1. CASE Admit(t) BY <2>1 DEF Admit, Goto, history
  <2>2. CASE Count(t)
    <3>1. pc' \in [Tickets -> {"submitting", "admitted", "counted", "waiting", "done"}]
      BY <2>2 DEF Count, Goto
    <3>2. depth' \in Int
      BY <2>2 DEF Count
    <3>3. journal' \in [Tickets -> {"absent", "queued", "applied", "rejected"}]
      <4>1. CASE journal' = [journal EXCEPT ![t] = "queued"]  BY <4>1
      <4>2. CASE UNCHANGED journal                            BY <4>2
      <4>3. journal' = [journal EXCEPT ![t] = "queued"] \/ UNCHANGED journal
        BY <2>2 DEF Count
      <4>. QED BY <4>1, <4>2, <4>3
    <3>4. UNCHANGED history
      BY <2>2 DEF Count
    <3>. QED BY <3>1, <3>2, <3>3, <3>4 DEF history
  <2>3. CASE Send(t)
    <3>1. pc' \in [Tickets -> {"submitting", "admitted", "counted", "waiting", "done"}]
      BY <2>3 DEF Send, Goto
    <3>2. clock' \in Nat /\ arrived' \in [Tickets \cup Readers -> Nat]
      BY <2>3 DEF Send, Enter, history
    <3>. QED BY <2>3, <3>1, <3>2 DEF Send
  <2>4. CASE Wait(t)  BY <2>4 DEF Wait, Goto, history
  <2>. QED BY <1>1, <2>1, <2>2, <2>3, <2>4 DEF Submitter
<1>2. ASSUME NEW t \in Tickets, Applier(t) PROVE SubmitTypes'
  <2>1. CASE Record(t)
    <3>1. outcome[t] \in {"applied", "rejected"} \/ ap[t] # "record"
      BY DEF ApplierTypes, Verdicts, Decided
    <3>. QED BY <2>1, <3>1 DEF Record, Recorded, Step, submitVars, history
  <2>2. CASE UNCHANGED journal
    BY <1>2, <2>2, ApplierFrame DEF submitVars, history
  <2>. QED BY <1>2, <2>1, <2>2, ApplierJournal
<1>3. ASSUME NEW r \in Readers, AskRead(r) PROVE SubmitTypes'
  BY <1>3 DEF AskRead, Enter, submitVars, history
<1>4. CASE Dispatcher
  BY <1>4, DispatcherFrame DEF submitVars, history
<1>5. CASE Shutdown \/ UNCHANGED vars
  BY <1>5 DEF Shutdown, submitVars, history, vars
<1> QED BY <1>1, <1>2, <1>3, <1>4, <1>5 DEF Next

\* Adding a well-typed message at the end, or taking the first one away.
LEMMA ChannelAppend ==
  ASSUME ChannelTypes, NEW m \in Message,
         m.kind \in {"new", "done"} => m.id \in Tickets,
         m.kind = "read" => m.id \in Readers,
         chan' = Append(chan, m)
  PROVE  ChannelTypes'
BY DEF ChannelTypes

LEMMA ChannelTail ==
  ASSUME ChannelTypes, chan # <<>>, chan' = Tail(chan)
  PROVE  ChannelTypes'
BY DEF ChannelTypes

LEMMA ChannelTypesStep == ChannelTypes /\ [Next]_vars => ChannelTypes'
<1> SUFFICES ASSUME ChannelTypes, [Next]_vars PROVE ChannelTypes'
  OBVIOUS
<1>0. CASE UNCHANGED chan
  BY <1>0 DEF ChannelTypes
<1>1. ASSUME NEW t \in Tickets, Submitter(t) PROVE ChannelTypes'
  <2>1. CASE Send(t) /\ open
    BY <2>1, MessageTypes, ChannelAppend DEF Send, Enter, Msg
  <2>2. CASE UNCHANGED chan
    BY <1>0, <2>2
  <2>. QED BY <1>1, <2>1, <2>2 DEF Submitter, Admit, Count, Send, Wait
<1>2. ASSUME NEW t \in Tickets, Applier(t) PROVE ChannelTypes'
  <2>1. CASE Report(t) /\ open
    BY <2>1, MessageTypes, ChannelAppend DEF Report, Msg
  <2>2. CASE UNCHANGED chan
    BY <1>0, <2>2
  <2>. QED BY <1>2, <2>1, <2>2, ApplierSends DEF Report
<1>3. ASSUME NEW r \in Readers, AskRead(r) PROVE ChannelTypes'
  <2>1. CASE open
    BY <1>3, <2>1, MessageTypes, ChannelAppend DEF AskRead, Enter, Msg
  <2>2. CASE ~open
    BY <1>0, <1>3, <2>2 DEF AskRead
  <2>. QED BY <2>1, <2>2
<1>4. CASE Shutdown
  BY <1>4, MessageTypes, ChannelAppend DEF Shutdown, Msg
<1>5. CASE HandleNew \/ HandleRead \/ HandleDone
  BY <1>5, ChannelTail DEF HandleNew, HandleRead, HandleDone, Receive
<1>6. CASE HandleShutdown
  BY <1>6 DEF HandleShutdown, ChannelTypes
<1>7. CASE UNCHANGED vars
  BY <1>0, <1>7 DEF vars
<1> QED BY <1>1, <1>2, <1>3, <1>4, <1>5, <1>6, <1>7 DEF Next, Dispatcher

LEMMA DispatcherTypesStep ==
  ASSUME ChannelTypes, DispatcherTypes, [Next]_vars
  PROVE  DispatcherTypes'
<1> USE DEF DispatcherTypes
<1>1. ASSUME NEW t \in Tickets, Submitter(t) PROVE DispatcherTypes'
  BY <1>1, SubmitterFrame DEF dispVars
<1>2. ASSUME NEW t \in Tickets, Applier(t) PROVE DispatcherTypes'
  BY <1>2, ApplierFrame DEF dispVars
<1>3. ASSUME NEW r \in Readers, AskRead(r) PROVE DispatcherTypes'
  BY <1>3 DEF AskRead, dispVars
<1>4. CASE HandleNew
  <2>1. Received \in Tickets /\ Key(Received) \in Keys
    BY <1>4, RequestTypes DEF HandleNew, Receive, Received, ChannelTypes
  <2>2. Append(inbox[Key(Received)], Received) \in Seq(Tickets)
    BY <2>1
  <2>3. inbox' \in [Keys -> Seq(Tickets)]
    BY <1>4, <2>1, <2>2 DEF HandleNew
  <2>. QED BY <1>4, <2>1, <2>3 DEF HandleNew
<1>5. CASE HandleRead
  <2>1. Received \in Readers /\ ReadKey[Received] \in Keys
    BY <1>5, ConstantsOK DEF HandleRead, Receive, Received, ChannelTypes
  <2>2. parked' \in [Keys -> SUBSET Readers]
    BY <1>5, <2>1 DEF HandleRead
  <2>. QED BY <1>5, <2>2 DEF HandleRead
<1>6. CASE HandleDone
  <2>1. Received \in Tickets /\ Key(Received) \in Keys
    BY <1>6, RequestTypes DEF HandleDone, Receive, Received, ChannelTypes
  <2>2. inbox[Key(Received)] # <<>> => Tail(inbox[Key(Received)]) \in Seq(Tickets)
    BY <2>1
  <2>3. inbox' \in [Keys -> Seq(Tickets)]
    BY <1>6, <2>1, <2>2 DEF HandleDone
  <2>4. parked' \in [Keys -> SUBSET Readers] /\ busy' \subseteq Keys
    BY <1>6 DEF HandleDone
  <2>. QED BY <1>6, <2>3, <2>4 DEF HandleDone
<1>7. CASE HandleShutdown
  <2>1. <<>> \in Seq(Tickets)  OBVIOUS
  <2>2. inbox' \in [Keys -> Seq(Tickets)]
    BY <1>7, <2>1 DEF HandleShutdown
  <2>. QED BY <1>7, <2>2 DEF HandleShutdown
<1>8. CASE Shutdown \/ UNCHANGED vars
  BY <1>8 DEF Shutdown, dispVars, vars
<1> QED BY <1>1, <1>2, <1>3, <1>4, <1>5, <1>6, <1>7, <1>8 DEF Next, Dispatcher

LEMMA FulfillTypes ==
  ASSUME ApplierTypes, ReaderTypes, NEW rs, NEW k \in Keys, Fulfill(rs, k)
  PROVE  ReaderTypes'
BY CurrentType DEF Fulfill, ReaderTypes

LEMMA ReaderTypesStep ==
  ASSUME ApplierTypes, ReaderTypes, ChannelTypes, DispatcherTypes, [Next]_vars
  PROVE  ReaderTypes'
<1> USE DEF ReaderTypes
<1>1. ASSUME NEW t \in Tickets, Submitter(t) PROVE ReaderTypes'
  BY <1>1, SubmitterFrame DEF readVars
<1>2. ASSUME NEW t \in Tickets, Applier(t) PROVE ReaderTypes'
  BY <1>2, ApplierFrame DEF readVars
<1>3. ASSUME NEW r \in Readers, AskRead(r) PROVE ReaderTypes'
  BY <1>3 DEF AskRead
<1>5. CASE HandleRead
  <2> DEFINE r == Received
             k == ReadKey[Received]
  <2>1. r \in Readers /\ k \in Keys
    BY <1>5, ConstantsOK DEF HandleRead, Receive, Received, ChannelTypes
  <2>2. Fulfill({r}, k) \/ UNCHANGED readVars
    BY <1>5 DEF HandleRead
  <2>3. CASE Fulfill({r}, k)
    BY <2>1, <2>3, FulfillTypes
  <2>4. CASE UNCHANGED readVars
    BY <2>4 DEF readVars
  <2>. QED BY <2>2, <2>3, <2>4
<1>6. CASE HandleDone
  <2> DEFINE k == Key(Received)
  <2>1. k \in Keys
    BY <1>6, RequestTypes DEF HandleDone, Receive, Received, ChannelTypes
  <2>2. Fulfill(ReadsDue(k), k) \/ UNCHANGED readVars
    BY <1>6 DEF HandleDone, readVars
  <2>3. CASE Fulfill(ReadsDue(k), k)
    BY <2>1, <2>3, FulfillTypes
  <2>4. CASE UNCHANGED readVars
    BY <2>4 DEF readVars
  <2>. QED BY <2>2, <2>3, <2>4
<1>7. CASE HandleNew \/ HandleShutdown \/ Shutdown \/ UNCHANGED vars
  BY <1>7 DEF HandleNew, HandleShutdown, Shutdown, readVars, vars
<1> QED BY <1>1, <1>2, <1>3, <1>5, <1>6, <1>7 DEF Next, Dispatcher

LEMMA ApplierTypesStep ==
  ASSUME ApplierTypes, ChannelTypes, DispatcherTypes, [Next]_vars
  PROVE  ApplierTypes'
<1> USE DEF ApplierTypes
<1>1. ASSUME NEW t \in Tickets, Submitter(t) PROVE ApplierTypes'
  <2>1. CASE Send(t)
    BY <2>1 DEF Send, applyVars
  <2>2. CASE UNCHANGED resp
    BY <1>1, <2>2, SubmitterFrame DEF applyVars
  <2>. QED BY <1>1, <2>1, <2>2 DEF Submitter, Admit, Count, Wait
<1>2. ASSUME NEW t \in Tickets, Applier(t) PROVE ApplierTypes'
  <2>0. /\ File(t) \in Files \cup {None}
        /\ File(t) \in Files => Tmp(t) \in Files
        /\ Req[t].text \in Content \cup {None}
        /\ Req[t].op \in Ops
    BY RequestTypes, ConstantsOK DEF Tmp
  <2>c. Current(t) \in Content \cup {None}
    BY CurrentType, RequestTypes DEF Current
  <2>1. CASE Check(t)
    <3>1. FirstStep(t) \in Active
      BY <2>0 DEF FirstStep, Ops, Active
    <3>. QED BY <2>0, <2>1, <3>1 DEF Check, Decide, Step, Untouched, ApStates, Active
  <2>2. CASE MergeStep(t)
    <3>1. Merge(t, Current(t)) \in Content \cup {NoMatch, Panics}
      BY <2>c, ConstantsOK
    <3>. QED BY <2>2, <3>1 DEF MergeStep, Decide, Step, ApStates, Active
  <2>3. CASE WriteTmp(t)
    BY <2>3 DEF WriteTmp, Decide, Step, Untouched, ApStates, Active
  <2>4. CASE RenameTmp(t)
    <3>1. fs' \in [Files -> Content \cup {None}]
      <4>1. CASE File(t) = None
        BY <2>4, <4>1, <2>0 DEF RenameTmp
      <4>2. CASE File(t) \in Files
        BY <2>4, <4>2, <2>0 DEF RenameTmp
      <4>. QED BY <2>0, <4>1, <4>2
    <3>2. ap' \in [Tickets -> ApStates]
      BY <2>4 DEF RenameTmp, Decide, Step, ApStates, Active
    <3>3. outcome' \in [Tickets -> {"none", "applied", "rejected"}]
      BY <2>4 DEF RenameTmp, Decide
    <3>. QED BY <2>4, <3>1, <3>2, <3>3 DEF RenameTmp, Untouched
  <2>5. CASE Remove(t)
    BY <2>5 DEF Remove, Decide, Step, Untouched, ApStates, Active
  <2>6. CASE Unlink(t)
    BY <2>6 DEF Unlink, Decide, Step, Untouched, ApStates, Active
  <2>7. CASE Move(t)
    BY <2>7, <2>c DEF Move, Decide, Step, Untouched, ApStates, Active
  <2>8. CASE Record(t)
    BY <2>8 DEF Record, Step, ApStates, Active
  <2>9. CASE Report(t)
    BY <2>9 DEF Report, Step, ApStates, Active
  <2>. QED BY <1>2, <2>1, <2>2, <2>3, <2>4, <2>5, <2>6, <2>7, <2>8, <2>9 DEF Applier
<1>3. ASSUME NEW r \in Readers, AskRead(r) PROVE ApplierTypes'
  BY <1>3 DEF AskRead, applyVars
<1>4. CASE HandleNew
  <2>1. /\ Received \in Tickets
        /\ UNCHANGED ap \/ ap' = [ap EXCEPT ![Received] = "check"]
    BY <1>4 DEF HandleNew, Receive, Received, ChannelTypes
  <2>. QED BY <1>4, <2>1 DEF HandleNew, ApStates, Active
<1>5. CASE HandleRead
  BY <1>5 DEF HandleRead, applyVars
<1>6. CASE HandleDone
  <2> DEFINE t == Received
             next == Head(inbox[Key(Received)])
  <2>1. t \in Tickets /\ Key(t) \in Keys
    BY <1>6, RequestTypes DEF HandleDone, Receive, Received, ChannelTypes
  <2>2. inbox[Key(t)] # <<>> => next \in Tickets
    BY <2>1 DEF DispatcherTypes
  <2>3. ap' \in [Tickets -> ApStates]
    BY <1>6, <2>1, <2>2 DEF HandleDone, ApStates, Active
  <2>4. resp' \in [Tickets -> {"open", "none", "applied", "rejected", "closed"}]
    BY <1>6, <2>1 DEF HandleDone
  <2>. QED BY <1>6, <2>3, <2>4 DEF HandleDone
<1>7. CASE HandleShutdown
  BY <1>7 DEF HandleShutdown, applyVars
<1>8. CASE Shutdown \/ UNCHANGED vars
  BY <1>8 DEF Shutdown, applyVars, vars
<1> QED BY <1>1, <1>2, <1>3, <1>4, <1>5, <1>6, <1>7, <1>8 DEF Next, Dispatcher
\* A decision is final, and whoever is past it has decided.
LEMMA ApplierDecides ==
  ASSUME TypeOK, Verdicts, NEW t \in Tickets, Applier(t)
  PROVE  /\ \A u \in Tickets : outcome[u] # "none" => outcome'[u] # "none"
         /\ \A u \in Tickets : ap'[u] \in Decided => outcome'[u] # "none"
<1> USE DEF TypeOK, ApplierTypes, Verdicts, Decided, Step, Decide
<1>1. CASE Check(t)
  <2>1. FirstStep(t) \notin Decided
    BY RequestTypes DEF FirstStep, Ops
  <2>. QED BY <1>1, <2>1 DEF Check
<1>2. CASE MergeStep(t) BY <1>2 DEF MergeStep
<1>3. CASE WriteTmp(t)  BY <1>3 DEF WriteTmp
<1>4. CASE RenameTmp(t) BY <1>4 DEF RenameTmp
<1>5. CASE Remove(t)    BY <1>5 DEF Remove
<1>6. CASE Unlink(t)    BY <1>6 DEF Unlink
<1>7. CASE Move(t)      BY <1>7 DEF Move
<1>8. CASE Record(t)    BY <1>8 DEF Record
<1>9. CASE Report(t)    BY <1>9 DEF Report
<1>. QED BY <1>1, <1>2, <1>3, <1>4, <1>5, <1>6, <1>7, <1>8, <1>9 DEF Applier

LEMMA VerdictsStep ==
  ASSUME TypeOK, Verdicts, [Next]_vars
  PROVE  Verdicts'
<1> USE DEF Verdicts
<1>0. CASE UNCHANGED <<chan, ap, outcome>>
  BY <1>0
<1>1. ASSUME NEW m \in Message, m.kind # "done", chan' = Append(chan, m),
             UNCHANGED <<ap, outcome>>
      PROVE  Verdicts'
  BY <1>1 DEF TypeOK, ChannelTypes
<1>2. ASSUME NEW t \in Tickets, Submitter(t) PROVE Verdicts'
  <2>1. UNCHANGED chan \/ chan' = Append(chan, Msg("new", t))
    BY <1>2 DEF Submitter, Admit, Count, Send, Enter, Wait
  <2>. QED BY <1>0, <1>1, <1>2, <2>1, SubmitterFrame, MessageTypes DEF applyVars, Msg
<1>3. ASSUME NEW t \in Tickets, Applier(t) PROVE Verdicts'
  <2>1. CASE Report(t) /\ open
    <3>1. outcome'[t] # "none"
      BY <1>3, <2>1, ApplierDecides DEF Report, Step, TypeOK, ApplierTypes, Decided
    <3>2. /\ chan' = Append(chan, Msg("done", t))
          /\ chan \in Seq(Message)
      BY <2>1 DEF Report, TypeOK, ChannelTypes
    <3>3. \A i \in DOMAIN chan' : chan'[i].kind = "done" => outcome'[chan'[i].id] # "none"
      <4>1. UNCHANGED outcome
        BY <2>1 DEF Report
      <4>. QED BY <3>1, <3>2, <4>1, MessageTypes DEF Msg
    <3>. QED BY <1>3, <3>3, ApplierDecides
  <2>2. CASE UNCHANGED chan
    BY <1>3, <2>2, ApplierDecides DEF TypeOK, ChannelTypes
  <2>. QED BY <1>3, <2>1, <2>2, ApplierSends DEF Report
<1>4. ASSUME NEW r \in Readers, AskRead(r) PROVE Verdicts'
  <2>1. UNCHANGED chan \/ chan' = Append(chan, Msg("read", r))
    BY <1>4 DEF AskRead, Enter
  <2>. QED BY <1>0, <1>1, <1>4, <2>1, MessageTypes DEF AskRead, applyVars, Msg
<1>5. CASE Shutdown
  BY <1>1, <1>5, MessageTypes DEF Shutdown, applyVars, Msg
<1>6. ASSUME chan # <<>>, chan' = Tail(chan), UNCHANGED outcome,
             \A t \in Tickets : ap'[t] \in Decided => outcome[t] # "none"
      PROVE  Verdicts'
  BY <1>6 DEF TypeOK, ChannelTypes
<1>7. CASE HandleNew
  <2>1. Received \in Tickets
    BY <1>7 DEF HandleNew, Receive, Received, TypeOK, ChannelTypes
  <2>2. \A t \in Tickets : ap'[t] \in Decided => outcome[t] # "none"
    BY <1>7, <2>1 DEF HandleNew, TypeOK, ApplierTypes, Decided
  <2>. QED BY <1>6, <1>7, <2>2 DEF HandleNew, Receive
<1>8. CASE HandleRead
  BY <1>6, <1>8 DEF HandleRead, Receive, applyVars
<1>9. CASE HandleDone
  <2> DEFINE t == Received
             next == Head(inbox[Key(Received)])
  <2>1. /\ t \in Tickets /\ Key(t) \in Keys
        /\ outcome[t] # "none"
    BY <1>9, RequestTypes DEF HandleDone, Receive, Received, TypeOK, ChannelTypes
  <2>2. inbox[Key(t)] # <<>> => next \in Tickets
    BY <2>1 DEF TypeOK, DispatcherTypes
  <2>3. \A u \in Tickets : ap'[u] \in Decided => outcome[u] # "none"
    BY <1>9, <2>1, <2>2 DEF HandleDone, TypeOK, ApplierTypes, Decided
  <2>. QED BY <1>6, <1>9, <2>3 DEF HandleDone, Receive
<1>10. CASE HandleShutdown
  BY <1>10 DEF HandleShutdown, applyVars
<1>11. CASE UNCHANGED vars
  BY <1>0, <1>11 DEF vars
<1> QED BY <1>2, <1>3, <1>4, <1>5, <1>7, <1>8, <1>9, <1>10, <1>11 DEF Next, Dispatcher

LEMMA InitTypes == Init => TypeInv
<1> SUFFICES ASSUME Init PROVE TypeInv
  OBVIOUS
<1>1. SubmitTypes /\ ReaderTypes /\ ApplierTypes
  BY ConstantsOK DEF Init, SubmitTypes, ReaderTypes, ApplierTypes, ApStates
<1>2. ChannelTypes /\ DispatcherTypes
  BY DEF Init, ChannelTypes, DispatcherTypes
<1>3. Verdicts
  BY DEF Init, Verdicts, Decided
<1> QED BY <1>1, <1>2, <1>3 DEF TypeInv, TypeOK

LEMMA TypeInvStep == TypeInv /\ [Next]_vars => TypeInv'
BY SubmitTypesStep, ChannelTypesStep, DispatcherTypesStep, ReaderTypesStep,
   ApplierTypesStep, VerdictsStep DEF TypeInv, TypeOK

\* Every variable has its type in every state.  That the journal and the
\* answers hold nothing but verdicts needs Verdicts: an applier reports only
\* what it has decided.
THEOREM TypeCorrect == Spec => []TypeOK
<1>1. TypeInv => TypeOK
  BY DEF TypeInv
<1> QED BY <1>1, InitTypes, TypeInvStep, PTL DEF Spec

-----------------------------------------------------------------------------
(***************************************************************************)
(* Why the queue keeps the order of each path, for any tickets, readers    *)
(* and paths.  A ticket waits in the channel, then perhaps in the backlog  *)
(* of its path, then an applier works on it; the channel and the backlogs  *)
(* are sorted by arrival, everything in a backlog is older than everything *)
(* in the channel, and at most one applier is at work on a path.           *)
(***************************************************************************)

\* An applier exists whose Done the dispatcher has not handled.
Working(t) == ap[t] \notin {"none", "gone"}

Queued(i) == chan[i].kind \in {"new", "read"}

\* A number is given out once, when its owner enters the channel.
Numbers ==
  /\ \A x \in Tickets \cup Readers : arrived[x] <= clock
  /\ \A t \in Tickets :
       /\ pc[t] \in {"submitting", "admitted", "counted"} => arrived[t] = 0
       /\ Started(t) => arrived[t] > 0
  /\ \A r \in Readers :
       /\ reader[r] = "idle" => arrived[r] = 0
       /\ reader[r] # "idle" => arrived[r] > 0 \/ reader[r] = "refused"

\* The channel: nobody in it is elsewhere, and it is sorted by arrival.
Channel ==
  /\ \A i \in DOMAIN chan :
       /\ chan[i].kind = "new" => ap[chan[i].id] = "none" /\ arrived[chan[i].id] > 0
       /\ chan[i].kind = "read" => reader[chan[i].id] = "waiting" /\ arrived[chan[i].id] > 0
       /\ chan[i].kind = "done" => ap[chan[i].id] = "reported"
  /\ \A i, j \in DOMAIN chan :
       /\ i < j /\ Queued(i) /\ Queued(j) => arrived[chan[i].id] < arrived[chan[j].id]
       /\ i < j /\ chan[i].kind = "done" /\ chan[j].kind = "done" => chan[i].id # chan[j].id

\* A backlog: of its own path, sorted, older than the channel.
Backlog ==
  \A k \in Keys :
    /\ inbox[k] # <<>> => k \in busy
    /\ \A i \in DOMAIN inbox[k] :
         /\ Key(inbox[k][i]) = k
         /\ ap[inbox[k][i]] = "none"
         /\ arrived[inbox[k][i]] > 0
         /\ \A j \in DOMAIN inbox[k] : i < j => arrived[inbox[k][i]] < arrived[inbox[k][j]]
         /\ \A j \in DOMAIN chan : Queued(j) => arrived[inbox[k][i]] < arrived[chan[j].id]

\* The reads parked on a path, older than the channel too.
Parked ==
  \A k \in Keys : \A r \in parked[k] :
    /\ ReadKey[r] = k
    /\ reader[r] = "waiting"
    /\ arrived[r] > 0
    /\ \A j \in DOMAIN chan : Queued(j) => arrived[r] < arrived[chan[j].id]

\* At most one applier per path, and the dispatcher knows of it; a ticket
\* that has arrived is not lost while the dispatcher is in its loop.
Ownership ==
  /\ \A t, u \in Tickets : Working(t) /\ Working(u) /\ Key(t) = Key(u) => t = u
  /\ open => \A t \in Tickets :
       /\ Working(t) => Key(t) \in busy
       /\ ap[t] = "none" /\ arrived[t] > 0 =>
            \/ \E i \in DOMAIN chan : chan[i] = Msg("new", t)
            \/ \E i \in DOMAIN inbox[Key(t)] : inbox[Key(t)][i] = t
  /\ ~open => chan = <<>> /\ \A k \in Keys : inbox[k] = <<>>

\* The inductive invariant, on top of TypeInv.
Order == Numbers /\ Channel /\ Backlog /\ Parked /\ Ownership /\ FifoPerPath /\ ReadYourWrites

-----------------------------------------------------------------------------
(* Steps that move nothing the order depends on.                           *)

orderVars == <<chan, open, busy, inbox, parked, ap, reader, clock, arrived>>

LEMMA QuietStep ==
  ASSUME Order, UNCHANGED orderVars,
         \A t \in Tickets : pc'[t] \in {"submitting", "admitted", "counted"}
                              => pc[t] \in {"submitting", "admitted", "counted"}
  PROVE  Order'
<1> USE DEF orderVars, Working, Queued, Started, Before
<1>1. Numbers'        BY DEF Order, Numbers
<1>2. Channel'        BY DEF Order, Channel
<1>3. Backlog'        BY DEF Order, Backlog
<1>4. Parked'         BY DEF Order, Parked
<1>5. Ownership'      BY DEF Order, Ownership
<1>6. FifoPerPath'    BY DEF Order, FifoPerPath
<1>7. ReadYourWrites' BY DEF Order, ReadYourWrites
<1> QED BY <1>1, <1>2, <1>3, <1>4, <1>5, <1>6, <1>7 DEF Order

\* An applier that stays at work, or ends when there is no dispatcher.
LEMMA WorkingStep ==
  ASSUME TypeOK, Order, NEW t \in Tickets, NEW to \in ApStates,
         ap[t] \in Active, to \in Active \cup {"dead"} \/ (~open /\ to = "gone"),
         ap' = [ap EXCEPT ![t] = to],
         UNCHANGED <<pc, chan, open, busy, inbox, parked, reader, clock, arrived>>
  PROVE  Order'
<1> USE DEF Working, Queued, Started, Before, Active, TypeOK, ApplierTypes
<1>0. /\ to # "none" /\ to # "reported" /\ (open => to # "gone")
      /\ ap[t] \notin {"none", "reported", "gone", "dead"}
  OBVIOUS
<1>1. Numbers'        BY <1>0 DEF Order, Numbers
<1>2. Channel'        BY <1>0 DEF Order, Channel, ChannelTypes
<1>3. Backlog'        BY <1>0 DEF Order, Backlog, DispatcherTypes
<1>4. Parked'         BY DEF Order, Parked
<1>5. Ownership'      BY <1>0 DEF Order, Ownership
<1>6. FifoPerPath'    BY <1>0 DEF Order, FifoPerPath
<1>7. ReadYourWrites' BY <1>0 DEF Order, ReadYourWrites
<1> QED BY <1>1, <1>2, <1>3, <1>4, <1>5, <1>6, <1>7 DEF Order

\* The end of an applier: its Done enters the channel.
LEMMA ReportStep ==
  ASSUME TypeOK, Order, NEW t \in Tickets, ap[t] = "report", open,
         ap' = [ap EXCEPT ![t] = "reported"], chan' = Append(chan, Msg("done", t)),
         UNCHANGED <<pc, open, busy, inbox, parked, reader, clock, arrived>>
  PROVE  Order'
<1> USE DEF Working, Queued, Started, Before, TypeOK, ApplierTypes
<1>0. /\ chan \in Seq(Message) /\ Msg("done", t) \in Message
      /\ Msg("done", t).kind = "done" /\ Msg("done", t).id = t
  BY MessageTypes DEF ChannelTypes, Msg
<1>a. /\ \A i \in DOMAIN chan : i \in DOMAIN chan' /\ chan'[i] = chan[i]
      /\ Len(chan) + 1 \in DOMAIN chan' /\ chan'[Len(chan) + 1] = Msg("done", t)
      /\ \A i \in DOMAIN chan' : i \in DOMAIN chan \/ i = Len(chan) + 1
      /\ \A i, j \in DOMAIN chan' : i < j => i \in DOMAIN chan
  BY <1>0
<1>1. Numbers'        BY DEF Order, Numbers
<1>2. Channel'
  <2>1. ASSUME NEW i \in DOMAIN chan'
        PROVE  /\ chan'[i].kind = "new" => ap'[chan'[i].id] = "none" /\ arrived[chan'[i].id] > 0
               /\ chan'[i].kind = "read" => reader[chan'[i].id] = "waiting" /\ arrived[chan'[i].id] > 0
               /\ chan'[i].kind = "done" => ap'[chan'[i].id] = "reported"
    BY <1>0, <1>a, <2>1 DEF Order, Channel, ChannelTypes
  <2>2. ASSUME NEW i \in DOMAIN chan', NEW j \in DOMAIN chan', i < j
        PROVE  /\ Queued(i)' /\ Queued(j)' => arrived[chan'[i].id] < arrived[chan'[j].id]
               /\ chan'[i].kind = "done" /\ chan'[j].kind = "done" => chan'[i].id # chan'[j].id
    BY <1>0, <1>a, <2>2 DEF Order, Channel, ChannelTypes
  <2>. QED BY <2>1, <2>2 DEF Channel
<1>b. \A j \in DOMAIN chan' : Queued(j)' => j \in DOMAIN chan /\ Queued(j) /\ chan'[j] = chan[j]
  BY <1>0, <1>a
<1>3. Backlog'        BY <1>b DEF Order, Backlog, DispatcherTypes
<1>4. Parked'         BY <1>b DEF Order, Parked
<1>5. Ownership'
  <2>1. ASSUME NEW u \in Tickets, ap'[u] = "none", arrived[u] > 0
        PROVE  \/ \E i \in DOMAIN chan' : chan'[i] = Msg("new", u)
               \/ \E i \in DOMAIN inbox[Key(u)] : inbox[Key(u)][i] = u
    <3>1. ap[u] = "none"
      BY <2>1
    <3>. QED BY <1>a, <2>1, <3>1 DEF Order, Ownership
  <2>. QED BY <2>1 DEF Order, Ownership
<1>6. FifoPerPath'    BY DEF Order, FifoPerPath
<1>7. ReadYourWrites' BY DEF Order, ReadYourWrites
<1> QED BY <1>1, <1>2, <1>3, <1>4, <1>5, <1>6, <1>7 DEF Order

\* A newcomer is younger than everybody.
LEMMA EnterStep ==
  ASSUME TypeOK, Order, NEW x \in Tickets \cup Readers, NEW kind \in {"new", "read"},
         kind = "new" => x \in Tickets /\ pc[x] = "counted" /\ pc' = [pc EXCEPT ![x] = "waiting"]
                         /\ UNCHANGED reader,
         kind = "read" => x \in Readers /\ reader[x] = "idle" /\ UNCHANGED pc
                          /\ reader' = [reader EXCEPT ![x] = "waiting"],
         open, Enter(x, kind), UNCHANGED <<open, busy, inbox, parked, ap>>
  PROVE  Order'
<1> USE DEF Working, Queued, Started, Before, TypeOK, ApplierTypes, ReaderTypes, SubmitTypes
<1> DEFINE m == Msg(kind, x)
<1>0. /\ chan \in Seq(Message) /\ m \in Message /\ m.kind = kind /\ m.id = x
  BY MessageTypes DEF ChannelTypes, Msg
<1>a. /\ \A i \in DOMAIN chan : i \in DOMAIN chan' /\ chan'[i] = chan[i]
      /\ Len(chan) + 1 \in DOMAIN chan' /\ chan'[Len(chan) + 1] = m
      /\ \A i \in DOMAIN chan' : i \in DOMAIN chan \/ i = Len(chan) + 1
      /\ \A i, j \in DOMAIN chan' : i < j => i \in DOMAIN chan
  BY <1>0 DEF Enter
<1>b. arrived[x] = 0
  BY DEF Order, Numbers
<1>c. /\ \A y \in Tickets \cup Readers : arrived'[y] = IF y = x THEN clock + 1 ELSE arrived[y]
      /\ clock \in Nat /\ clock' = clock + 1
      /\ \A y \in Tickets \cup Readers : arrived[y] \in Nat /\ arrived[y] <= clock
  BY DEF Enter, Order, Numbers
<1>d. \A i \in DOMAIN chan : Queued(i) =>
        /\ chan[i].id \in Tickets \cup Readers
        /\ chan[i].id # x
        /\ arrived'[chan[i].id] = arrived[chan[i].id]
        /\ arrived[chan[i].id] < arrived'[x]
  BY <1>b, <1>c DEF Order, Channel, ChannelTypes
<1> HIDE DEF m
<1>1. Numbers'
  BY <1>b, <1>c, ConstantsOK DEF Order, Numbers
<1>2. Channel'
  <2>1. ASSUME NEW i \in DOMAIN chan'
        PROVE  /\ chan'[i].kind = "new" => ap[chan'[i].id] = "none" /\ arrived'[chan'[i].id] > 0
               /\ chan'[i].kind = "read" => reader'[chan'[i].id] = "waiting" /\ arrived'[chan'[i].id] > 0
               /\ chan'[i].kind = "done" => ap[chan'[i].id] = "reported"
    <3>1. CASE i \in DOMAIN chan
      BY <1>a, <1>d, <3>1 DEF Order, Channel, ChannelTypes
    <3>2. CASE i = Len(chan) + 1
      BY <1>0, <1>a, <1>b, <1>c, <3>2 DEF Order, Numbers
    <3>. QED BY <1>a, <3>1, <3>2
  <2>2. ASSUME NEW i \in DOMAIN chan', NEW j \in DOMAIN chan', i < j
        PROVE  /\ Queued(i)' /\ Queued(j)' => arrived'[chan'[i].id] < arrived'[chan'[j].id]
               /\ chan'[i].kind = "done" /\ chan'[j].kind = "done" => chan'[i].id # chan'[j].id
    <3>1. i \in DOMAIN chan /\ chan'[i] = chan[i]
      BY <1>a, <2>2
    <3>2. CASE j \in DOMAIN chan
      BY <1>a, <1>d, <2>2, <3>1, <3>2 DEF Order, Channel
    <3>3. CASE j = Len(chan) + 1
      BY <1>0, <1>a, <1>d, <3>1, <3>3
    <3>. QED BY <1>a, <3>2, <3>3
  <2>. QED BY <2>1, <2>2 DEF Channel
<1>3. Backlog'
  <2>1. ASSUME NEW k \in Keys, NEW i \in DOMAIN inbox[k]
        PROVE  /\ inbox[k][i] \in Tickets
               /\ arrived'[inbox[k][i]] = arrived[inbox[k][i]]
               /\ arrived[inbox[k][i]] < arrived'[x]
    BY <1>b, <1>c, <2>1 DEF Order, Backlog, DispatcherTypes
  <2>2. ASSUME NEW k \in Keys, NEW i \in DOMAIN inbox[k], NEW j \in DOMAIN chan', Queued(j)'
        PROVE  arrived'[inbox[k][i]] < arrived'[chan'[j].id]
    <3>1. CASE j \in DOMAIN chan
      BY <1>a, <1>d, <2>1, <2>2, <3>1 DEF Order, Backlog
    <3>2. CASE j = Len(chan) + 1
      BY <1>0, <1>a, <2>1, <3>2
    <3>. QED BY <1>a, <3>1, <3>2
  <2>. QED BY <2>1, <2>2 DEF Order, Backlog
<1>4. Parked'
  <2>1. ASSUME NEW k \in Keys, NEW r \in parked[k]
        PROVE  /\ r \in Readers
               /\ arrived'[r] = arrived[r]
               /\ arrived[r] < arrived'[x]
               /\ reader'[r] = "waiting"
    <3>1. r \in Readers /\ arrived[r] > 0 /\ reader[r] = "waiting"
      BY <2>1 DEF Order, Parked, DispatcherTypes
    <3>2. r # x
      BY <1>b, <3>1
    <3>3. reader'[r] = reader[r]
      BY <3>1, <3>2
    <3>. QED BY <1>c, <3>1, <3>2, <3>3
  <2>2. ASSUME NEW k \in Keys, NEW r \in parked[k], NEW j \in DOMAIN chan', Queued(j)'
        PROVE  arrived'[r] < arrived'[chan'[j].id]
    <3>1. CASE j \in DOMAIN chan
      BY <1>a, <1>d, <2>1, <2>2, <3>1 DEF Order, Parked
    <3>2. CASE j = Len(chan) + 1
      BY <1>0, <1>a, <2>1, <3>2
    <3>. QED BY <1>a, <3>1, <3>2
  <2>. QED BY <2>1, <2>2 DEF Order, Parked
<1>5. Ownership'
  <2>1. ASSUME NEW t \in Tickets, ap[t] = "none", arrived'[t] > 0
        PROVE  \/ \E i \in DOMAIN chan' : chan'[i] = Msg("new", t)
               \/ \E i \in DOMAIN inbox[Key(t)] : inbox[Key(t)][i] = t
    <3>1. CASE t = x
      <4>1. kind = "new"
        BY <3>1, ConstantsOK
      <4>. QED BY <1>a, <3>1, <4>1 DEF m
    <3>2. CASE t # x
      <4>1. arrived[t] > 0
        BY <1>c, <2>1, <3>2
      <4>2. \/ \E i \in DOMAIN chan : chan[i] = Msg("new", t)
            \/ \E i \in DOMAIN inbox[Key(t)] : inbox[Key(t)][i] = t
        BY <2>1, <4>1 DEF Order, Ownership
      <4>. QED BY <1>a, <4>2
    <3>. QED BY <3>1, <3>2
  <2>. QED BY <2>1 DEF Order, Ownership
<1>6. FifoPerPath'
  BY <1>b, <1>c DEF Order, Numbers, FifoPerPath
<1>7. ReadYourWrites'
  BY <1>b, <1>c DEF Order, Numbers, ReadYourWrites
<1> QED BY <1>1, <1>2, <1>3, <1>4, <1>5, <1>6, <1>7 DEF Order

-----------------------------------------------------------------------------
(* The dispatcher's steps.                                                 *)

\* The first message is taken; the rest keeps its order.
LEMMA ReceiveFacts ==
  ASSUME TypeOK, NEW kind, Receive(kind)
  PROVE  /\ 1 \in DOMAIN chan /\ chan[1] = Head(chan) /\ chan[1].kind = kind
         /\ Received = chan[1].id
         /\ open
         /\ \A i \in DOMAIN chan' :
              i \in Nat /\ i + 1 \in DOMAIN chan /\ chan'[i] = chan[i + 1] /\ 1 < i + 1
         /\ \A i \in DOMAIN chan : i = 1 \/ \E j \in DOMAIN chan' : chan'[j] = chan[i]
<1>1. /\ chan \in Seq(Message) /\ chan # <<>> /\ chan' = Tail(chan)
      /\ Head(chan).kind = kind
  BY DEF Receive, TypeOK, ChannelTypes
<1>2. Len(chan) \in Nat /\ Len(chan) > 0 /\ DOMAIN chan = 1 .. Len(chan)
  BY <1>1
<1>3. DOMAIN chan' = 1 .. Len(chan) - 1
      /\ \A i \in DOMAIN chan' : chan'[i] = chan[i + 1]
  BY <1>1, <1>2
<1>4. ASSUME NEW i \in DOMAIN chan, i # 1 PROVE \E j \in DOMAIN chan' : chan'[j] = chan[i]
  <2>1. i - 1 \in DOMAIN chan' /\ chan'[i - 1] = chan[(i - 1) + 1] /\ (i - 1) + 1 = i
    BY <1>2, <1>3, <1>4
  <2>. QED BY <2>1
<1> QED BY <1>1, <1>2, <1>3, <1>4 DEF Received, Receive

\* Whatever else it does, taking a message keeps the channel in order, as
\* long as no ticket and no read still in it is touched.
LEMMA ReceiveChannel ==
  ASSUME TypeOK, Order, NEW kind, Receive(kind), UNCHANGED arrived,
         \A i \in DOMAIN chan' :
           /\ chan'[i].kind \in {"new", "done"} => ap'[chan'[i].id] = ap[chan'[i].id]
           /\ chan'[i].kind = "read" => reader'[chan'[i].id] = reader[chan'[i].id]
  PROVE  Channel'
<1>1. ASSUME NEW i \in DOMAIN chan'
      PROVE  /\ chan'[i].kind = "new" => ap'[chan'[i].id] = "none" /\ arrived[chan'[i].id] > 0
             /\ chan'[i].kind = "read" => reader'[chan'[i].id] = "waiting" /\ arrived[chan'[i].id] > 0
             /\ chan'[i].kind = "done" => ap'[chan'[i].id] = "reported"
  BY <1>1, ReceiveFacts DEF Order, Channel
<1>2. ASSUME NEW i \in DOMAIN chan', NEW j \in DOMAIN chan', i < j
      PROVE  /\ Queued(i)' /\ Queued(j)' => arrived[chan'[i].id] < arrived[chan'[j].id]
             /\ chan'[i].kind = "done" /\ chan'[j].kind = "done" => chan'[i].id # chan'[j].id
  <2>1. i + 1 \in DOMAIN chan /\ j + 1 \in DOMAIN chan /\ i + 1 < j + 1
    BY <1>2, ReceiveFacts
  <2>2. chan'[i] = chan[i + 1] /\ chan'[j] = chan[j + 1]
    BY ReceiveFacts
  <2>. QED BY <2>1, <2>2 DEF Order, Channel, Queued
<1> QED BY <1>1, <1>2 DEF Channel

\* The ticket or read just taken is older than what is left in the channel,
\* and younger than every backlog and every parked read.
LEMMA ReceivedYoungest ==
  ASSUME TypeOK, Order, NEW kind \in {"new", "read"}, Receive(kind)
  PROVE  /\ arrived[Received] > 0
         /\ \A j \in DOMAIN chan' : Queued(j)' => arrived[Received] < arrived[chan'[j].id]
         /\ \A k \in Keys : \A i \in DOMAIN inbox[k] : arrived[inbox[k][i]] < arrived[Received]
         /\ \A k \in Keys : \A r \in parked[k] : arrived[r] < arrived[Received]
<1>1. 1 \in DOMAIN chan /\ Queued(1) /\ Received = chan[1].id
  BY ReceiveFacts DEF Queued
<1>2. ASSUME NEW j \in DOMAIN chan', Queued(j)' PROVE arrived[Received] < arrived[chan'[j].id]
  <2>1. j + 1 \in DOMAIN chan /\ 1 < j + 1 /\ chan'[j] = chan[j + 1]
    BY ReceiveFacts
  <2>. QED BY <1>1, <1>2, <2>1 DEF Order, Channel, Queued
<1>3. arrived[Received] > 0
  BY <1>1 DEF Order, Channel, Queued
<1> QED BY <1>1, <1>2, <1>3 DEF Order, Backlog, Parked

\* What is queued in the rest of the channel was queued in the channel.
LEMMA RestQueued ==
  ASSUME TypeOK, NEW kind, Receive(kind)
  PROVE  \A j \in DOMAIN chan' : Queued(j)' =>
           \E i \in DOMAIN chan : Queued(i) /\ chan[i] = chan'[j]
BY ReceiveFacts DEF Queued

\* Where a ticket is that has arrived and that nobody works on yet, when the
\* first message is not its own: it stays where it was.
LEMMA StaysQueued ==
  ASSUME TypeOK, Order, NEW kind, Receive(kind), NEW u \in Tickets,
         ap[u] = "none", arrived[u] > 0, kind # "new" \/ u # Received
  PROVE  \/ \E i \in DOMAIN chan' : chan'[i] = Msg("new", u)
         \/ \E i \in DOMAIN inbox[Key(u)] : inbox[Key(u)][i] = u
<1>1. \/ \E i \in DOMAIN chan : chan[i] = Msg("new", u)
      \/ \E i \in DOMAIN inbox[Key(u)] : inbox[Key(u)][i] = u
  BY DEF Order, Ownership, Receive
<1>2. ASSUME NEW i \in DOMAIN chan, chan[i] = Msg("new", u)
      PROVE  \E j \in DOMAIN chan' : chan'[j] = Msg("new", u)
  <2>1. i # 1
    BY <1>2, ReceiveFacts DEF Msg
  <2>. QED BY <1>2, <2>1, ReceiveFacts
<1> QED BY <1>1, <1>2

\* A ticket for a busy path joins its backlog.
LEMMA QueueStep ==
  ASSUME TypeOK, Order, HandleNew, Busy(Key(Received)),
         inbox' = [inbox EXCEPT ![Key(Received)] = Append(@, Received)],
         UNCHANGED <<busy, ap>>
  PROVE  Order'
<1> DEFINE t == Received
           k == Key(Received)
<1> USE DEF TypeOK
<1>0. /\ Receive("new")
      /\ UNCHANGED <<pc, open, busy, parked, ap, reader, clock, arrived>>
  BY DEF HandleNew, submitVars, readVars, history
<1>1. t \in Tickets /\ k \in Keys /\ ap[t] = "none" /\ k \in busy
  BY <1>0, ReceiveFacts, RequestTypes DEF ChannelTypes, Order, Channel, Busy
<1>2. /\ inbox[k] \in Seq(Tickets)
      /\ \A i \in DOMAIN inbox[k] : i \in DOMAIN inbox'[k] /\ inbox'[k][i] = inbox[k][i]
      /\ Len(inbox[k]) + 1 \in DOMAIN inbox'[k] /\ inbox'[k][Len(inbox[k]) + 1] = t
      /\ \A i \in DOMAIN inbox'[k] : i \in DOMAIN inbox[k] \/ i = Len(inbox[k]) + 1
      /\ \A i, j \in DOMAIN inbox'[k] : i < j => i \in DOMAIN inbox[k]
      /\ \A q \in Keys : q # k => inbox'[q] = inbox[q]
  BY <1>1 DEF DispatcherTypes
<1>3. Numbers'
  BY <1>0 DEF Order, Numbers, Started
<1>4. Channel'
  BY <1>0, ReceiveChannel
<1>y. /\ arrived[t] > 0
      /\ \A j \in DOMAIN chan' : Queued(j)' => arrived[t] < arrived[chan'[j].id]
      /\ \A q \in Keys : \A i \in DOMAIN inbox[q] : arrived[inbox[q][i]] < arrived[t]
  BY <1>0, ReceivedYoungest
<1>r. \A j \in DOMAIN chan' : Queued(j)' => \E i \in DOMAIN chan : Queued(i) /\ chan[i] = chan'[j]
  BY <1>0, RestQueued
<1> HIDE DEF t, k
<1>5. Backlog'
  <2>1. ASSUME NEW q \in Keys, NEW i \in DOMAIN inbox'[q]
        PROVE  /\ Key(inbox'[q][i]) = q
               /\ ap[inbox'[q][i]] = "none"
               /\ arrived[inbox'[q][i]] > 0
    BY <1>1, <1>2, <1>y, <2>1 DEF Order, Backlog, k, t
  <2>2. ASSUME NEW q \in Keys, NEW i \in DOMAIN inbox'[q], NEW j \in DOMAIN inbox'[q], i < j
        PROVE  arrived[inbox'[q][i]] < arrived[inbox'[q][j]]
    BY <1>2, <1>y, <2>2, <1>1 DEF Order, Backlog
  <2>3. ASSUME NEW q \in Keys, NEW i \in DOMAIN inbox'[q], NEW j \in DOMAIN chan', Queued(j)'
        PROVE  arrived[inbox'[q][i]] < arrived[chan'[j].id]
    BY <1>2, <1>y, <1>r, <2>3, <1>1 DEF Order, Backlog
  <2>4. \A q \in Keys : inbox'[q] # <<>> => q \in busy
    BY <1>1, <1>2 DEF Order, Backlog
  <2>. QED BY <1>0, <2>1, <2>2, <2>3, <2>4 DEF Backlog
<1>6. Parked'
  BY <1>0, <1>r DEF Order, Parked
<1>7. Ownership'
  <2>1. ASSUME NEW u \in Tickets, ap[u] = "none", arrived[u] > 0
        PROVE  \/ \E i \in DOMAIN chan' : chan'[i] = Msg("new", u)
               \/ \E i \in DOMAIN inbox'[Key(u)] : inbox'[Key(u)][i] = u
    <3>1. CASE u = t
      BY <1>2, <3>1 DEF k, t
    <3>2. CASE u # t
      <4>1. \/ \E i \in DOMAIN chan' : chan'[i] = Msg("new", u)
            \/ \E i \in DOMAIN inbox[Key(u)] : inbox[Key(u)][i] = u
        BY <1>0, <2>1, <3>2, StaysQueued DEF t
      <4>2. ASSUME NEW i \in DOMAIN inbox[Key(u)], inbox[Key(u)][i] = u
            PROVE  \E j \in DOMAIN inbox'[Key(u)] : inbox'[Key(u)][j] = u
        BY <1>2, <4>2, RequestTypes
      <4>. QED BY <4>1, <4>2
    <3>. QED BY <3>1, <3>2
  <2>2. open
    BY <1>0 DEF Receive
  <2>. QED BY <1>0, <2>1, <2>2 DEF Order, Ownership, Working
<1>8. FifoPerPath' /\ ReadYourWrites'
  BY <1>0 DEF Order, FifoPerPath, ReadYourWrites, Before, Started
<1> QED BY <1>3, <1>4, <1>5, <1>6, <1>7, <1>8 DEF Order

\* A ticket for an idle path gets its applier.  Everything older of its path
\* is finished: it is in no backlog, not in the channel, and at work nowhere.
LEMMA StartStep ==
  ASSUME TypeOK, Order, HandleNew, ~Busy(Key(Received)),
         busy' = busy \cup {Key(Received)}, ap' = [ap EXCEPT ![Received] = "check"],
         UNCHANGED inbox
  PROVE  Order'
<1> DEFINE t == Received
           k == Key(Received)
<1> USE DEF TypeOK
<1>0. /\ Receive("new") /\ open
      /\ UNCHANGED <<pc, open, inbox, parked, reader, clock, arrived>>
  BY DEF HandleNew, submitVars, readVars, history, Receive
<1>1. t \in Tickets /\ k \in Keys /\ ap[t] = "none" /\ k \notin busy
  BY <1>0, ReceiveFacts, RequestTypes DEF ChannelTypes, Order, Channel, Busy
<1>a. \A u \in Tickets : ap'[u] = IF u = t THEN "check" ELSE ap[u]
  BY <1>1 DEF ApplierTypes
<1>y. /\ arrived[t] > 0
      /\ \A j \in DOMAIN chan' : Queued(j)' => arrived[t] < arrived[chan'[j].id]
      /\ \A q \in Keys : \A i \in DOMAIN inbox[q] : arrived[inbox[q][i]] < arrived[t]
      /\ arrived \in [Tickets \cup Readers -> Nat]
  BY <1>0, ReceivedYoungest DEF SubmitTypes
<1>r. \A j \in DOMAIN chan' : \E i \in DOMAIN chan : chan[i] = chan'[j]
  BY <1>0, ReceiveFacts
<1>q. \A j \in DOMAIN chan' : Queued(j)' => \E i \in DOMAIN chan : Queued(i) /\ chan[i] = chan'[j]
  BY <1>0, RestQueued
<1>s. ASSUME NEW u \in Tickets, u # t, ap[u] = "none", arrived[u] > 0
      PROVE  \/ \E i \in DOMAIN chan' : chan'[i] = Msg("new", u)
             \/ \E i \in DOMAIN inbox[Key(u)] : inbox[Key(u)][i] = u
  BY <1>0, <1>s, StaysQueued DEF t
<1>b. inbox[k] = <<>> /\ \A u \in Tickets : Working(u) => Key(u) # k
  BY <1>0, <1>1 DEF Order, Backlog, Ownership
<1> HIDE DEF t, k
<1>3. Numbers'
  BY <1>0, <1>a, <1>y DEF Order, Numbers, Started
<1>4. Channel'
  <2>1. ASSUME NEW i \in DOMAIN chan', chan'[i].kind \in {"new", "done"}
        PROVE  ap'[chan'[i].id] = ap[chan'[i].id]
    <3>1. chan'[i].id \in Tickets
      BY <1>r, <2>1 DEF ChannelTypes
    <3>2. chan'[i].id # t
      <4>1. CASE chan'[i].kind = "new"
        BY <1>y, <3>1, <4>1 DEF Queued
      <4>2. CASE chan'[i].kind = "done"
        BY <1>r, <1>1, <4>2 DEF Order, Channel
      <4>. QED BY <2>1, <4>1, <4>2
    <3>. QED BY <1>a, <3>1, <3>2
  <2>. QED BY <1>0, <2>1, ReceiveChannel
<1>5. Backlog'
  <2>1. ASSUME NEW q \in Keys, NEW i \in DOMAIN inbox[q]
        PROVE  ap'[inbox[q][i]] = "none"
    <3>1. inbox[q][i] \in Tickets /\ inbox[q][i] # t
      BY <1>y, <2>1 DEF DispatcherTypes
    <3>. QED BY <1>a, <2>1, <3>1 DEF Order, Backlog
  <2>. QED BY <1>0, <1>q, <2>1 DEF Order, Backlog, k
<1>6. Parked'
  BY <1>0, <1>q DEF Order, Parked
<1>7. Ownership'
  <2>1. \A u \in Tickets : Working(u)' <=> Working(u) \/ u = t
    BY <1>1, <1>a DEF Working
  <2>2. \A u, v \in Tickets : Working(u)' /\ Working(v)' /\ Key(u) = Key(v) => u = v
    BY <1>b, <2>1 DEF Order, Ownership, k, t
  <2>3. \A u \in Tickets : Working(u)' => Key(u) \in busy'
    BY <1>0, <2>1 DEF Order, Ownership, k, t
  <2>4. \A u \in Tickets : ap'[u] = "none" /\ arrived[u] > 0 =>
          \/ \E i \in DOMAIN chan' : chan'[i] = Msg("new", u)
          \/ \E i \in DOMAIN inbox[Key(u)] : inbox[Key(u)][i] = u
    BY <1>a, <1>s
  <2>. QED BY <1>0, <2>2, <2>3, <2>4 DEF Ownership
<1>8. FifoPerPath'
  <2>1. ASSUME NEW u \in Tickets, Key(u) = k, Before(u, t)
        PROVE  ap'[u] = "gone"
    <3>1. u # t
      BY <2>1, <1>1, <1>y DEF Before
    <3>2. ap[u] # "none"
      <4>1. SUFFICES ASSUME ap[u] = "none" PROVE FALSE
        OBVIOUS
      <4>2. CASE \E i \in DOMAIN chan' : chan'[i] = Msg("new", u)
        BY <1>y, <1>1, <2>1, <4>2 DEF Queued, Msg, Before
      <4>3. CASE \E i \in DOMAIN inbox[Key(u)] : inbox[Key(u)][i] = u
        BY <1>b, <2>1, <4>3
      <4>. QED BY <1>s, <2>1, <3>1, <4>1, <4>2, <4>3 DEF Before
    <3>. QED BY <1>a, <1>b, <2>1, <3>1, <3>2 DEF Working
  <2>2. ASSUME NEW u \in Tickets, NEW v \in Tickets,
               Key(u) = Key(v), Before(u, v), Started(v)', v # t
        PROVE  ap'[u] = "gone"
    BY <1>1, <1>a, <2>2 DEF Order, FifoPerPath, Started
  <2>. QED BY <1>0, <2>1, <2>2 DEF FifoPerPath, Before, Started, k, t
<1>9. ReadYourWrites'
  BY <1>0, <1>1, <1>a DEF Order, ReadYourWrites, Before
<1> QED BY <1>3, <1>4, <1>5, <1>6, <1>7, <1>8, <1>9 DEF Order

\* A read of a busy path is parked.
LEMMA ParkStep ==
  ASSUME TypeOK, Order, HandleRead,
         parked' = [parked EXCEPT ![ReadKey[Received]] = @ \cup {Received}],
         UNCHANGED readVars
  PROVE  Order'
<1> DEFINE r == Received
           k == ReadKey[Received]
<1> USE DEF TypeOK
<1>0. /\ Receive("read") /\ open
      /\ UNCHANGED <<pc, open, busy, inbox, ap, reader, clock, arrived>>
  BY DEF HandleRead, submitVars, readVars, applyVars, history, Receive
<1>1. r \in Readers /\ k \in Keys /\ reader[r] = "waiting"
  BY <1>0, ReceiveFacts, ConstantsOK DEF ChannelTypes, Order, Channel
<1>a. \A q \in Keys : parked'[q] = IF q = k THEN parked[k] \cup {r} ELSE parked[q]
  BY <1>1 DEF DispatcherTypes
<1>y. /\ arrived[r] > 0
      /\ \A j \in DOMAIN chan' : Queued(j)' => arrived[r] < arrived[chan'[j].id]
  BY <1>0, ReceivedYoungest
<1>q. \A j \in DOMAIN chan' : Queued(j)' => \E i \in DOMAIN chan : Queued(i) /\ chan[i] = chan'[j]
  BY <1>0, RestQueued
<1>s. \A u \in Tickets : ap[u] = "none" /\ arrived[u] > 0 =>
          \/ \E i \in DOMAIN chan' : chan'[i] = Msg("new", u)
          \/ \E i \in DOMAIN inbox[Key(u)] : inbox[Key(u)][i] = u
  BY <1>0, StaysQueued
<1>k. ReadKey[r] = k
  OBVIOUS
<1> HIDE DEF r, k
<1>2. Numbers'
  BY <1>0 DEF Order, Numbers, Started
<1>3. Channel'
  BY <1>0, ReceiveChannel
<1>4. Backlog'
  BY <1>0, <1>q DEF Order, Backlog
<1>5. Parked'
  BY <1>0, <1>1, <1>a, <1>k, <1>q, <1>y DEF Order, Parked
<1>6. Ownership'
  BY <1>0, <1>s DEF Order, Ownership, Working
<1>7. FifoPerPath' /\ ReadYourWrites'
  BY <1>0 DEF Order, FifoPerPath, ReadYourWrites, Before, Started
<1> QED BY <1>2, <1>3, <1>4, <1>5, <1>6, <1>7 DEF Order

\* A read of an idle path is answered: no older ticket of the path is left.
LEMMA AnswerStep ==
  ASSUME TypeOK, Order, HandleRead, ~MustPark(ReadKey[Received]),
         Fulfill({Received}, ReadKey[Received]), UNCHANGED parked
  PROVE  Order'
<1> DEFINE r == Received
           k == ReadKey[Received]
<1> USE DEF TypeOK
<1>0. /\ Receive("read") /\ open
      /\ UNCHANGED <<pc, open, busy, inbox, parked, ap, clock, arrived>>
  BY DEF HandleRead, submitVars, applyVars, history, Receive
<1>1. r \in Readers /\ k \in Keys /\ reader[r] = "waiting" /\ k \notin busy
  BY <1>0, ReceiveFacts, ConstantsOK DEF ChannelTypes, Order, Channel, MustPark
<1>a. \A p \in Readers : reader'[p] = IF p = r THEN "answered" ELSE reader[p]
  BY DEF Fulfill
<1>y. /\ arrived[r] > 0
      /\ \A j \in DOMAIN chan' : Queued(j)' => arrived[r] < arrived[chan'[j].id]
      /\ \A q \in Keys : \A p \in parked[q] : arrived[p] < arrived[r]
      /\ arrived \in [Tickets \cup Readers -> Nat]
  BY <1>0, ReceivedYoungest DEF SubmitTypes
<1>q. \A j \in DOMAIN chan' : Queued(j)' => \E i \in DOMAIN chan : Queued(i) /\ chan[i] = chan'[j]
  BY <1>0, RestQueued
<1>r. \A j \in DOMAIN chan' : \E i \in DOMAIN chan : chan[i] = chan'[j]
  BY <1>0, ReceiveFacts
<1>s. \A u \in Tickets : ap[u] = "none" /\ arrived[u] > 0 =>
          \/ \E i \in DOMAIN chan' : chan'[i] = Msg("new", u)
          \/ \E i \in DOMAIN inbox[Key(u)] : inbox[Key(u)][i] = u
  BY <1>0, StaysQueued
<1>b. inbox[k] = <<>> /\ \A u \in Tickets : Working(u) => Key(u) # k
  BY <1>0, <1>1 DEF Order, Backlog, Ownership
<1>k. ReadKey[r] = k
  OBVIOUS
<1> HIDE DEF r, k
<1>2. Numbers'
  BY <1>0, <1>a, <1>y DEF Order, Numbers, Started
<1>3. Channel'
  <2>1. ASSUME NEW i \in DOMAIN chan', chan'[i].kind = "read"
        PROVE  reader'[chan'[i].id] = reader[chan'[i].id]
    <3>1. chan'[i].id \in Readers
      BY <1>r, <2>1 DEF ChannelTypes
    <3>2. chan'[i].id # r
      BY <1>y, <2>1, <3>1 DEF Queued
    <3>. QED BY <1>a, <3>1, <3>2
  <2>. QED BY <1>0, <2>1, ReceiveChannel
<1>4. Backlog'
  BY <1>0, <1>q DEF Order, Backlog
<1>5. Parked'
  <2>1. ASSUME NEW q \in Keys, NEW p \in parked[q] PROVE reader'[p] = reader[p]
    <3>1. p \in Readers /\ p # r
      BY <1>y, <2>1 DEF DispatcherTypes
    <3>. QED BY <1>a, <3>1
  <2>. QED BY <1>0, <1>q, <2>1 DEF Order, Parked
<1>6. Ownership'
  BY <1>0, <1>s DEF Order, Ownership, Working
<1>7. FifoPerPath'
  BY <1>0 DEF Order, FifoPerPath, Before, Started
<1>8. ReadYourWrites'
  <2>1. ASSUME NEW u \in Tickets, Key(u) = k, Before(u, r)
        PROVE  ap[u] = "gone"
    <3>1. ap[u] # "none"
      <4>1. SUFFICES ASSUME ap[u] = "none" PROVE FALSE
        OBVIOUS
      <4>2. CASE \E i \in DOMAIN chan' : chan'[i] = Msg("new", u)
        BY <1>y, <1>1, <2>1, <4>2 DEF Queued, Msg, Before
      <4>3. CASE \E i \in DOMAIN inbox[Key(u)] : inbox[Key(u)][i] = u
        BY <1>b, <2>1, <4>3
      <4>. QED BY <1>s, <2>1, <4>1, <4>2, <4>3 DEF Before
    <3>. QED BY <1>b, <2>1, <3>1 DEF Working
  <2>2. ASSUME NEW p \in Readers, NEW u \in Tickets, p # r, ReadKey[p] = Key(u),
               reader'[p] = "answered", Before(u, p)
        PROVE  ap[u] = "gone"
    BY <1>a, <2>2 DEF Order, ReadYourWrites
  <2>. QED BY <1>0, <1>k, <2>1, <2>2 DEF ReadYourWrites, Before
<1> QED BY <1>2, <1>3, <1>4, <1>5, <1>6, <1>7, <1>8 DEF Order

\* The ticket that has just finished was the one at work on its path.
LEMMA DoneFacts ==
  ASSUME TypeOK, Order, Receive("done")
  PROVE  /\ Received \in Tickets /\ Key(Received) \in Keys /\ Key(Received) \in busy
         /\ ap[Received] = "reported"
         /\ \A u \in Tickets : Working(u) /\ Key(u) = Key(Received) => u = Received
         /\ \A i \in DOMAIN chan' : chan'[i].kind \in {"new", "done"} =>
              chan'[i].id \in Tickets /\ chan'[i].id # Received
<1>1. /\ 1 \in DOMAIN chan /\ Received = chan[1].id /\ chan[1].kind = "done" /\ open
      /\ \A i \in DOMAIN chan' : i + 1 \in DOMAIN chan /\ chan'[i] = chan[i + 1] /\ 1 < i + 1
  BY ReceiveFacts
<1>2. Received \in Tickets /\ ap[Received] = "reported"
  BY <1>1 DEF TypeOK, ChannelTypes, Order, Channel
<1>3. Working(Received)
  BY <1>2 DEF Working
<1>4. ASSUME NEW i \in DOMAIN chan', chan'[i].kind \in {"new", "done"}
      PROVE  chan'[i].id \in Tickets /\ chan'[i].id # Received
  BY <1>1, <1>2, <1>4 DEF TypeOK, ChannelTypes, Order, Channel
<1> QED BY <1>1, <1>2, <1>3, <1>4, RequestTypes DEF Order, Ownership

\* The oldest ticket of the backlog gets its applier.
LEMMA NextStep ==
  ASSUME TypeOK, Order, HandleDone, inbox[Key(Received)] # <<>>,
         inbox' = [inbox EXCEPT ![Key(Received)] = Tail(@)],
         ap' = [ap EXCEPT ![Received] = "gone", ![Head(inbox[Key(Received)])] = "check"],
         UNCHANGED <<busy, parked, readVars>>
  PROVE  Order'
<1> DEFINE t == Received
           k == Key(Received)
           n == Head(inbox[Key(Received)])
<1> USE DEF TypeOK
<1>0. /\ Receive("done") /\ open
      /\ UNCHANGED <<pc, open, busy, parked, reader, clock, arrived>>
  BY DEF HandleDone, submitVars, readVars, history, Receive
<1>1. /\ t \in Tickets /\ k \in Keys /\ k = Key(t) /\ k \in busy /\ ap[t] = "reported"
      /\ \A u \in Tickets : Working(u) /\ Key(u) = k => u = t
  BY <1>0, DoneFacts
<1>2. /\ inbox[k] \in Seq(Tickets)
      /\ 1 \in DOMAIN inbox[k] /\ n = inbox[k][1]
      /\ \A i \in DOMAIN inbox'[k] :
           i \in Nat /\ i + 1 \in DOMAIN inbox[k] /\ inbox'[k][i] = inbox[k][i + 1] /\ 1 < i + 1
      /\ \A q \in Keys : q # k => inbox'[q] = inbox[q]
  BY <1>1 DEF DispatcherTypes
<1>3. \A i \in DOMAIN inbox[k] : i = 1 \/ \E j \in DOMAIN inbox'[k] : inbox'[k][j] = inbox[k][i]
  <2>1. /\ Len(inbox[k]) \in Nat /\ DOMAIN inbox[k] = 1 .. Len(inbox[k])
        /\ DOMAIN inbox'[k] = 1 .. Len(inbox[k]) - 1
        /\ \A i \in DOMAIN inbox'[k] : inbox'[k][i] = inbox[k][i + 1]
    BY <1>1, <1>2 DEF DispatcherTypes
  <2>2. ASSUME NEW i \in DOMAIN inbox[k], i # 1
        PROVE  \E j \in DOMAIN inbox'[k] : inbox'[k][j] = inbox[k][i]
    <3>1. i - 1 \in DOMAIN inbox'[k] /\ inbox'[k][i - 1] = inbox[k][(i - 1) + 1] /\ (i - 1) + 1 = i
      BY <2>1, <2>2
    <3>. QED BY <3>1
  <2>. QED BY <2>2
<1>4. /\ n \in Tickets /\ Key(n) = k /\ ap[n] = "none" /\ arrived[n] > 0
      /\ \A i \in DOMAIN inbox[k] : 1 < i => arrived[n] < arrived[inbox[k][i]]
      /\ \A j \in DOMAIN chan : Queued(j) => arrived[n] < arrived[chan[j].id]
      /\ arrived \in [Tickets \cup Readers -> Nat]
  BY <1>1, <1>2 DEF Order, Backlog, SubmitTypes
<1>a. \A u \in Tickets : ap'[u] = IF u = n THEN "check" ELSE IF u = t THEN "gone" ELSE ap[u]
  BY <1>1, <1>4 DEF ApplierTypes
<1>c. \A i \in DOMAIN chan' : chan'[i].kind \in {"new", "done"} =>
        chan'[i].id \in Tickets /\ chan'[i].id # t
  BY <1>0, DoneFacts
<1>q. \A j \in DOMAIN chan' : Queued(j)' => \E i \in DOMAIN chan : Queued(i) /\ chan[i] = chan'[j]
  BY <1>0, RestQueued
<1>r. \A j \in DOMAIN chan' : \E i \in DOMAIN chan : chan[i] = chan'[j]
  BY <1>0, ReceiveFacts
<1>s. \A u \in Tickets : ap[u] = "none" /\ arrived[u] > 0 =>
          \/ \E i \in DOMAIN chan' : chan'[i] = Msg("new", u)
          \/ \E i \in DOMAIN inbox[Key(u)] : inbox[Key(u)][i] = u
  BY <1>0, StaysQueued
<1> HIDE DEF t, k, n
<1>5. Numbers'
  BY <1>0, <1>1, <1>4, <1>a DEF Order, Numbers, Started
<1>6. Channel'
  <2>1. ASSUME NEW i \in DOMAIN chan', chan'[i].kind \in {"new", "done"}
        PROVE  ap'[chan'[i].id] = ap[chan'[i].id]
    <3>1. chan'[i].id # n
      <4>1. CASE chan'[i].kind = "new"
        BY <1>4, <1>q, <4>1 DEF Queued
      <4>2. CASE chan'[i].kind = "done"
        BY <1>4, <1>r, <4>2 DEF Order, Channel
      <4>. QED BY <2>1, <4>1, <4>2
    <3>. QED BY <1>a, <1>c, <2>1, <3>1
  <2>. QED BY <1>0, <2>1, ReceiveChannel
<1>7. Backlog'
  <2>1. ASSUME NEW q \in Keys, NEW i \in DOMAIN inbox'[q]
        PROVE  /\ inbox'[q][i] \in Tickets /\ inbox'[q][i] # n /\ inbox'[q][i] # t
               /\ Key(inbox'[q][i]) = q
               /\ ap'[inbox'[q][i]] = "none"
               /\ arrived[inbox'[q][i]] > 0
               /\ \A j \in DOMAIN chan' : Queued(j)' => arrived[inbox'[q][i]] < arrived[chan'[j].id]
    <3>1. CASE q = k
      <4> DEFINE x == inbox[k][i + 1]
      <4>1. /\ i + 1 \in DOMAIN inbox[k] /\ 1 < i + 1 /\ inbox'[q][i] = x
            /\ x \in Tickets
        BY <1>2, <2>1, <3>1
      <4>2. x # n /\ x # t
        BY <1>1, <1>4, <4>1 DEF Order, Backlog
      <4>3. /\ Key(x) = k /\ ap[x] = "none" /\ arrived[x] > 0
            /\ \A j \in DOMAIN chan : Queued(j) => arrived[x] < arrived[chan[j].id]
        BY <1>1, <4>1 DEF Order, Backlog
      <4>. QED BY <1>a, <1>q, <3>1, <4>1, <4>2, <4>3
    <3>2. CASE q # k
      <4>1. inbox'[q] = inbox[q] /\ inbox[q][i] \in Tickets
        BY <1>2, <2>1, <3>2 DEF DispatcherTypes
      <4>2. inbox[q][i] # n /\ inbox[q][i] # t
        BY <1>1, <1>4, <2>1, <3>2, <4>1 DEF Order, Backlog
      <4>3. /\ i \in DOMAIN inbox[q] /\ Key(inbox[q][i]) = q
            /\ ap[inbox[q][i]] = "none" /\ arrived[inbox[q][i]] > 0
            /\ \A j \in DOMAIN chan : Queued(j) => arrived[inbox[q][i]] < arrived[chan[j].id]
        BY <2>1, <4>1 DEF Order, Backlog
      <4>. QED BY <1>a, <1>q, <4>1, <4>2, <4>3
    <3>. QED BY <3>1, <3>2
  <2>2. ASSUME NEW q \in Keys, NEW i \in DOMAIN inbox'[q], NEW j \in DOMAIN inbox'[q], i < j
        PROVE  arrived[inbox'[q][i]] < arrived[inbox'[q][j]]
    <3>1. CASE q = k
      <4>1. /\ i + 1 \in DOMAIN inbox[k] /\ j + 1 \in DOMAIN inbox[k] /\ i + 1 < j + 1
            /\ inbox'[q][i] = inbox[k][i + 1] /\ inbox'[q][j] = inbox[k][j + 1]
        BY <1>2, <2>2, <3>1
      <4>. QED BY <1>1, <4>1 DEF Order, Backlog
    <3>2. CASE q # k
      BY <1>2, <2>2, <3>2 DEF Order, Backlog
    <3>. QED BY <3>1, <3>2
  <2>3. ASSUME NEW q \in Keys, inbox'[q] # <<>> PROVE q \in busy
    BY <1>1, <1>2, <2>3 DEF Order, Backlog
  <2>. QED BY <1>0, <2>1, <2>2, <2>3 DEF Backlog
<1>8. Parked'
  BY <1>0, <1>q DEF Order, Parked
<1>9. Ownership'
  <2>1. \A u \in Tickets : Working(u)' => u = n \/ (Working(u) /\ u # t)
    BY <1>a DEF Working
  <2>2. \A u, v \in Tickets : Working(u)' /\ Working(v)' /\ Key(u) = Key(v) => u = v
    BY <1>1, <1>4, <2>1 DEF Order, Ownership
  <2>3. \A u \in Tickets : Working(u)' => Key(u) \in busy
    BY <1>0, <1>1, <1>4, <2>1 DEF Order, Ownership
  <2>4. ASSUME NEW u \in Tickets, ap'[u] = "none", arrived[u] > 0
        PROVE  \/ \E i \in DOMAIN chan' : chan'[i] = Msg("new", u)
               \/ \E i \in DOMAIN inbox'[Key(u)] : inbox'[Key(u)][i] = u
    <3>1. ap[u] = "none" /\ u # n
      BY <1>a, <2>4
    <3>2. ASSUME NEW i \in DOMAIN inbox[Key(u)], inbox[Key(u)][i] = u
          PROVE  \E j \in DOMAIN inbox'[Key(u)] : inbox'[Key(u)][j] = u
      <4>1. CASE Key(u) = k
        BY <1>2, <1>3, <3>1, <3>2, <4>1
      <4>2. CASE Key(u) # k
        BY <1>2, <3>2, <4>2, RequestTypes
      <4>. QED BY <4>1, <4>2
    <3>. QED BY <1>s, <2>4, <3>1, <3>2
  <2>. QED BY <1>0, <2>2, <2>3, <2>4 DEF Ownership
<1>10. FifoPerPath'
  <2>1. ASSUME NEW u \in Tickets, Key(u) = k, Before(u, n)
        PROVE  ap'[u] = "gone"
    <3>1. u # n
      BY <1>4, <2>1 DEF Before
    <3>2. ap[u] # "none"
      <4>1. SUFFICES ASSUME ap[u] = "none" PROVE FALSE
        OBVIOUS
      <4>2. CASE \E i \in DOMAIN chan' : chan'[i] = Msg("new", u)
        BY <1>4, <1>q, <2>1, <4>2 DEF Queued, Msg, Before
      <4>3. CASE \E i \in DOMAIN inbox[Key(u)] : inbox[Key(u)][i] = u
        <5>1. PICK i \in DOMAIN inbox[k] : inbox[k][i] = u
          BY <2>1, <4>3
        <5>2. 1 < i
          BY <1>2, <3>1, <5>1
        <5>. QED BY <1>4, <2>1, <5>1, <5>2 DEF Before
      <4>. QED BY <1>s, <2>1, <4>1, <4>2, <4>3 DEF Before
    <3>. QED BY <1>1, <1>a, <2>1, <3>1, <3>2 DEF Working
  <2>2. ASSUME NEW u \in Tickets, NEW v \in Tickets,
               Key(u) = Key(v), Before(u, v), Started(v)', v # n
        PROVE  ap'[u] = "gone"
    BY <1>1, <1>4, <1>a, <2>2 DEF Order, FifoPerPath, Started
  <2>. QED BY <1>0, <1>4, <2>1, <2>2 DEF FifoPerPath, Before, Started
<1>11. ReadYourWrites'
  BY <1>0, <1>1, <1>4, <1>a DEF Order, ReadYourWrites, Before
<1> QED BY <1>5, <1>6, <1>7, <1>8, <1>9, <1>10, <1>11 DEF Order

\* The path becomes idle and its parked reads are answered.
LEMMA IdleStep ==
  ASSUME TypeOK, Order, HandleDone, inbox[Key(Received)] = <<>>,
         ap' = [ap EXCEPT ![Received] = "gone"],
         busy' = busy \ {Key(Received)},
         parked' = [parked EXCEPT ![Key(Received)] = {}],
         Fulfill(ReadsDue(Key(Received)), Key(Received)),
         UNCHANGED inbox
  PROVE  Order'
<1> DEFINE t == Received
           k == Key(Received)
<1> USE DEF TypeOK
<1>0. /\ Receive("done") /\ open
      /\ UNCHANGED <<pc, open, inbox, clock, arrived>>
  BY DEF HandleDone, submitVars, history, Receive
<1>1. /\ t \in Tickets /\ k \in Keys /\ k = Key(t) /\ k \in busy /\ ap[t] = "reported"
      /\ \A u \in Tickets : Working(u) /\ Key(u) = k => u = t
      /\ inbox[k] = <<>>
  BY <1>0, DoneFacts
<1>a. \A u \in Tickets : ap'[u] = IF u = t THEN "gone" ELSE ap[u]
  BY <1>1 DEF ApplierTypes
<1>b. \A r \in Readers : reader'[r] = IF r \in parked[k] THEN "answered" ELSE reader[r]
  BY DEF Fulfill, ReadsDue
<1>d. \A q \in Keys : parked'[q] = IF q = k THEN {} ELSE parked[q]
  BY <1>1 DEF DispatcherTypes
<1>c. \A i \in DOMAIN chan' : chan'[i].kind \in {"new", "done"} =>
        chan'[i].id \in Tickets /\ chan'[i].id # t
  BY <1>0, DoneFacts
<1>q. \A j \in DOMAIN chan' : Queued(j)' => \E i \in DOMAIN chan : Queued(i) /\ chan[i] = chan'[j]
  BY <1>0, RestQueued
<1>r. \A j \in DOMAIN chan' : \E i \in DOMAIN chan : chan[i] = chan'[j]
  BY <1>0, ReceiveFacts
<1>s. \A u \in Tickets : ap[u] = "none" /\ arrived[u] > 0 =>
          \/ \E i \in DOMAIN chan' : chan'[i] = Msg("new", u)
          \/ \E i \in DOMAIN inbox[Key(u)] : inbox[Key(u)][i] = u
  BY <1>0, StaysQueued
<1>p. \A r \in parked[k] :
        /\ r \in Readers /\ ReadKey[r] = k /\ arrived[r] > 0
        /\ \A j \in DOMAIN chan : Queued(j) => arrived[r] < arrived[chan[j].id]
  BY <1>1 DEF Order, Parked, DispatcherTypes
<1>n. arrived \in [Tickets \cup Readers -> Nat]
  BY DEF SubmitTypes
<1> HIDE DEF t, k
<1>2. Numbers'
  BY <1>0, <1>1, <1>a, <1>b, <1>p DEF Order, Numbers, Started
<1>3. Channel'
  <2>1. ASSUME NEW i \in DOMAIN chan', chan'[i].kind \in {"new", "done"}
        PROVE  ap'[chan'[i].id] = ap[chan'[i].id]
    BY <1>a, <1>c, <2>1
  <2>2. ASSUME NEW i \in DOMAIN chan', chan'[i].kind = "read"
        PROVE  reader'[chan'[i].id] = reader[chan'[i].id]
    <3>1. chan'[i].id \in Readers
      BY <1>r, <2>2 DEF ChannelTypes
    <3>2. chan'[i].id \notin parked[k]
      BY <1>n, <1>p, <1>q, <2>2, <3>1 DEF Queued
    <3>. QED BY <1>b, <3>1, <3>2
  <2>. QED BY <1>0, <2>1, <2>2, ReceiveChannel
<1>4. Backlog'
  <2>1. ASSUME NEW q \in Keys, NEW i \in DOMAIN inbox[q]
        PROVE  ap'[inbox[q][i]] = "none"
    <3>1. inbox[q][i] \in Tickets /\ ap[inbox[q][i]] = "none"
      BY <2>1 DEF Order, Backlog, DispatcherTypes
    <3>. QED BY <1>1, <1>a, <3>1
  <2>2. \A q \in Keys : inbox[q] # <<>> => q \in busy \ {k}
    BY <1>1 DEF Order, Backlog
  <2>. QED BY <1>0, <1>q, <2>1, <2>2 DEF Order, Backlog, k
<1>5. Parked'
  <2>1. ASSUME NEW q \in Keys, NEW r \in parked'[q]
        PROVE  q # k /\ r \in parked[q] /\ reader'[r] = reader[r]
    <3>1. q # k /\ r \in parked[q] /\ r \in Readers
      BY <1>d, <2>1 DEF DispatcherTypes
    <3>2. r \notin parked[k]
      BY <1>p, <3>1 DEF Order, Parked
    <3>. QED BY <1>b, <3>1, <3>2
  <2>. QED BY <1>0, <1>q, <2>1 DEF Order, Parked
<1>6. Ownership'
  <2>1. \A u \in Tickets : Working(u)' => Working(u) /\ Key(u) # k
    BY <1>1, <1>a DEF Working
  <2>2. \A u \in Tickets : Working(u)' => Key(u) \in busy'
    BY <1>0, <2>1 DEF Order, Ownership, k
  <2>3. \A u \in Tickets : ap'[u] = "none" => ap[u] = "none"
    BY <1>a
  <2>. QED BY <1>0, <1>s, <2>1, <2>2, <2>3 DEF Order, Ownership
<1>7. FifoPerPath'
  BY <1>0, <1>1, <1>a DEF Order, FifoPerPath, Before, Started
<1>8. ReadYourWrites'
  <2>1. ASSUME NEW r \in parked[k], NEW u \in Tickets, Key(u) = k, Before(u, r)
        PROVE  ap'[u] = "gone"
    <3>1. ap[u] # "none"
      <4>1. SUFFICES ASSUME ap[u] = "none" PROVE FALSE
        OBVIOUS
      <4>2. CASE \E i \in DOMAIN chan' : chan'[i] = Msg("new", u)
        BY <1>n, <1>p, <1>q, <2>1, <4>2 DEF Queued, Msg, Before
      <4>3. CASE \E i \in DOMAIN inbox[Key(u)] : inbox[Key(u)][i] = u
        BY <1>1, <2>1, <4>3
      <4>. QED BY <1>s, <2>1, <4>1, <4>2, <4>3 DEF Before
    <3>. QED BY <1>1, <1>a, <2>1, <3>1 DEF Working
  <2>2. ASSUME NEW r \in Readers, NEW u \in Tickets, r \notin parked[k], ReadKey[r] = Key(u),
               reader'[r] = "answered", Before(u, r)
        PROVE  ap'[u] = "gone"
    BY <1>1, <1>a, <1>b, <2>2 DEF Order, ReadYourWrites
  <2>. QED BY <1>0, <1>p, <2>1, <2>2 DEF ReadYourWrites, Before
<1> QED BY <1>2, <1>3, <1>4, <1>5, <1>6, <1>7, <1>8 DEF Order

\* A shutdown is one more message; when it is handled nothing waits any more.
LEMMA ShutdownStep ==
  ASSUME TypeOK, Order, Shutdown
  PROVE  Order'
<1> USE DEF TypeOK
<1>0. /\ open /\ chan \in Seq(Message) /\ chan' = Append(chan, Msg("shutdown", None))
      /\ Msg("shutdown", None) \in Message /\ Msg("shutdown", None).kind = "shutdown"
      /\ UNCHANGED <<pc, open, busy, inbox, parked, ap, reader, clock, arrived>>
  BY MessageTypes DEF Shutdown, ChannelTypes, Msg, submitVars, dispVars, applyVars, readVars, history
<1>a. /\ \A i \in DOMAIN chan : i \in DOMAIN chan' /\ chan'[i] = chan[i]
      /\ \A i \in DOMAIN chan' : chan'[i].kind # "shutdown" => i \in DOMAIN chan /\ chan'[i] = chan[i]
  BY <1>0
<1>1. Numbers'
  BY <1>0 DEF Order, Numbers, Started
<1>2. Channel'
  BY <1>0, <1>a DEF Order, Channel, Queued
<1>3. Backlog' /\ Parked'
  BY <1>0, <1>a DEF Order, Backlog, Parked, Queued
<1>4. Ownership'
  BY <1>0, <1>a DEF Order, Ownership, Working
<1>5. FifoPerPath' /\ ReadYourWrites'
  BY <1>0 DEF Order, FifoPerPath, ReadYourWrites, Before, Started
<1> QED BY <1>1, <1>2, <1>3, <1>4, <1>5 DEF Order

LEMMA HandleShutdownStep ==
  ASSUME TypeOK, Order, HandleShutdown
  PROVE  Order'
<1>0. /\ chan' = <<>> /\ open' = FALSE
      /\ inbox' = [k \in Keys |-> <<>>] /\ parked' = [k \in Keys |-> {}]
      /\ UNCHANGED <<pc, ap, clock, arrived>>
      /\ \A r \in Readers : reader'[r] = IF reader[r] = "waiting" THEN "refused" ELSE reader[r]
  BY DEF HandleShutdown, submitVars, applyVars, history
<1>1. Numbers'
  BY <1>0 DEF Order, Numbers, Started
<1>2. Channel'
  BY <1>0 DEF Channel
<1>3. Backlog' /\ Parked'
  BY <1>0 DEF Backlog, Parked
<1>4. Ownership'
  BY <1>0 DEF Order, Ownership, Working
<1>5. FifoPerPath' /\ ReadYourWrites'
  BY <1>0 DEF Order, FifoPerPath, ReadYourWrites, Before, Started
<1> QED BY <1>1, <1>2, <1>3, <1>4, <1>5 DEF Order

-----------------------------------------------------------------------------
(* The theorems.                                                           *)

LEMMA OrderInit == Init => Order
<1> SUFFICES ASSUME Init PROVE Order
  OBVIOUS
<1>1. Numbers /\ Channel /\ Parked
  BY ConstantsOK DEF Init, Numbers, Channel, Parked, Started
<1>2. Backlog /\ Ownership
  BY RequestTypes DEF Init, Backlog, Ownership, Working
<1>3. FifoPerPath /\ ReadYourWrites
  BY DEF Init, FifoPerPath, ReadYourWrites, Started
<1> QED BY <1>1, <1>2, <1>3 DEF Order

\* One step of an applier: at work, reporting, or ending without a dispatcher.
LEMMA ApplierOrder ==
  ASSUME TypeOK, Order, NEW t \in Tickets, Applier(t)
  PROVE  Order'
<1>0. UNCHANGED <<pc, open, busy, inbox, parked, reader, clock, arrived>>
  BY ApplierFrame DEF submitVars, dispVars, readVars, history
<1>w. ASSUME NEW to \in Active \cup {"dead"}, ap[t] \in Active,
             ap' = [ap EXCEPT ![t] = to], UNCHANGED chan
      PROVE  Order'
  BY <1>0, <1>w, WorkingStep DEF ApStates
<1>1. CASE Report(t)
  <2>1. CASE open
    BY <1>0, <1>1, <2>1, ReportStep DEF Report, Step
  <2>2. CASE ~open
    <3>1. /\ ap[t] \in Active /\ "gone" \in ApStates
          /\ ap' = [ap EXCEPT ![t] = "gone"] /\ UNCHANGED chan
      BY <1>1, <2>2 DEF Report, Step, Active, ApStates
    <3>. QED BY <1>0, <2>2, <3>1, WorkingStep
  <2>. QED BY <2>1, <2>2
<1>2. CASE ~Report(t)
  <2>1. FirstStep(t) \in Active
    BY RequestTypes DEF FirstStep, Ops, Active
  <2>2. UNCHANGED chan
    BY <1>2, ApplierSends
  <2>3. \E to \in Active \cup {"dead"} : ap[t] \in Active /\ ap' = [ap EXCEPT ![t] = to]
    <3> USE DEF Step, Decide, Active
    <3>1. CASE Check(t)     BY <2>1, <3>1 DEF Check
    <3>2. CASE MergeStep(t) BY <3>2 DEF MergeStep
    <3>3. CASE WriteTmp(t)  BY <3>3 DEF WriteTmp
    <3>4. CASE RenameTmp(t) BY <3>4 DEF RenameTmp
    <3>5. CASE Remove(t)    BY <3>5 DEF Remove
    <3>6. CASE Unlink(t)    BY <3>6 DEF Unlink
    <3>7. CASE Move(t)      BY <3>7 DEF Move
    <3>8. CASE Record(t)    BY <3>8 DEF Record
    <3>. QED BY <1>2, <3>1, <3>2, <3>3, <3>4, <3>5, <3>6, <3>7, <3>8 DEF Applier
  <2>. QED BY <1>w, <2>2, <2>3
<1> QED BY <1>1, <1>2

LEMMA OrderStep == TypeInv /\ Order /\ [Next]_vars => Order'
<1> SUFFICES ASSUME TypeOK, Order, [Next]_vars PROVE Order'
  BY DEF TypeInv
<1>1. ASSUME NEW t \in Tickets, Submitter(t) PROVE Order'
  <2>0. UNCHANGED <<open, busy, inbox, parked, ap, reader>>
    BY <1>1, SubmitterFrame DEF dispVars, applyVars, readVars
  <2>1. CASE Send(t) /\ open
    <3>1. /\ pc[t] = "counted" /\ pc' = [pc EXCEPT ![t] = "waiting"]
          /\ Enter(t, "new")
      BY <2>1 DEF Send, Goto
    <3>. QED BY <2>0, <2>1, <3>1, EnterStep
  <2>2. CASE ~(Send(t) /\ open)
    <3>1. UNCHANGED <<chan, clock, arrived>>
      BY <1>1, <2>2 DEF Submitter, Admit, Count, Send, Wait, history
    <3>2. \A u \in Tickets : pc'[u] \in {"submitting", "admitted", "counted"}
                               => pc[u] \in {"submitting", "admitted", "counted"}
      BY <1>1 DEF Submitter, Admit, Count, Send, Wait, Goto, TypeOK, SubmitTypes
    <3>. QED BY <2>0, <3>1, <3>2, QuietStep DEF orderVars
  <2>. QED BY <2>1, <2>2
<1>2. ASSUME NEW t \in Tickets, Applier(t) PROVE Order'
  BY <1>2, ApplierOrder
<1>3. ASSUME NEW r \in Readers, AskRead(r) PROVE Order'
  <2>0. UNCHANGED <<pc, open, busy, inbox, parked, ap>>
    BY <1>3 DEF AskRead, submitVars, dispVars, applyVars
  <2>1. CASE open
    BY <1>3, <2>0, <2>1, EnterStep DEF AskRead
  <2>2. CASE ~open
    <3>1. /\ reader[r] = "idle" /\ reader' = [reader EXCEPT ![r] = "refused"]
          /\ UNCHANGED <<chan, clock, arrived>>
      BY <1>3, <2>2 DEF AskRead, history
    <3> USE <2>0, <3>1 DEF Order, Queued, Working, Started, Before, TypeOK, ReaderTypes
    <3>2. Numbers'                     BY DEF Numbers
    <3>3. Channel'                     BY DEF Channel, ChannelTypes
    <3>4. Backlog' /\ Ownership'       BY DEF Backlog, Ownership
    <3>5. Parked'                      BY DEF Parked
    <3>6. FifoPerPath' /\ ReadYourWrites' BY DEF FifoPerPath, ReadYourWrites
    <3>. QED BY <3>2, <3>3, <3>4, <3>5, <3>6
  <2>. QED BY <2>1, <2>2
<1>4. CASE Shutdown
  BY <1>4, ShutdownStep
<1>5. CASE HandleNew
  BY <1>5, QueueStep, StartStep DEF HandleNew
<1>6. CASE HandleRead
  BY <1>6, ParkStep, AnswerStep DEF HandleRead
<1>7. CASE HandleDone
  BY <1>7, NextStep, IdleStep DEF HandleDone
<1>8. CASE HandleShutdown
  BY <1>8, HandleShutdownStep
<1>9. CASE UNCHANGED vars
  BY <1>9, QuietStep DEF vars, orderVars
<1> QED BY <1>1, <1>2, <1>3, <1>4, <1>5, <1>6, <1>7, <1>8, <1>9 DEF Next, Dispatcher

LEMMA OrderInvariant == Spec => [](TypeInv /\ Order)
BY InitTypes, OrderInit, TypeInvStep, OrderStep, PTL DEF Spec

\* Strict order per path, however the threads interleave and whatever fails:
\* an applier starts only when every ticket that entered the channel earlier
\* for its path is finished and its Done handled.
THEOREM PathsStayInOrder == Spec => []FifoPerPath
<1>1. Order => FifoPerPath
  BY DEF Order
<1> QED BY <1>1, OrderInvariant, PTL

\* A read is answered behind every write of its path that was sent before it.
THEOREM ReadsSeeEarlierWrites == Spec => []ReadYourWrites
<1>1. Order => ReadYourWrites
  BY DEF Order
<1> QED BY <1>1, OrderInvariant, PTL

-----------------------------------------------------------------------------
(***************************************************************************)
(* Why the write_tickets table can be believed, for any tickets and paths: *)
(* an applier decides once, records its decision after it and reports      *)
(* after that, and nobody else writes a verdict.                           *)
(***************************************************************************)

Verdict == {"applied", "rejected"}

\* The appliers that are past Record.
Past == {"report", "reported", "gone"}

\* Where a verdict may stand, in the journal and in an answer, and where it
\* must when the database does not fail.
Journal ==
  \A t \in Tickets :
    /\ journal[t] \in Verdict => ap[t] \in Past /\ journal[t] = outcome[t]
    /\ resp[t] \in Verdict => ap[t] = "gone" /\ resp[t] = outcome[t]
    /\ ~LedgerMayFail =>
         /\ pc[t] \notin {"submitting", "admitted"} => journal[t] # "absent"
         /\ ap[t] \in Past => journal[t] = outcome[t]

\* At first nothing is recorded or answered.
LEMMA JournalInit == Init => Journal
BY DEF Init, Journal, Verdict, Past

\* A step of one ticket's applier that neither records nor reports: if it
\* decides, nobody has been told yet.
LEMMA UntoldStep ==
  ASSUME Journal, NEW t \in Tickets,
         ap[t] \in Active \ Past, ap'[t] \notin Past, resp'[t] \in {resp[t], "closed"},
         \A u \in Tickets \ {t} :
           ap'[u] = ap[u] /\ outcome'[u] = outcome[u] /\ resp'[u] = resp[u],
         UNCHANGED <<pc, journal>>
  PROVE  Journal'
<1>1. journal[t] \notin Verdict /\ resp[t] \notin Verdict
  BY DEF Journal, Active, Past
<1> QED
  BY <1>1 DEF Journal, Verdict

\* Check, and the file system calls of the operations.
LEMMA ApplierUntold ==
  ASSUME TypeOK, Journal, NEW t \in Tickets, Applier(t), ~Record(t), ~Report(t)
  PROVE  Journal'
<1> DEFINE Mine == /\ ap[t] \in Active \ Past /\ ap'[t] \notin Past
                   /\ resp'[t] \in {resp[t], "closed"}
           Others == \A u \in Tickets \ {t} :
                       ap'[u] = ap[u] /\ outcome'[u] = outcome[u] /\ resp'[u] = resp[u]
<1>0. UNCHANGED <<pc, journal>>
  BY ApplierFrame, ApplierJournal DEF submitVars
<1> SUFFICES Mine /\ Others
  BY <1>0, UntoldStep
<1> USE DEF Decide, Step, Active, Past, Untouched, TypeOK, ApplierTypes
<1>1. CASE Check(t)
  <2>1. FirstStep(t) \notin Past
    BY RequestTypes DEF FirstStep, Ops
  <2>. QED BY <1>1, <2>1 DEF Check
<1>2. CASE MergeStep(t) BY <1>2 DEF MergeStep
<1>3. CASE WriteTmp(t)  BY <1>3 DEF WriteTmp
<1>4. CASE RenameTmp(t) BY <1>4 DEF RenameTmp
<1>5. CASE Remove(t)    BY <1>5 DEF Remove
<1>6. CASE Unlink(t)    BY <1>6 DEF Unlink
<1>7. CASE Move(t)      BY <1>7 DEF Move
<1> QED
  BY <1>1, <1>2, <1>3, <1>4, <1>5, <1>6, <1>7 DEF Applier

\* The record of a decision that has been made.
LEMMA RecordJournal ==
  ASSUME TypeInv, Order, Journal, NEW t \in Tickets, Record(t) PROVE Journal'
<1> USE DEF TypeInv, TypeOK, ApplierTypes, SubmitTypes
<1>1. /\ ap[t] = "record" /\ ap' = [ap EXCEPT ![t] = "report"]
      /\ UNCHANGED <<pc, outcome, resp>>
  BY DEF Record, Step, submitVars
<1>2. outcome[t] \in Verdict
  BY <1>1 DEF Verdicts, Decided, Verdict
<1>3. pc[t] \notin {"submitting", "admitted"}
  BY <1>1 DEF Order, Numbers, Started
<1>4. \A u \in Tickets \ {t} : ap'[u] = ap[u] /\ journal'[u] = journal[u]
  BY <1>1 DEF Record
<1>5. ap'[t] = "report" /\ resp[t] \notin Verdict
  BY <1>1 DEF Journal
<1>6. /\ journal'[t] \in Verdict => journal'[t] = outcome[t]
      /\ ~LedgerMayFail => journal'[t] = outcome[t]
  BY <1>1, <1>2, <1>3 DEF Record, Recorded, Journal, Verdict, Past
<1> QED
  BY <1>1, <1>2, <1>4, <1>5, <1>6 DEF Journal, Past, Verdict

\* Done is sent, or dropped with the answer channel.
LEMMA ReportJournal ==
  ASSUME TypeOK, Journal, NEW t \in Tickets, Report(t) PROVE Journal'
<1> USE DEF TypeOK, ApplierTypes
<1>1. /\ ap[t] = "report" /\ UNCHANGED <<pc, outcome, journal>>
      /\ ap'[t] \in {"reported", "gone"} /\ resp'[t] \in {resp[t], "closed"}
  BY DEF Report, Step, submitVars
<1>2. \A u \in Tickets \ {t} : ap'[u] = ap[u] /\ resp'[u] = resp[u]
  BY DEF Report, Step
<1> QED
  BY <1>1, <1>2 DEF Journal, Past, Verdict

\* The submitter journals a ticket that no applier has seen.
LEMMA SubmitJournal ==
  ASSUME TypeOK, Order, Journal, NEW t \in Tickets, Submitter(t) PROVE Journal'
<1> USE DEF TypeOK, SubmitTypes, ApplierTypes
<1>0. UNCHANGED <<ap, outcome>>
  BY SubmitterFrame DEF applyVars
<1>1. CASE Count(t)
  <2>1. ap[t] = "none"
    BY <1>1 DEF Count, Goto, Order, Numbers, Started
  <2>2. /\ \A u \in Tickets \ {t} : pc'[u] = pc[u] /\ journal'[u] = journal[u]
        /\ journal'[t] \in {journal[t], "queued"}
        /\ ~LedgerMayFail => journal'[t] = "queued"
        /\ UNCHANGED resp
    BY <1>1 DEF Count, Goto
  <2>. QED BY <1>0, <2>1, <2>2 DEF Journal, Past, Verdict
<1>2. CASE ~Count(t)
  <2>1. /\ UNCHANGED journal
        /\ \A u \in Tickets : resp'[u] \in {resp[u], "closed"}
        /\ \A u \in Tickets : pc'[u] \notin {"submitting", "admitted"} =>
             pc[u] \notin {"submitting", "admitted"}
    BY <1>2 DEF Submitter, Admit, Send, Wait, Goto
  <2>. QED BY <1>0, <2>1 DEF Journal, Verdict
<1> QED
  BY <1>1, <1>2

\* The dispatcher answers only with what has been reported, and gives no
\* applier a second ticket.
LEMMA DispatcherJournal ==
  ASSUME TypeOK, Order, Journal, Dispatcher PROVE Journal'
<1> USE DEF TypeOK, ApplierTypes
<1>0. UNCHANGED <<pc, journal, outcome>>
  BY DEF Dispatcher, HandleNew, HandleRead, HandleDone, HandleShutdown, submitVars, applyVars
<1>1. CASE HandleNew
  <2>1. Received \in Tickets /\ ap[Received] = "none"
    BY <1>1 DEF HandleNew, Receive, Received, ChannelTypes, Order, Channel
  <2>2. UNCHANGED resp /\ \A u \in Tickets : ap'[u] = ap[u] \/ (ap[u] = "none" /\ ap'[u] = "check")
    BY <1>1, <2>1 DEF HandleNew
  <2>. QED BY <1>0, <2>2 DEF Journal, Past, Verdict
<1>2. CASE HandleRead
  BY <1>0, <1>2 DEF HandleRead, applyVars, Journal
<1>3. CASE HandleDone
  <2> DEFINE t == Received
  <2>1. t \in Tickets /\ ap[t] = "reported" /\ Key(t) \in Keys
    BY <1>3, RequestTypes DEF HandleDone, Receive, Received, ChannelTypes, Order, Channel
  <2>2. inbox[Key(t)] # <<>> => Head(inbox[Key(t)]) \in Tickets /\ ap[Head(inbox[Key(t)])] = "none"
    BY <2>1 DEF Order, Backlog, DispatcherTypes
  <2>3. resp' = [resp EXCEPT ![t] = outcome[t]]
    BY <1>3 DEF HandleDone
  <2>4. /\ ap'[t] = "gone"
        /\ \A u \in Tickets \ {t} : ap'[u] = ap[u] \/ (ap[u] = "none" /\ ap'[u] = "check")
    BY <1>3, <2>1, <2>2 DEF HandleDone
  <2>. QED BY <1>0, <2>1, <2>3, <2>4 DEF Journal, Past, Verdict
<1>4. CASE HandleShutdown
  <2>1. UNCHANGED ap /\ \A u \in Tickets : resp'[u] \in {resp[u], "closed"}
    BY <1>4 DEF HandleShutdown, applyVars
  <2>. QED BY <1>0, <2>1 DEF Journal, Verdict
<1> QED
  BY <1>1, <1>2, <1>3, <1>4 DEF Dispatcher

\* All steps together.
LEMMA JournalStep == TypeInv /\ Order /\ Journal /\ [Next]_vars => Journal'
<1> SUFFICES ASSUME TypeInv, TypeOK, Order, Journal, [Next]_vars PROVE Journal'
  BY DEF TypeInv
<1>1. ASSUME NEW t \in Tickets, Submitter(t) PROVE Journal'
  BY <1>1, SubmitJournal
<1>2. ASSUME NEW t \in Tickets, Applier(t) PROVE Journal'
  BY <1>2, ApplierUntold, RecordJournal, ReportJournal
<1>3. CASE Dispatcher
  BY <1>3, DispatcherJournal
<1>4. ASSUME NEW r \in Readers, AskRead(r) PROVE Journal'
  BY <1>4 DEF AskRead, submitVars, applyVars, Journal
<1>5. CASE Shutdown \/ UNCHANGED vars
  BY <1>5 DEF Shutdown, submitVars, applyVars, vars, Journal
<1> QED
  BY <1>1, <1>2, <1>3, <1>4, <1>5 DEF Next

\* The invariant that the two theorems below are read off.
LEMMA JournalInvariant == Spec => []Journal
BY OrderInvariant, JournalInit, JournalStep, PTL DEF Spec

\* Whatever fails and whenever the process dies, a row of write_tickets says
\* applied or rejected only when apply_ticket has decided so.
THEOREM JournalIsTruthful == Spec => []JournalTruthful
<1>1. Journal => JournalTruthful
  BY DEF Journal, JournalTruthful, Verdict
<1> QED
  BY <1>1, JournalInvariant, PTL

\* Unless the database fails, whoever has a verdict finds it in the journal.
THEOREM JournalComesBeforeAnswers == Spec => []JournalBeforeAnswer
<1>1. Journal => JournalBeforeAnswer
  BY DEF Journal, JournalBeforeAnswer, Verdict, Past
<1> QED
  BY <1>1, JournalInvariant, PTL

-----------------------------------------------------------------------------
(***************************************************************************)
(* Why the queue is a store per path, if paths are disjoint and nothing is *)
(* renamed: from its check to its decision nobody else touches the file of *)
(* a ticket, so that what was checked is what is replaced.                 *)
(***************************************************************************)

Checked == {"merge", "write", "rename", "remove", "unlink"}

\* What an accepted ticket makes of the content its file has now.
Due(t) == IF Req[t].op = "patch" THEN Merge(t, Current(t)) ELSE Req[t].text

\* A ticket under way: it would still be accepted, and writes what is due.
GoingOf(t) ==
  /\ ap[t] \notin Decided => outcome[t] = "none"
  /\ ap[t] \in Checked => ~Refused(t)
  /\ ap[t] # "move"
  /\ ap[t] = "merge" => Req[t].op = "patch"
  /\ ap[t] \in {"write", "rename"} =>
       /\ Req[t].op \in {"create", "replace", "patch"}
       /\ buf[t] = Due(t) /\ buf[t] \in Content
  /\ ap[t] \in {"remove", "unlink"} => Req[t].op = "delete"
  /\ ap[t] = "unlink" => Current(t) # None
  /\ ap[t] = "rename" => fs[Tmp(t)] = buf[t]
Going == \A t \in Tickets : GoingOf(t)

\* Two appliers at work have different files and temporary files.
LEMMA FilesApart ==
  ASSUME DisjointPaths, Order, NEW t \in Tickets, NEW u \in Tickets, t # u, Working(t), Working(u),
         ~Refused(t), ~Refused(u)
  PROVE  /\ {File(t), Tmp(t), File(u), Tmp(u)} \subseteq Files
         /\ {File(t), Tmp(t)} \cap {File(u), Tmp(u)} = {}
<1>1. Key(t) \in Keys /\ Key(u) \in Keys /\ Key(t) # Key(u)
  BY RequestTypes DEF Order, Ownership
<1>2. File(t) \in Files /\ File(u) \in Files
  BY RequestTypes DEF Refused
<1>3. Tmp(t) \in Files /\ Tmp(u) \in Files
  BY <1>2, ConstantsOK DEF Tmp
<1>4. MayAccess(Key(t)) /\ MayAccess(Key(u))
  BY DEF Refused, File, MayAccess
<1>5. File(t) # File(u)
  BY <1>1, <1>4 DEF DisjointPaths, File
<1>6. Tmp(t) # Tmp(u)
  BY <1>2, <1>5 DEF DisjointPaths, Tmp
<1>7. Tmp(t) # File(u) /\ Tmp(u) # File(t)
  BY <1>1, <1>4 DEF DisjointPaths, Tmp, File
<1> QED BY <1>2, <1>3, <1>5, <1>6, <1>7

\* The content of the paths when only the file of t or its temporary file change.
LEMMA PathsApart ==
  ASSUME DisjointPaths, NEW t \in Tickets, File(t) # None, NEW k \in Keys, FileOf[k] # None
  PROVE  /\ FileOf[k] # Tmp(t) /\ Tmp(t) # File(t)
         /\ k # Key(t) => FileOf[k] # File(t)
<1>1. Key(t) \in Keys /\ MayAccess(Key(t)) /\ MayAccess(k)
  BY RequestTypes DEF MayAccess, File
<1> QED BY <1>1 DEF DisjointPaths, Tmp, File

\* A step of t leaves the tickets under way that it does not disturb.
LEMMA GoingFrame ==
  ASSUME Going, NEW t \in Tickets, GoingOf(t)',
         \A u \in Tickets \ {t} : ap'[u] = ap[u] /\ outcome'[u] = outcome[u] /\ buf'[u] = buf[u],
         \A u \in Tickets \ {t} : ap[u] \in Checked => Current(u)' = Current(u) /\ fs'[Tmp(u)] = fs[Tmp(u)]
  PROVE  Going'
<1> SUFFICES ASSUME NEW u \in Tickets, u # t PROVE GoingOf(u)'
  BY DEF Going
<1>1. ap'[u] = ap[u] /\ outcome'[u] = outcome[u] /\ buf'[u] = buf[u] /\ GoingOf(u)
  BY DEF Going
<1>2. CASE ap[u] \notin Checked
  BY <1>1, <1>2 DEF GoingOf, Checked
<1>3. CASE ap[u] \in Checked
  <2>1. Current(u)' = Current(u) /\ fs'[Tmp(u)] = fs[Tmp(u)]
    BY <1>3
  <2>2. (Refused(u)' <=> Refused(u)) /\ Due(u)' = Due(u)
    BY <2>1 DEF Refused, Stale, Due
  <2> QED BY <1>1, <2>1, <2>2 DEF GoingOf
<1> QED BY <1>2, <1>3

\* A step of t that leaves the file system alone.
LEMMA GoingQuiet ==
  ASSUME Going, NEW t \in Tickets, GoingOf(t)', fs' = fs,
         \A u \in Tickets \ {t} : ap'[u] = ap[u] /\ outcome'[u] = outcome[u] /\ buf'[u] = buf[u]
  PROVE  Going'
<1>1. \A u \in Tickets : Current(u)' = Current(u)
  BY DEF Current, ContentOf
<1> QED BY <1>1, GoingFrame

\* A step of t that writes only its file and its temporary file.
LEMMA GoingWrites ==
  ASSUME DisjointPaths, Order, Going, NEW t \in Tickets, ap[t] \in Checked, GoingOf(t)',
         \A u \in Tickets \ {t} : ap'[u] = ap[u] /\ outcome'[u] = outcome[u] /\ buf'[u] = buf[u],
         \A f \in Files \ {File(t), Tmp(t)} : fs'[f] = fs[f]
  PROVE  Going'
<1>1. ASSUME NEW u \in Tickets, u # t, ap[u] \in Checked
      PROVE  Current(u)' = Current(u) /\ fs'[Tmp(u)] = fs[Tmp(u)]
  <2>1. ~Refused(t) /\ ~Refused(u) /\ Working(t) /\ Working(u)
    BY <1>1 DEF Going, GoingOf, Working, Checked
  <2>2. File(u) \in Files \ {File(t), Tmp(t)} /\ Tmp(u) \in Files \ {File(t), Tmp(t)}
    BY <1>1, <2>1, FilesApart
  <2> QED BY <2>2 DEF Current, ContentOf, File
<1> QED BY <1>1, GoingFrame


\* What an applier's step does to the tickets.
LEMMA StepOf ==
  ASSUME TypeOK, NEW t \in Tickets, NEW from, NEW to, Step(t, from, to)
  PROVE  /\ ap[t] = from /\ ap'[t] = to
         /\ \A u \in Tickets \ {t} : ap'[u] = ap[u]
BY DEF TypeOK, ApplierTypes, Step

LEMMA DecideOf ==
  ASSUME TypeOK, NEW t \in Tickets, NEW from, NEW verdict, Decide(t, from, verdict)
  PROVE  /\ ap[t] = from /\ ap'[t] = "record" /\ outcome'[t] = verdict
         /\ \A u \in Tickets \ {t} : ap'[u] = ap[u] /\ outcome'[u] = outcome[u]
BY DEF TypeOK, ApplierTypes, Decide, Step

LEMMA GoingDecided ==
  ASSUME NEW t \in Tickets, ap'[t] \in Decided
  PROVE  GoingOf(t)'
BY DEF GoingOf, Checked, Decided

\* The three ways of a step of t: it decides without touching a file, it decides and
\* writes, or it goes on.
LEMMA GoingCheck ==
  ASSUME TypeInv, Going, NoRenames, NEW t \in Tickets, Check(t)
  PROVE  Going'
<1>0. TypeOK /\ fs' = fs /\ GoingOf(t)
  BY DEF TypeInv, Check, Going
<1>1. CASE Refused(t)
  <2>1. Decide(t, "check", "rejected") /\ buf' = buf
    BY <1>1 DEF Check
  <2>2. GoingOf(t)'
    BY <1>0, <2>1, DecideOf, GoingDecided DEF Decided
  <2> QED BY <1>0, <2>1, <2>2, DecideOf, GoingQuiet
<1>2. CASE ~Refused(t)
  <2>1. Step(t, "check", FirstStep(t)) /\ buf' = [buf EXCEPT ![t] = Req[t].text] /\ outcome' = outcome
    BY <1>2 DEF Check
  <2>2. /\ ap[t] = "check" /\ ap'[t] = FirstStep(t)
        /\ \A u \in Tickets \ {t} : ap'[u] = ap[u]
    BY <1>0, <2>1, StepOf
  <2>3. buf'[t] = Req[t].text /\ \A u \in Tickets \ {t} : buf'[u] = buf[u]
    BY <1>0, <2>1 DEF TypeOK, ApplierTypes
  <2>4. ~Refused(t)' /\ Due(t)' = Due(t)
    BY <1>0, <1>2 DEF Refused, Stale, Due, Current, ContentOf
  <2>5. outcome'[t] = "none"
    BY <1>0, <2>1, <2>2 DEF GoingOf, Decided
  <2>6. Req[t].op \in {"create", "replace", "patch", "delete"}
    BY RequestTypes DEF NoRenames, Ops
  <2>7. CASE Req[t].op \in {"create", "replace"}
    <3>1. ap'[t] = "write"
      BY <2>2, <2>7 DEF FirstStep
    <3>2. Due(t) = Req[t].text /\ Req[t].text \in Content
      BY <2>7, RequestTypes, ConstantsOK DEF Due
    <3>3. GoingOf(t)'
      BY <2>3, <2>4, <2>5, <2>7, <3>1, <3>2 DEF GoingOf
    <3> QED BY <1>0, <2>1, <2>2, <2>3, <3>3, GoingQuiet
  <2>8. CASE Req[t].op = "patch"
    <3>1. ap'[t] = "merge"
      BY <2>2, <2>8 DEF FirstStep
    <3>2. GoingOf(t)'
      BY <2>4, <2>5, <2>8, <3>1 DEF GoingOf
    <3> QED BY <1>0, <2>1, <2>2, <2>3, <3>2, GoingQuiet
  <2>9. CASE Req[t].op = "delete"
    <3>1. ap'[t] = "remove"
      BY <2>2, <2>9 DEF FirstStep
    <3>2. GoingOf(t)'
      BY <2>4, <2>5, <2>9, <3>1 DEF GoingOf
    <3> QED BY <1>0, <2>1, <2>2, <2>3, <3>2, GoingQuiet
  <2> QED BY <2>6, <2>7, <2>8, <2>9
<1> QED BY <1>1, <1>2

LEMMA GoingMerge ==
  ASSUME TypeInv, Going, NEW t \in Tickets, MergeStep(t)
  PROVE  Going'
<1> DEFINE new == Merge(t, Current(t))
<1>0. TypeOK /\ fs' = fs /\ GoingOf(t)
  BY DEF TypeInv, MergeStep, Going
<1>1. CASE new \in Content /\ Step(t, "merge", "write") /\ buf' = [buf EXCEPT ![t] = new] /\ outcome' = outcome
  <2>2. /\ ap[t] = "merge" /\ ap'[t] = "write"
        /\ \A u \in Tickets \ {t} : ap'[u] = ap[u]
    BY <1>0, <1>1, StepOf
  <2>3. buf'[t] = new /\ \A u \in Tickets \ {t} : buf'[u] = buf[u]
    BY <1>0, <1>1 DEF TypeOK, ApplierTypes
  <2>4. ~Refused(t) /\ outcome[t] = "none" /\ Req[t].op = "patch"
    BY <1>0, <2>2 DEF GoingOf, Decided, Checked
  <2>5. ~Refused(t)' /\ Due(t)' = new
    BY <1>0, <2>4 DEF Refused, Stale, Due, Current, ContentOf
  <2>6. GoingOf(t)'
    BY <1>1, <2>2, <2>3, <2>4, <2>5 DEF GoingOf
  <2> QED BY <1>0, <1>1, <2>2, <2>3, <2>6, GoingQuiet
<1>2. CASE Decide(t, "merge", "rejected") /\ buf' = buf
  <2>2. GoingOf(t)'
    BY <1>0, <1>2, DecideOf, GoingDecided DEF Decided
  <2> QED BY <1>0, <1>2, <2>2, DecideOf, GoingQuiet
<1>3. CASE Step(t, "merge", "dead") /\ outcome' = [outcome EXCEPT ![t] = "rejected"] /\ buf' = buf
  <2>1. GoingOf(t)'
    BY <1>0, <1>3, StepOf, GoingDecided DEF Decided
  <2>2. \A u \in Tickets \ {t} : outcome'[u] = outcome[u]
    BY <1>0, <1>3 DEF TypeOK, ApplierTypes
  <2> QED BY <1>0, <1>3, <2>1, <2>2, StepOf, GoingQuiet
<1> QED BY <1>1, <1>2, <1>3 DEF MergeStep

\* A decision that leaves the file system and the buffers alone.
LEMMA GoingVerdict ==
  ASSUME TypeInv, Going, NEW t \in Tickets, NEW from, NEW verdict,
         Decide(t, from, verdict), fs' = fs, buf' = buf
  PROVE  Going'
<1>1. GoingOf(t)'
  BY DecideOf, GoingDecided DEF Decided, TypeInv
<1> QED BY <1>1, DecideOf, GoingQuiet DEF TypeInv

LEMMA GoingTmp ==
  ASSUME DisjointPaths, TypeInv, Order, Going, NEW t \in Tickets, WriteTmp(t)
  PROVE  Going'
<1>0. TypeOK /\ buf' = buf /\ GoingOf(t)
  BY DEF TypeInv, WriteTmp, Going
<1>1. CASE Step(t, "write", "rename") /\ fs' = [fs EXCEPT ![Tmp(t)] = buf[t]] /\ outcome' = outcome
  <2>1. /\ ap[t] = "write" /\ ap'[t] = "rename"
        /\ \A u \in Tickets \ {t} : ap'[u] = ap[u]
    BY <1>0, <1>1, StepOf
  <2>2. ~Refused(t) /\ outcome[t] = "none"
    BY <1>0, <2>1 DEF GoingOf, Decided, Checked
  <2>3. File(t) # None /\ File(t) \in Files /\ Tmp(t) \in Files /\ Tmp(t) # File(t)
    <3>1. File(t) # None /\ File(t) \in Files
      BY <2>2, RequestTypes DEF Refused
    <3>2. Tmp(t) \in Files
      BY <3>1, ConstantsOK DEF Tmp
    <3> QED BY <3>1, <3>2, PathsApart, RequestTypes DEF File
  <2>4. /\ fs'[Tmp(t)] = buf[t] /\ fs'[File(t)] = fs[File(t)]
        /\ \A f \in Files \ {File(t), Tmp(t)} : fs'[f] = fs[f]
    BY <1>0, <1>1, <2>3 DEF TypeOK, ApplierTypes
  <2>5. Current(t)' = Current(t)
    BY <2>4 DEF Current, ContentOf, File
  <2>6. ~Refused(t)' /\ Due(t)' = Due(t)
    BY <2>2, <2>5 DEF Refused, Stale, Due
  <2>7. GoingOf(t)'
    BY <1>0, <1>1, <2>1, <2>2, <2>4, <2>6 DEF GoingOf
  <2>8. ap[t] \in Checked
    BY <2>1 DEF Checked
  <2> QED BY <1>0, <1>1, <2>1, <2>4, <2>7, <2>8, GoingWrites
<1>2. CASE Decide(t, "write", "rejected") /\ fs' = fs
  BY <1>0, <1>2, GoingVerdict
<1> QED BY <1>1, <1>2 DEF WriteTmp

LEMMA GoingRename ==
  ASSUME DisjointPaths, TypeInv, Order, Going, NEW t \in Tickets, RenameTmp(t)
  PROVE  Going'
<1>0. TypeOK /\ buf' = buf
  BY DEF TypeInv, RenameTmp
<1>1. CASE Decide(t, "rename", "applied") /\ fs' = [fs EXCEPT ![File(t)] = fs[Tmp(t)], ![Tmp(t)] = None]
  <2>1. ap[t] \in Checked
    BY <1>0, <1>1, DecideOf DEF Checked
  <2>2. GoingOf(t)'
    BY <1>0, <1>1, DecideOf, GoingDecided DEF Decided
  <2>3. \A f \in Files \ {File(t), Tmp(t)} : fs'[f] = fs[f]
    BY <1>0, <1>1 DEF TypeOK, ApplierTypes
  <2> QED BY <1>0, <1>1, <2>1, <2>2, <2>3, DecideOf, GoingWrites
<1>2. CASE Decide(t, "rename", "rejected") /\ fs' = fs
  BY <1>0, <1>2, GoingVerdict
<1> QED BY <1>1, <1>2 DEF RenameTmp

LEMMA GoingRemove ==
  ASSUME TypeInv, Going, NEW t \in Tickets, Remove(t)
  PROVE  Going'
<1>0. TypeOK /\ fs' = fs /\ buf' = buf /\ GoingOf(t)
  BY DEF TypeInv, Remove, Going
<1>1. CASE Decide(t, "remove", "applied")
  BY <1>0, <1>1, GoingVerdict
<1>2. CASE Current(t) # None /\ Step(t, "remove", "unlink") /\ outcome' = outcome
  <2>1. /\ ap[t] = "remove" /\ ap'[t] = "unlink"
        /\ \A u \in Tickets \ {t} : ap'[u] = ap[u]
    BY <1>0, <1>2, StepOf
  <2>2. ~Refused(t) /\ outcome[t] = "none" /\ Req[t].op = "delete"
    BY <1>0, <2>1 DEF GoingOf, Decided, Checked
  <2>3. ~Refused(t)' /\ Current(t)' = Current(t)
    BY <1>0, <2>2 DEF Refused, Stale, Current, ContentOf
  <2>4. GoingOf(t)'
    BY <1>2, <2>1, <2>2, <2>3 DEF GoingOf
  <2> QED BY <1>0, <1>2, <2>1, <2>4, GoingQuiet
<1> QED BY <1>1, <1>2 DEF Remove

LEMMA GoingUnlink ==
  ASSUME DisjointPaths, TypeInv, Order, Going, NEW t \in Tickets, Unlink(t)
  PROVE  Going'
<1>0. TypeOK /\ buf' = buf
  BY DEF TypeInv, Unlink
<1>1. CASE Decide(t, "unlink", "applied") /\ fs' = [fs EXCEPT ![File(t)] = None]
  <2>1. ap[t] \in Checked
    BY <1>0, <1>1, DecideOf DEF Checked
  <2>2. GoingOf(t)'
    BY <1>0, <1>1, DecideOf, GoingDecided DEF Decided
  <2>3. \A f \in Files \ {File(t), Tmp(t)} : fs'[f] = fs[f]
    BY <1>0, <1>1 DEF TypeOK, ApplierTypes
  <2> QED BY <1>0, <1>1, <2>1, <2>2, <2>3, DecideOf, GoingWrites
<1>2. CASE Decide(t, "unlink", "rejected") /\ fs' = fs
  BY <1>0, <1>2, GoingVerdict
<1> QED BY <1>1, <1>2 DEF Unlink

\* What an applier does once it has decided changes no ticket under way.
LEMMA GoingLater ==
  ASSUME TypeInv, Going, NEW t \in Tickets, Record(t) \/ Report(t)
  PROVE  Going'
<1>1. TypeOK /\ fs' = fs /\ buf' = buf /\ outcome' = outcome
  BY DEF TypeInv, Record, Report
<1>2. ap'[t] \in Decided /\ \A u \in Tickets \ {t} : ap'[u] = ap[u]
  <2>1. PICK from, to : Step(t, from, to) /\ to \in Decided
    BY DEF Record, Report, Decided
  <2> QED BY <1>1, <2>1, StepOf
<1> QED BY <1>1, <1>2, GoingDecided, GoingQuiet

LEMMA GoingApplier ==
  ASSUME DisjointPaths, NoRenames, TypeInv, Order, Going, NEW t \in Tickets, Applier(t)
  PROVE  Going'
<1>1. ~Move(t)
  BY StepOf DEF Move, Decide, Step, Going, GoingOf
<1> QED BY <1>1, GoingCheck, GoingMerge, GoingTmp, GoingRename, GoingRemove, GoingUnlink, GoingLater
        DEF Applier

\* Nobody else decides or writes; the dispatcher starts only tickets that are undecided.
LEMMA GoingDispatcher ==
  ASSUME TypeInv, Order, Going, Dispatcher
  PROVE  Going'
<1>0. TypeOK /\ fs' = fs /\ buf' = buf /\ outcome' = outcome
  BY DispatcherFrame DEF TypeInv
<1>1. \A u \in Tickets : Current(u)' = Current(u)
  BY <1>0 DEF Current, ContentOf
<1>2. ASSUME NEW u \in Tickets,
             ap'[u] = ap[u] \/ (ap[u] = "none" /\ ap'[u] = "check") \/ ap'[u] = "gone"
      PROVE  GoingOf(u)'
  <2>1. GoingOf(u)
    BY DEF Going
  <2>2. CASE ap'[u] = ap[u]
    <3>1. (Refused(u)' <=> Refused(u)) /\ Due(u)' = Due(u)
      BY <1>1 DEF Refused, Stale, Due
    <3> QED BY <1>0, <1>1, <2>1, <2>2, <3>1 DEF GoingOf, Tmp
  <2>3. CASE ap[u] = "none" /\ ap'[u] = "check"
    BY <1>0, <2>1, <2>3 DEF GoingOf, Checked, Decided
  <2>4. CASE ap'[u] = "gone"
    BY <2>4, GoingDecided DEF Decided
  <2> QED BY <1>2, <2>2, <2>3, <2>4
<1>3. \A u \in Tickets :
        ap'[u] = ap[u] \/ (ap[u] = "none" /\ ap'[u] = "check") \/ ap'[u] = "gone"
  <2>1. CASE HandleNew
    <3>1. Received \in Tickets /\ ap[Received] = "none"
      <4>1. Receive("new")
        BY <2>1 DEF HandleNew
      <4>2. 1 \in DOMAIN chan /\ chan[1].kind = "new" /\ Received = chan[1].id
        BY <1>0, <4>1, ReceiveFacts
      <4> QED BY <1>0, <4>2 DEF TypeOK, ChannelTypes, Order, Channel
    <3> QED BY <1>0, <2>1, <3>1 DEF HandleNew, TypeOK, ApplierTypes
  <2>2. CASE HandleRead \/ HandleShutdown
    BY <2>2 DEF HandleRead, HandleShutdown, applyVars
  <2>3. CASE HandleDone
    <3> DEFINE t == Received
    <3>1. Key(t) \in Keys
      <4>1. Receive("done")
        BY <2>3 DEF HandleDone
      <4>2. 1 \in DOMAIN chan /\ chan[1].kind = "done" /\ Received = chan[1].id
        BY <1>0, <4>1, ReceiveFacts
      <4>3. Received \in Tickets
        BY <1>0, <4>2 DEF TypeOK, ChannelTypes
      <4> QED BY <4>3, RequestTypes
    <3>2. CASE inbox[Key(t)] # <<>> /\ ap' = [ap EXCEPT ![t] = "gone", ![Head(inbox[Key(t)])] = "check"]
      <4>1. inbox[Key(t)] \in Seq(Tickets)
        BY <1>0, <3>1 DEF TypeOK, DispatcherTypes
      <4>2. 1 \in DOMAIN inbox[Key(t)] /\ Head(inbox[Key(t)]) = inbox[Key(t)][1]
        BY <3>2, <4>1
      <4>3. ap[Head(inbox[Key(t)])] = "none"
        BY <3>1, <4>2 DEF Order, Backlog
      <4> QED BY <1>0, <3>2, <4>3 DEF TypeOK, ApplierTypes
    <3>3. CASE ap' = [ap EXCEPT ![t] = "gone"]
      BY <1>0, <3>3 DEF TypeOK, ApplierTypes
    <3> QED BY <2>3, <3>2, <3>3 DEF HandleDone
  <2> QED BY <2>1, <2>2, <2>3 DEF Dispatcher
<1> QED BY <1>2, <1>3 DEF Going

LEMMA GoingStep ==
  ASSUME DisjointPaths, NoRenames, TypeInv, Order, Going, [Next]_vars
  PROVE  Going'
<1>1. ASSUME UNCHANGED <<ap, outcome, buf, fs>> PROVE Going'
  <2>1. \A u \in Tickets : Current(u)' = Current(u)
    BY <1>1 DEF Current, ContentOf
  <2>2. \A u \in Tickets : (Refused(u)' <=> Refused(u)) /\ Due(u)' = Due(u)
    BY <2>1 DEF Refused, Stale, Due
  <2> QED BY <1>1, <2>1, <2>2 DEF Going, GoingOf, Tmp
<1>2. ASSUME NEW t \in Tickets, Submitter(t) PROVE Going'
  BY <1>1, <1>2, SubmitterFrame DEF applyVars
<1>3. ASSUME NEW t \in Tickets, Applier(t) PROVE Going'
  BY <1>3, GoingApplier
<1>4. CASE Shutdown \/ UNCHANGED vars \/ \E r \in Readers : AskRead(r)
  BY <1>1, <1>4 DEF Shutdown, AskRead, applyVars, vars
<1>5. CASE Dispatcher
  BY <1>5, GoingDispatcher
<1> QED BY <1>2, <1>3, <1>4, <1>5 DEF Next

LEMMA GoingInit == Init => Going
BY DEF Init, Going, GoingOf, Checked, Decided

LEMMA GoingInvariant ==
  ASSUME DisjointPaths, NoRenames
  PROVE  Spec => []Going
<1>1. TypeInv /\ Order /\ Going /\ [Next]_vars => Going'
  BY GoingStep
<1> QED BY <1>1, GoingInit, OrderInvariant, PTL DEF Spec

-----------------------------------------------------------------------------
(* Every step of the queue is one of the store, or none.                   *)

\* Everything for the path of t that entered before a started ticket is decided.
LEMMA TicketTurn ==
  ASSUME TypeInv, Order, NEW t \in Tickets, Started(t)
  PROVE  Store!Turn(t, Store!Key(t))
<1>1. arrived[t] > 0
  BY DEF Order, Numbers
<1>2. ASSUME NEW u \in Tickets, Key(u) = Key(t), arrived[u] > 0, arrived[u] < arrived[t]
      PROVE  outcome[u] # "none"
  <2>1. ap[u] = "gone"
    BY <1>2 DEF Order, FifoPerPath, Before
  <2> QED BY <2>1 DEF TypeInv, Verdicts, Decided
<1> QED BY <1>1, <1>2 DEF Store!Turn, Store!Key, Key

\* A ticket that is rejected leaves its path alone.
LEMMA RejectedStep ==
  ASSUME TypeInv, Order, NEW t \in Tickets, Started(t), outcome[t] = "none",
         ~Store!Accepted(t, Current(t)) \/ IoMayFail,
         outcome' = [outcome EXCEPT ![t] = "rejected"], fs' = fs, UNCHANGED <<readVars, history>>
  PROVE  Store!Apply(t)
<1>1. Store!Turn(t, Store!Key(t))
  BY TicketTurn
<1>2. /\ Key(t) \in Keys /\ Store!Key(t) = Key(t)
      /\ \A k \in Keys : ContentOf(k)' = ContentOf(k)
  BY RequestTypes DEF Store!Key, Key, ContentOf
<1>3. ~Store!Accepted(t, [k \in Keys |-> ContentOf(k)][Store!Key(t)]) \/ IoMayFail
  BY <1>2 DEF Current
<1>4. [k \in Keys |-> ContentOf(k)]' = [k \in Keys |-> ContentOf(k)]
  BY <1>2
<1> QED BY <1>1, <1>3, <1>4 DEF Store!Apply, readVars, history

\* A ticket that is applied takes effect on its path only, and at once.
LEMMA AppliedStep ==
  ASSUME TypeInv, Order, NEW t \in Tickets, Started(t), outcome[t] = "none",
         Store!Accepted(t, Current(t)),
         outcome' = [outcome EXCEPT ![t] = "applied"], UNCHANGED <<readVars, history>>,
         \A k \in Keys : ContentOf(k)' = IF k = Key(t) THEN Store!Effect(t, Current(t)) ELSE ContentOf(k)
  PROVE  Store!Apply(t)
<1>1. Store!Turn(t, Store!Key(t))
  BY TicketTurn
<1>2. Key(t) \in Keys /\ Store!Key(t) = Key(t)
  BY RequestTypes DEF Store!Key, Key
<1> DEFINE old == [k \in Keys |-> ContentOf(k)]
<1>3. old[Store!Key(t)] = Current(t)
  BY <1>2 DEF Current
<1>4. old' = [old EXCEPT ![Store!Key(t)] = Store!Effect(t, @)]
  BY <1>2, <1>3
<1> QED BY <1>1, <1>3, <1>4 DEF Store!Apply, readVars, history

\* Nothing the store speaks of has changed.
LEMMA StoreStutters ==
  ASSUME \A k \in Keys : ContentOf(k)' = ContentOf(k), outcome' = outcome, seen' = seen,
         \A r \in Readers : (reader'[r] = "answered") <=> (reader[r] = "answered"),
         UNCHANGED history
  PROVE  UNCHANGED Store!vars
<1>1. [k \in Keys |-> ContentOf(k)]' = [k \in Keys |-> ContentOf(k)]
  OBVIOUS
<1>2. [r \in Readers |-> reader[r] = "answered"]' = [r \in Readers |-> reader[r] = "answered"]
  OBVIOUS
<1> QED BY <1>1, <1>2 DEF Store!vars, history

\* apply_ticket checks what the store asks of an accepted ticket.
LEMMA RefusedTickets ==
  ASSUME NEW t \in Tickets
  PROVE  /\ Refused(t) => ~Store!Accepted(t, Current(t))
         /\ ~Refused(t) /\ Store!Effect(t, Current(t)) \notin {NoMatch, Panics}
              => Store!Accepted(t, Current(t))
BY DEF Refused, Stale, Store!Accepted, Store!Key, File, Key, MayAccess

\* A decision of an applier that has not decided yet.
LEMMA DecisionFacts ==
  ASSUME TypeInv, Order, Going, NEW t \in Tickets, ap[t] \in Checked \cup {"check"}, Applier(t)
  PROVE  /\ Started(t) /\ outcome[t] = "none" /\ GoingOf(t)
         /\ ap[t] \in Checked => ~Refused(t) /\ File(t) \in Files /\ File(t) # None
         /\ UNCHANGED <<readVars, history>>
<1>1. UNCHANGED <<readVars, history>>
  BY ApplierFrame
<1>2. GoingOf(t) /\ Started(t) /\ outcome[t] = "none"
  BY DEF Going, GoingOf, Started, Decided, Checked
<1>3. ap[t] \in Checked => ~Refused(t) /\ File(t) \in Files /\ File(t) # None
  BY <1>2, RequestTypes DEF GoingOf, Refused
<1> QED BY <1>1, <1>2, <1>3

LEMMA CheckImplements ==
  ASSUME TypeInv, Order, Going, NEW t \in Tickets, Check(t)
  PROVE  Store!Apply(t) \/ UNCHANGED Store!vars
<1>1. Applier(t) /\ ap[t] = "check" /\ fs' = fs
  BY DEF Applier, Check, Decide, Step
<1>2. Started(t) /\ outcome[t] = "none" /\ UNCHANGED <<readVars, history>>
  BY <1>1, DecisionFacts
<1>3. CASE Refused(t)
  <2>1. outcome' = [outcome EXCEPT ![t] = "rejected"]
    BY <1>3 DEF Check, Decide
  <2> QED BY <1>1, <1>2, <1>3, <2>1, RefusedTickets, RejectedStep
<1>4. CASE ~Refused(t)
  <2>1. outcome' = outcome
    BY <1>4 DEF Check
  <2> QED BY <1>1, <1>2, <2>1, StoreStutters DEF readVars, ContentOf
<1> QED BY <1>3, <1>4

LEMMA MergeImplements ==
  ASSUME TypeInv, Order, Going, NEW t \in Tickets, MergeStep(t)
  PROVE  Store!Apply(t) \/ UNCHANGED Store!vars
<1>1. Applier(t) /\ ap[t] = "merge" /\ fs' = fs
  BY DEF Applier, MergeStep, Decide, Step
<1>2. Started(t) /\ outcome[t] = "none" /\ GoingOf(t) /\ UNCHANGED <<readVars, history>>
  BY <1>1, DecisionFacts DEF Checked
<1>3. CASE Merge(t, Current(t)) \in {NoMatch, Panics} /\ outcome' = [outcome EXCEPT ![t] = "rejected"]
  <2>1. Req[t].op = "patch"
    BY <1>1, <1>2 DEF GoingOf
  <2>2. ~Store!Accepted(t, Current(t))
    BY <1>3, <2>1 DEF Store!Accepted, Store!Effect
  <2> QED BY <1>1, <1>2, <1>3, <2>2, RejectedStep
<1>4. CASE outcome' = outcome
  BY <1>1, <1>2, <1>4, StoreStutters DEF readVars, ContentOf
<1> QED BY <1>3, <1>4 DEF MergeStep, Decide

LEMMA TmpImplements ==
  ASSUME DisjointPaths, TypeInv, Order, Going, NEW t \in Tickets, WriteTmp(t)
  PROVE  Store!Apply(t) \/ UNCHANGED Store!vars
<1>1. Applier(t) /\ ap[t] = "write" /\ TypeOK
  BY DEF Applier, WriteTmp, Decide, Step, TypeInv
<1>2. /\ Started(t) /\ outcome[t] = "none" /\ UNCHANGED <<readVars, history>>
      /\ File(t) # None
  BY <1>1, DecisionFacts DEF Checked
<1>3. CASE outcome' = outcome /\ fs' = [fs EXCEPT ![Tmp(t)] = buf[t]]
  <2>1. ASSUME NEW k \in Keys PROVE ContentOf(k)' = ContentOf(k)
    <3>1. FileOf[k] # None => FileOf[k] # Tmp(t) /\ FileOf[k] \in Files
      BY <1>2, PathsApart, ConstantsOK
    <3> QED BY <1>1, <1>3, <3>1 DEF ContentOf, TypeOK, ApplierTypes
  <2> QED BY <1>2, <1>3, <2>1, StoreStutters DEF readVars
<1>4. CASE IoMayFail /\ outcome' = [outcome EXCEPT ![t] = "rejected"] /\ fs' = fs
  BY <1>2, <1>4, RejectedStep
<1> QED BY <1>3, <1>4 DEF WriteTmp, Decide

LEMMA RenameImplements ==
  ASSUME DisjointPaths, TypeInv, Order, Going, NEW t \in Tickets, RenameTmp(t)
  PROVE  Store!Apply(t)
<1>1. Applier(t) /\ ap[t] = "rename" /\ TypeOK
  BY DEF Applier, RenameTmp, Decide, Step, TypeInv
<1>2. /\ Started(t) /\ outcome[t] = "none" /\ UNCHANGED <<readVars, history>>
      /\ ~Refused(t) /\ File(t) \in Files /\ File(t) # None /\ GoingOf(t)
  BY <1>1, DecisionFacts DEF Checked
<1>3. /\ Req[t].op \in {"create", "replace", "patch"}
      /\ buf[t] = Due(t) /\ buf[t] \in Content /\ fs[Tmp(t)] = buf[t]
  BY <1>1, <1>2 DEF GoingOf
<1>4. CASE /\ outcome' = [outcome EXCEPT ![t] = "applied"]
           /\ fs' = [fs EXCEPT ![File(t)] = fs[Tmp(t)], ![Tmp(t)] = None]
  <2>1. Store!Effect(t, Current(t)) = fs[Tmp(t)]
    BY <1>3 DEF Store!Effect, Due
  <2>2. fs[Tmp(t)] \notin {NoMatch, Panics}
    BY <1>3, ConstantsOK
  <2>3. Store!Accepted(t, Current(t))
    BY <1>2, <2>1, <2>2, RefusedTickets
  <2>4. ASSUME NEW k \in Keys
        PROVE  ContentOf(k)' = IF k = Key(t) THEN fs[Tmp(t)] ELSE ContentOf(k)
    <3>1. FileOf[k] # None => /\ FileOf[k] # Tmp(t) /\ FileOf[k] \in Files
                              /\ k # Key(t) => FileOf[k] # File(t)
      BY <1>2, PathsApart, ConstantsOK
    <3>2. fs \in [Files -> Content \cup {None}]
      BY <1>1 DEF TypeOK, ApplierTypes
    <3>3. CASE k = Key(t)
      BY <1>2, <1>4, <3>1, <3>2, <3>3 DEF ContentOf, File
    <3>4. CASE k # Key(t)
      BY <1>4, <3>1, <3>2, <3>4 DEF ContentOf
    <3> QED BY <3>3, <3>4
  <2> QED BY <1>2, <1>4, <2>1, <2>3, <2>4, AppliedStep
<1>5. CASE /\ outcome' = [outcome EXCEPT ![t] = "rejected"]
           /\ fs[Tmp(t)] = None \/ IoMayFail
           /\ fs' = fs
  <2>1. IoMayFail
    BY <1>3, <1>5, ConstantsOK
  <2> QED BY <1>2, <1>5, <2>1, RejectedStep
<1> QED BY <1>4, <1>5 DEF RenameTmp, Decide

\* Deleting a file that does not exist is applied; its path stays as it is.
LEMMA RemoveImplements ==
  ASSUME TypeInv, Order, Going, NEW t \in Tickets, Remove(t)
  PROVE  Store!Apply(t) \/ UNCHANGED Store!vars
<1>1. Applier(t) /\ ap[t] = "remove" /\ fs' = fs
  BY DEF Applier, Remove, Decide, Step
<1>2. /\ Started(t) /\ outcome[t] = "none" /\ UNCHANGED <<readVars, history>>
      /\ ~Refused(t) /\ GoingOf(t)
  BY <1>1, DecisionFacts DEF Checked
<1>3. CASE Current(t) = None /\ outcome' = [outcome EXCEPT ![t] = "applied"]
  <2>1. Store!Effect(t, Current(t)) = None
    BY <1>1, <1>2 DEF GoingOf, Store!Effect
  <2>2. Store!Accepted(t, Current(t))
    BY <1>2, <2>1, RefusedTickets, ConstantsOK
  <2>3. \A k \in Keys : ContentOf(k)' = IF k = Key(t) THEN None ELSE ContentOf(k)
    BY <1>1, <1>3 DEF Current, ContentOf
  <2> QED BY <1>2, <1>3, <2>1, <2>2, <2>3, AppliedStep
<1>4. CASE outcome' = outcome
  BY <1>1, <1>2, <1>4, StoreStutters DEF readVars, ContentOf
<1> QED BY <1>3, <1>4 DEF Remove, Decide

LEMMA UnlinkImplements ==
  ASSUME DisjointPaths, TypeInv, Order, Going, NEW t \in Tickets, Unlink(t)
  PROVE  Store!Apply(t)
<1>1. Applier(t) /\ ap[t] = "unlink" /\ TypeOK
  BY DEF Applier, Unlink, Decide, Step, TypeInv
<1>2. /\ Started(t) /\ outcome[t] = "none" /\ UNCHANGED <<readVars, history>>
      /\ ~Refused(t) /\ File(t) \in Files /\ File(t) # None /\ GoingOf(t)
  BY <1>1, DecisionFacts DEF Checked
<1>3. Req[t].op = "delete" /\ Current(t) # None
  BY <1>1, <1>2 DEF GoingOf
<1>4. CASE /\ outcome' = [outcome EXCEPT ![t] = "applied"]
           /\ fs' = [fs EXCEPT ![File(t)] = None]
  <2>1. Store!Effect(t, Current(t)) = None
    BY <1>3 DEF Store!Effect
  <2>2. Store!Accepted(t, Current(t))
    BY <1>2, <2>1, RefusedTickets, ConstantsOK
  <2>3. ASSUME NEW k \in Keys
        PROVE  ContentOf(k)' = IF k = Key(t) THEN None ELSE ContentOf(k)
    <3>1. FileOf[k] # None => /\ FileOf[k] \in Files
                              /\ k # Key(t) => FileOf[k] # File(t)
      BY <1>2, PathsApart, ConstantsOK
    <3>2. fs \in [Files -> Content \cup {None}]
      BY <1>1 DEF TypeOK, ApplierTypes
    <3>3. CASE k = Key(t)
      BY <1>2, <1>4, <3>1, <3>2, <3>3 DEF ContentOf, File
    <3>4. CASE k # Key(t)
      BY <1>4, <3>1, <3>2, <3>4 DEF ContentOf
    <3> QED BY <3>3, <3>4
  <2> QED BY <1>2, <1>4, <2>1, <2>2, <2>3, AppliedStep
<1>5. CASE /\ outcome' = [outcome EXCEPT ![t] = "rejected"]
           /\ IoMayFail
           /\ fs' = fs
  BY <1>2, <1>5, RejectedStep
<1> QED BY <1>3, <1>4, <1>5 DEF Unlink, Decide

LEMMA ApplierImplements ==
  ASSUME DisjointPaths, TypeInv, Order, Going, NEW t \in Tickets, Applier(t)
  PROVE  Store!Apply(t) \/ UNCHANGED Store!vars
<1>1. CASE Record(t) \/ Report(t)
  <2>1. outcome' = outcome /\ fs' = fs /\ UNCHANGED <<readVars, history>>
    BY <1>1, ApplierFrame DEF Record, Report
  <2> QED BY <2>1, StoreStutters DEF readVars, ContentOf
<1>2. ~Move(t)
  BY StepOf DEF Move, Decide, Step, Going, GoingOf
<1> QED BY <1>1, <1>2, CheckImplements, MergeImplements, TmpImplements, RenameImplements,
           RemoveImplements, UnlinkImplements DEF Applier

\* Whoever enters the channel has not entered it before.
LEMMA EnterImplements ==
  ASSUME NEW x \in Tickets \cup Readers, NEW kind, arrived[x] = 0, Enter(x, kind),
         fs' = fs, outcome' = outcome, seen' = seen,
         \A r \in Readers : (reader'[r] = "answered") <=> (reader[r] = "answered")
  PROVE  Store!Arrive(x)
<1>1. [k \in Keys |-> ContentOf(k)]' = [k \in Keys |-> ContentOf(k)]
  BY DEF ContentOf
<1>2. [r \in Readers |-> reader[r] = "answered"]' = [r \in Readers |-> reader[r] = "answered"]
  OBVIOUS
<1> QED BY <1>1, <1>2 DEF Store!Arrive, Enter

\* Reads of one path that are answered together, behind the writes they must see.
LEMMA AnswerImplements ==
  ASSUME TypeInv, TypeInv', Order', NEW k \in Keys, NEW rs \in SUBSET Readers, Fulfill(rs, k),
         fs' = fs, outcome' = outcome, UNCHANGED history,
         \A r \in rs : ReadKey[r] = k /\ reader[r] = "waiting" /\ arrived[r] > 0
  PROVE  (\E j \in Keys, x \in SUBSET Readers : Store!Read(j, x)) \/ UNCHANGED Store!vars
<1>0. \A j \in Keys : ContentOf(j)' = ContentOf(j)
  BY DEF ContentOf
<1>1. CASE rs = {}
  <2>1. seen' = seen /\ \A r \in Readers : reader'[r] = reader[r]
    BY <1>1 DEF Fulfill, TypeInv, TypeOK, ReaderTypes
  <2> QED BY <1>0, <2>1, StoreStutters
<1>2. CASE rs # {}
  <2>1. ASSUME NEW r \in rs PROVE Store!Turn(r, k)
    <3>1. reader'[r] = "answered" /\ ReadKey[r] = k /\ arrived[r] > 0
      BY DEF Fulfill
    <3>2. ASSUME NEW t \in Tickets, Key(t) = k, arrived[t] > 0, arrived[t] < arrived[r]
          PROVE  outcome[t] # "none"
      <4>1. ap'[t] = "gone"
        BY <3>1, <3>2 DEF Order, ReadYourWrites, Before, history
      <4> QED BY <4>1 DEF TypeInv, Verdicts, Decided
    <3> QED BY <3>1, <3>2 DEF Store!Turn, Store!Key, Key
  <2> DEFINE store == [j \in Keys |-> ContentOf(j)]
             answered == [r \in Readers |-> reader[r] = "answered"]
  <2>2. store' = store
    BY <1>0
  <2>3. store[k] = ContentOf(k)
    OBVIOUS
  <2>4. answered' = [r \in Readers |-> answered[r] \/ r \in rs]
    BY DEF Fulfill
  <2>5. \A r \in rs : ~answered[r]
    OBVIOUS
  <2>6. seen' = [r \in Readers |-> IF r \in rs THEN store[k] ELSE seen[r]]
    BY <2>3 DEF Fulfill
  <2>7. Store!Read(k, rs)
    BY <1>2, <2>1, <2>2, <2>4, <2>5, <2>6 DEF Store!Read, history
  <2> QED BY <2>7
<1> QED BY <1>1, <1>2

LEMMA DispatcherImplements ==
  ASSUME TypeInv, TypeInv', Order, Order', Dispatcher
  PROVE  (\E k \in Keys, rs \in SUBSET Readers : Store!Read(k, rs)) \/ UNCHANGED Store!vars
<1>0. TypeOK /\ fs' = fs /\ outcome' = outcome /\ UNCHANGED history
  BY DispatcherFrame DEF TypeInv
<1>1. CASE readVars' = readVars
  BY <1>0, <1>1, StoreStutters DEF ContentOf, readVars
<1>2. CASE HandleRead /\ readVars' # readVars
  <2> DEFINE r == Received
             k == ReadKey[r]
  <2>1. Receive("read") /\ Fulfill({r}, k)
    BY <1>2 DEF HandleRead
  <2>2. 1 \in DOMAIN chan /\ chan[1].kind = "read" /\ r = chan[1].id
    BY <1>0, <2>1, ReceiveFacts
  <2>3. r \in Readers /\ k \in Keys
    BY <1>0, <2>2, ConstantsOK DEF TypeOK, ChannelTypes
  <2>4. reader[r] = "waiting" /\ arrived[r] > 0
    BY <2>2 DEF Order, Channel
  <2>5. \A x \in {r} : ReadKey[x] = k /\ reader[x] = "waiting" /\ arrived[x] > 0
    BY <2>4
  <2>6. {r} \in SUBSET Readers
    BY <2>3
  <2> HIDE DEF r, k
  <2> QED BY <1>0, <2>1, <2>3, <2>5, <2>6, AnswerImplements
<1>3. CASE HandleDone /\ readVars' # readVars
  <2> DEFINE k == Key(Received)
  <2>1. Receive("done") /\ Fulfill(parked[k], k)
    BY <1>3 DEF HandleDone, ReadsDue
  <2>2. 1 \in DOMAIN chan /\ chan[1].kind = "done" /\ Received = chan[1].id
    BY <1>0, <2>1, ReceiveFacts
  <2>3. Received \in Tickets
    BY <1>0, <2>2 DEF TypeOK, ChannelTypes
  <2>4. k \in Keys /\ parked[k] \in SUBSET Readers
    BY <1>0, <2>3, RequestTypes DEF TypeOK, DispatcherTypes
  <2>5. \A r \in parked[k] : ReadKey[r] = k /\ reader[r] = "waiting" /\ arrived[r] > 0
    BY <2>4 DEF Order, Parked
  <2> HIDE DEF k
  <2> QED BY <1>0, <2>1, <2>4, <2>5, AnswerImplements
<1>4. CASE HandleShutdown
  <2>1. seen' = seen /\ \A r \in Readers : (reader'[r] = "answered") <=> (reader[r] = "answered")
    BY <1>0, <1>4 DEF HandleShutdown, TypeOK, ReaderTypes
  <2> QED BY <1>0, <2>1, StoreStutters DEF ContentOf
<1>5. CASE HandleNew
  BY <1>1, <1>5 DEF HandleNew
<1> QED BY <1>1, <1>2, <1>3, <1>4, <1>5 DEF Dispatcher

LEMMA StoreStep ==
  ASSUME DisjointPaths, NoRenames, TypeInv, TypeInv', Order, Order', Going, [Next]_vars
  PROVE  [Store!Next]_Store!vars
<1>1. ASSUME NEW t \in Tickets, Submitter(t) PROVE Store!Next \/ UNCHANGED Store!vars
  <2>0. fs' = fs /\ outcome' = outcome /\ seen' = seen /\ reader' = reader
    BY <1>1, SubmitterFrame DEF applyVars, readVars
  <2>1. CASE Send(t) /\ open
    <3>1. arrived[t] = 0 /\ Enter(t, "new")
      BY <2>1 DEF Send, Goto, Order, Numbers
    <3>2. Store!Arrive(t)
      BY <2>0, <3>1, EnterImplements
    <3> QED BY <3>2 DEF Store!Next
  <2>2. CASE ~(Send(t) /\ open)
    <3>1. UNCHANGED history
      BY <1>1, <2>2 DEF Submitter, Admit, Count, Send, Wait
    <3> QED BY <2>0, <3>1, StoreStutters DEF ContentOf
  <2> QED BY <2>1, <2>2
<1>2. ASSUME NEW t \in Tickets, Applier(t) PROVE Store!Next \/ UNCHANGED Store!vars
  BY <1>2, ApplierImplements DEF Store!Next
<1>3. ASSUME NEW r \in Readers, AskRead(r) PROVE Store!Next \/ UNCHANGED Store!vars
  <2>0. fs' = fs /\ outcome' = outcome /\ seen' = seen
    BY <1>3 DEF AskRead, applyVars
  <2>1. \A s \in Readers : (reader'[s] = "answered") <=> (reader[s] = "answered")
    BY <1>3 DEF AskRead, TypeInv, TypeOK, ReaderTypes
  <2>2. CASE open
    <3>1. arrived[r] = 0 /\ Enter(r, "read")
      BY <1>3, <2>2 DEF AskRead, Order, Numbers
    <3>2. Store!Arrive(r)
      BY <2>0, <2>1, <3>1, EnterImplements
    <3> QED BY <3>2 DEF Store!Next
  <2>3. CASE ~open
    <3>1. UNCHANGED history
      BY <1>3, <2>3 DEF AskRead
    <3> QED BY <2>0, <2>1, <3>1, StoreStutters DEF ContentOf
  <2> QED BY <2>2, <2>3
<1>4. CASE Shutdown \/ UNCHANGED vars
  <2>1. fs' = fs /\ outcome' = outcome /\ seen' = seen /\ reader' = reader /\ UNCHANGED history
    BY <1>4 DEF Shutdown, applyVars, readVars, vars, history
  <2> QED BY <2>1, StoreStutters DEF ContentOf
<1>5. CASE Dispatcher
  BY <1>5, DispatcherImplements DEF Store!Next
<1> QED BY <1>1, <1>2, <1>3, <1>4, <1>5 DEF Next

LEMMA StoreInit == Init => Store!Init
<1> SUFFICES ASSUME Init PROVE Store!Init
  OBVIOUS
<1>1. fs \in [Files -> Content \cup {None}]
  BY ConstantsOK DEF Init
<1>2. \A k \in Keys : ContentOf(k) \in Content \cup {None} /\ (~MayAccess(k) => ContentOf(k) = None)
  BY <1>1, ConstantsOK DEF ContentOf, MayAccess
<1>3. [r \in Readers |-> reader[r] = "answered"] = [r \in Readers |-> FALSE]
  BY DEF Init
<1> QED BY <1>2, <1>3 DEF Store!Init, Init

\* The queue is a store per path with atomic and ordered operations and reads that see
\* every earlier write, however its threads interleave and whatever the file system
\* refuses, as long as no two paths share a file or a temporary file and nothing is renamed.
THEOREM QueueImplementsStore ==
  ASSUME DisjointPaths, NoRenames
  PROVE  Spec => ImplementsPathStore
<1>1. TypeInv /\ TypeInv' /\ Order /\ Order' /\ Going /\ [Next]_vars => [Store!Next]_Store!vars
  BY StoreStep
<1> QED BY <1>1, StoreInit, GoingInvariant, OrderInvariant, PTL DEF Spec, ImplementsPathStore, Store!Spec
=============================================================================
