-------------------------- MODULE CliSessionProofs --------------------------
(***************************************************************************)
(* What a session of a wrapped CLI promises, for any files, contents,      *)
(* edits of the child, changes by others and failing calls: the child's    *)
(* work reaches the workspace or is reported as rejected, and what a       *)
(* cancelled session has done can be read from its snapshot.               *)
(***************************************************************************)
EXTENDS CliSession, TLAPS

Fresh == {"gate", "paused", "resume", "spawn", "forgone"}
Early == Fresh \cup {"copy", "child"}
Walking == {"differ", "missing"}
Queueing == {"judge", "apply"}
Harvesting == Walking \cup Queueing \cup {"harvest"}
Ending == {"closing", "keeping", "ended", "broken"}

\* The change that a file of the overlay asks for, if it asks for one.
Change(f) == IF made[f] = None THEN Delete(f) ELSE Write(f, made[f])
Waiting(f) == \E i \in DOMAIN changes : changes[i] = Change(f)

TypeOK ==
  /\ pc \in Early \cup Harvesting \cup Ending
  /\ base \in [Files -> Versions] /\ staging \in [Files -> Versions]
  /\ copied \in [Files -> Versions] /\ made \in [Files -> Versions]
  /\ todo \subseteq Files /\ since \subseteq Files
  /\ changes \in Seq({Change(f) : f \in Files})

\* Nothing is found before the child has ended, and then the overlay stays as it is.
Overlay ==
  /\ pc \in Early => changes = <<>>
  /\ pc \in Fresh => staging = Empty /\ made = copied
  /\ pc \in Harvesting => staging = made
  /\ pc = "differ" => todo \subseteq Present(made)

\* A file that nobody else has touched is what the child was given, until its ticket
\* is applied.
Untouched ==
  /\ pc = "copy" => \A f \in Files \ (since \cup Skipped \cup todo) : base[f] = staging[f]
  /\ pc \in {"child", "closing"} \cup Harvesting =>
       \A f \in Files \ (since \cup Skipped \cup applied) : base[f] = copied[f]

\* The ticket at hand does what its file asks for, and is not stale unless
\* somebody else has changed the file.
Submitted ==
  pc \in Queueing =>
    /\ ticket.file \in Files
    /\ IF made[ticket.file] = None
       THEN ticket.op = "delete" /\ ticket.base = None
       ELSE /\ ticket.op \in {"create", "replace"} /\ ticket.text = Lossy(made[ticket.file])
            /\ ticket.file \in since \/ ticket.base = base[ticket.file]

\* A file that only the child has changed is still to be visited, is on its way, or has
\* come to its end.
Settled(f) == Arrived(f) \/ Refused(f)
Tracked(f) ==
  /\ pc = "differ" /\ made[f] # None => f \in todo \/ Waiting(f) \/ Settled(f)
  /\ pc = "missing" => (made[f] = None /\ f \in todo) \/ Waiting(f) \/ Settled(f)
  /\ pc \in Queueing => ticket.file = f \/ Waiting(f) \/ Settled(f)
  /\ pc = "harvest" => Waiting(f) \/ Settled(f)
  /\ pc = "closing" => Settled(f)
  /\ pc \in Harvesting \cup {"closing"} /\ f \in applied => Arrived(f)
Complete == \A f \in Files \ since : Tracked(f)

\* If the child has changed it, a ticket is submitted for it.
Named(f) ==
  /\ pc = "differ" /\ made[f] # None => f \in todo \/ Waiting(f)
  /\ pc = "missing" => (made[f] = None /\ f \in todo) \/ Waiting(f)
  /\ pc \in Queueing \cup {"harvest"} => Waiting(f) \/ f \in paths
  /\ pc \in {"closing", "keeping", "ended"} => f \in paths
AllNamed == \A f \in Files \ (since \cup Skipped) : made[f] # copied[f] => Named(f)

\* The paths are those of the tickets that have a verdict, and of the one at hand; the
\* snapshot, if it could be written, is of them.
Listing ==
  /\ pc \in Early \cup Walking => paths = {}
  /\ paths = applied \cup rejected \cup (IF pc \in Queueing THEN {ticket.file} ELSE {})
  /\ pc = "ended" /\ ~unsaved =>
       /\ row = "interrupted" => snap = Snap(paths)
       /\ row = "done" => snap = NoSnap

Harvest == TypeOK /\ Overlay /\ Untouched /\ Submitted /\ Complete /\ AllNamed /\ Listing

-----------------------------------------------------------------------------
(* Sequences of changes.                                                   *)

LEMMA ChangeFacts ==
  \A f \in Files :
    /\ Change(f).file = f
    /\ made[f] = None => Change(f).op = "delete"
    /\ made[f] # None => Change(f).op = "write" /\ Change(f).text = made[f]
BY DEF Change, Delete, Write

\* What waits goes on waiting when another change is found.
LEMMA FoundOne ==
  ASSUME TypeOK, NEW g \in Files, changes' = Append(changes, Change(g)), made' = made
  PROVE  /\ changes' \in Seq({Change(f) : f \in Files})
         /\ \A f \in Files : Waiting(f) => Waiting(f)'
         /\ Waiting(g)'
<1>1. changes \in Seq({Change(f) : f \in Files}) /\ Change(g) \in {Change(f) : f \in Files}
  BY DEF TypeOK
<1>2. /\ changes' \in Seq({Change(f) : f \in Files})
      /\ \A i \in DOMAIN changes : i \in DOMAIN changes' /\ changes'[i] = changes[i]
      /\ Len(changes) + 1 \in DOMAIN changes' /\ changes'[Len(changes) + 1] = Change(g)
  BY <1>1
<1>3. \A f \in Files : Change(f)' = Change(f)
  BY DEF Change
<1> QED BY <1>2, <1>3 DEF Waiting

\* The first change is taken: it is the only one that stops waiting.
LEMMA TookOne ==
  ASSUME TypeOK, changes # <<>>, changes' = Tail(changes), made' = made
  PROVE  /\ changes' \in Seq({Change(f) : f \in Files})
         /\ Head(changes).file \in Files /\ Head(changes) = Change(Head(changes).file)
         /\ \A f \in Files : Waiting(f) => f = Head(changes).file \/ Waiting(f)'
<1>1. changes \in Seq({Change(f) : f \in Files})
  BY DEF TypeOK
<1>2. /\ Tail(changes) \in Seq({Change(f) : f \in Files})
      /\ Head(changes) \in {Change(f) : f \in Files} /\ Head(changes) = changes[1]
      /\ \A i \in DOMAIN changes : i = 1 \/ (i - 1 \in DOMAIN Tail(changes) /\ Tail(changes)[i - 1] = changes[i])
  BY <1>1
<1>3. \A f \in Files : Change(f)' = Change(f) /\ Change(f).file = f
  BY ChangeFacts DEF Change
<1>4. Head(changes).file \in Files /\ Head(changes) = Change(Head(changes).file)
  BY <1>2, <1>3
<1>5. ASSUME NEW f \in Files, Waiting(f), f # Head(changes).file PROVE Waiting(f)'
  <2>1. PICK i \in DOMAIN changes : changes[i] = Change(f)
    BY <1>5 DEF Waiting
  <2>2. i # 1
    BY <1>2, <1>3, <1>5, <2>1
  <2>3. i - 1 \in DOMAIN changes' /\ changes'[i - 1] = Change(f)'
    BY <1>2, <1>3, <2>1, <2>2
  <2> QED BY <2>3 DEF Waiting
<1> QED BY <1>2, <1>4, <1>5

\* Nothing changes that the fate of the files depends on.
LEMMA SameFate ==
  ASSUME UNCHANGED <<changes, copied, made>>, rejected \subseteq rejected'
  PROVE  \A f \in Files : /\ Change(f)' = Change(f)
                          /\ Waiting(f)' <=> Waiting(f)
                          /\ base'[f] = base[f] => /\ Arrived(f)' <=> Arrived(f)
                                                   /\ Refused(f) => Refused(f)'
<1>1. \A f \in Files : Change(f)' = Change(f) /\ (Waiting(f)' <=> Waiting(f))
  BY DEF Waiting, Change
<1> QED BY <1>1 DEF Arrived, Refused

-----------------------------------------------------------------------------
(* Before the harvest, and beside it.                                      *)

LEMMA InitHarvest == Init => Harvest
<1> SUFFICES ASSUME Init PROVE Harvest
  OBVIOUS
<1>1. TypeOK
  BY CliOK DEF Init, TypeOK, Early, Fresh, Versions, Empty
<1>2. Overlay /\ Untouched /\ Submitted /\ Listing
  BY DEF Init, Overlay, Untouched, Submitted, Listing, Harvesting, Walking, Queueing
<1>3. Complete /\ AllNamed
  BY DEF Init, Complete, Tracked, AllNamed, Harvesting, Walking, Queueing
<1> QED BY <1>1, <1>2, <1>3 DEF Harvest

LEMMA SameStep ==
  ASSUME Harvest,
         UNCHANGED <<pc, base, staging, todo, changes, ticket, paths, applied, rejected,
                     row, snap, copied, made, since, unsaved>>
  PROVE  Harvest'
<1>1. TypeOK' /\ Overlay' /\ Untouched' /\ Submitted' /\ Listing'
  BY DEF Harvest, TypeOK, Change, Overlay, Untouched, Submitted, Listing, Snap, Present
<1>2. \A f \in Files : /\ Waiting(f)' <=> Waiting(f)
                       /\ Arrived(f)' <=> Arrived(f)
                       /\ Refused(f) => Refused(f)'
  BY SameFate
<1>3. Complete'
  BY <1>2 DEF Harvest, Complete, Tracked, Settled
<1>4. AllNamed'
  BY <1>2 DEF Harvest, AllNamed, Named
<1> QED BY <1>1, <1>3, <1>4 DEF Harvest

LEMMA EarlyStep ==
  ASSUME Harvest, pc \in Early, pc' \in Early,
         UNCHANGED <<base, changes, made, since, paths, applied, rejected>>,
         staging' \in [Files -> Versions], copied' \in [Files -> Versions],
         todo' \subseteq Files,
         Overlay', Untouched'
  PROVE  Harvest'
<1>1. TypeOK'
  BY DEF Harvest, TypeOK, Change
<1>2. pc' \notin Harvesting \cup Ending /\ pc \notin Queueing
  BY DEF Early, Fresh, Harvesting, Walking, Queueing, Ending
<1>3. Submitted' /\ Listing'
  BY <1>2 DEF Harvest, Submitted, Listing, Harvesting, Ending
<1>4. Complete' /\ AllNamed'
  <2> SUFFICES ASSUME NEW f \in Files PROVE Tracked(f)' /\ Named(f)'
    BY DEF Complete, AllNamed
  <2> QED BY <1>2 DEF Tracked, Named, Harvesting, Walking, Ending
<1> QED BY <1>1, <1>3, <1>4 DEF Harvest

\* The child, or the copy, changes the overlay only.
LEMMA EarlySteps ==
  ASSUME Harvest, \/ Pause \/ Pass \/ Resume \/ Forgo \/ List \/ Spawn
                  \/ \E f \in Files : Copy(f)
                  \/ \E f \in Files, c \in Versions : Edit(f, c)
  PROVE  Harvest'
<1> USE DEF Goto, files, walk, count, state, bounds, past
<1>0. TypeOK /\ Overlay /\ Untouched
  BY DEF Harvest
<1>1. CASE Pause \/ Pass \/ Resume \/ Forgo
  <2>1. /\ pc \in Fresh /\ pc' \in Fresh
        /\ UNCHANGED <<base, staging, todo, changes, copied, made, since, paths, applied, rejected>>
    BY <1>1 DEF Pause, Pass, Resume, Forgo, Fresh
  <2>2. Overlay' /\ Untouched'
    BY <1>0, <2>1 DEF Overlay, Untouched, Early, Fresh, Harvesting, Walking, Queueing, Empty
  <2> QED BY <1>0, <2>1, <2>2, EarlyStep DEF Early, TypeOK
<1>2. CASE List
  <2>1. /\ pc = "spawn" /\ pc' = "copy" /\ todo' = Present(base) \ Skipped
        /\ UNCHANGED <<base, staging, changes, copied, made, since, paths, applied, rejected>>
    BY <1>2 DEF List
  <2>2. staging = Empty /\ changes = <<>>
    BY <1>0, <2>1 DEF Overlay, Early, Fresh
  <2>3. Overlay' /\ Untouched'
    BY <2>1, <2>2 DEF Overlay, Untouched, Early, Fresh, Harvesting, Walking, Queueing, Present, Empty
  <2>4. todo' \subseteq Files
    BY <2>1 DEF Present
  <2> QED BY <1>0, <2>1, <2>3, <2>4, EarlyStep DEF Early, Fresh, TypeOK
<1>3. CASE Spawn
  <2>1. /\ pc = "copy" /\ pc' = "child" /\ todo = {} /\ copied' = staging
        /\ UNCHANGED <<base, staging, todo, changes, made, since, paths, applied, rejected>>
    BY <1>3 DEF Spawn
  <2>2. Overlay' /\ Untouched'
    BY <1>0, <2>1 DEF Overlay, Untouched, Early, Fresh, Harvesting, Walking, Queueing
  <2> QED BY <1>0, <2>1, <2>2, EarlyStep DEF Early, TypeOK
<1>4. ASSUME NEW f \in Files, Copy(f) PROVE Harvest'
  <2>1. /\ pc = "copy" /\ pc' = "copy" /\ todo' = todo \ {f}
        /\ staging' = [staging EXCEPT ![f] = base[f]]
        /\ UNCHANGED <<base, changes, copied, made, since, paths, applied, rejected>>
    BY <1>4 DEF Copy
  <2>2. staging' \in [Files -> Versions]
    BY <1>0, <2>1 DEF TypeOK
  <2>3. Overlay' /\ Untouched'
    BY <1>0, <2>1 DEF TypeOK, Overlay, Untouched, Early, Fresh, Harvesting, Walking, Queueing
  <2> QED BY <1>0, <2>1, <2>2, <2>3, EarlyStep DEF Early, TypeOK
<1>5. ASSUME NEW f \in Files, NEW c \in Versions, Edit(f, c) PROVE Harvest'
  <2>1. /\ pc = "child" /\ pc' = "child" /\ staging' = [staging EXCEPT ![f] = c]
        /\ UNCHANGED <<base, todo, changes, copied, made, since, paths, applied, rejected>>
    BY <1>5 DEF Edit
  <2>2. staging' \in [Files -> Versions]
    BY <1>0, <2>1 DEF TypeOK
  <2>3. Overlay' /\ Untouched'
    BY <1>0, <2>1 DEF Overlay, Untouched, Early, Fresh, Harvesting, Walking, Queueing
  <2> QED BY <1>0, <2>1, <2>2, <2>3, EarlyStep DEF Early, TypeOK
<1> QED BY <1>1, <1>2, <1>3, <1>4, <1>5

\* A broken session promises nothing more.
LEMMA BreakStep ==
  ASSUME Harvest, Break
  PROVE  Harvest'
<1>0. /\ pc \in {"copy", "differ", "missing"} /\ pc' = "broken"
      /\ UNCHANGED <<base, staging, todo, changes, paths, applied, rejected, copied, made, since>>
  BY DEF Break, Goto, files, walk, count, past
<1>1. TypeOK'
  BY <1>0 DEF Harvest, TypeOK, Change, Ending
<1>2. pc' \notin Early \cup Harvesting \cup {"closing", "keeping", "ended"}
  BY <1>0 DEF Early, Fresh, Harvesting, Walking, Queueing
<1>3. Overlay' /\ Untouched' /\ Submitted'
  BY <1>0, <1>2 DEF Overlay, Untouched, Submitted, Early, Harvesting
<1>4. Listing'
  BY <1>0, <1>2 DEF Harvest, Listing, Queueing, Harvesting, Walking
<1>5. Complete' /\ AllNamed'
  <2> SUFFICES ASSUME NEW f \in Files PROVE Tracked(f)' /\ Named(f)'
    BY DEF Complete, AllNamed
  <2> QED BY <1>2 DEF Tracked, Named, Harvesting, Walking
<1> QED BY <1>1, <1>3, <1>4, <1>5 DEF Harvest

\* Somebody else changes a file: from the copy on it is one to be left out.
LEMMA OutsideStep ==
  ASSUME Harvest, NEW g \in Files, NEW c \in Versions, Outside(g, c)
  PROVE  Harvest'
<1>0. /\ UNCHANGED <<pc, staging, todo, changes, ticket, paths, applied, rejected, row, snap,
                     copied, made, unsaved>>
      /\ base' = [base EXCEPT ![g] = c]
      /\ since' = IF pc \in Fresh THEN since ELSE since \cup {g}
  BY DEF Outside, walk, count, state, Fresh
<1>1. /\ base' \in [Files -> Versions] /\ base'[g] = c
      /\ \A f \in Files \ {g} : base'[f] = base[f]
  BY <1>0 DEF Harvest, TypeOK
<1>2. TypeOK'
  BY <1>0, <1>1 DEF Harvest, TypeOK, Change
<1>3. Overlay' /\ Listing'
  BY <1>0 DEF Harvest, Overlay, Listing, Present, Snap
<1>4. CASE pc \in Fresh
  <2>1. pc' \notin {"copy", "child"} \cup Harvesting \cup {"closing", "keeping", "ended"}
    BY <1>0, <1>4 DEF Fresh, Harvesting, Walking, Queueing
  <2>2. Untouched' /\ Submitted'
    BY <2>1 DEF Untouched, Submitted, Harvesting
  <2>3. Complete' /\ AllNamed'
    <3> SUFFICES ASSUME NEW f \in Files PROVE Tracked(f)' /\ Named(f)'
      BY DEF Complete, AllNamed
    <3> QED BY <2>1 DEF Tracked, Named, Harvesting, Walking
  <2> QED BY <1>2, <1>3, <2>2, <2>3 DEF Harvest
<1>5. CASE pc \notin Fresh
  <2>1. since' = since \cup {g}
    BY <1>0, <1>5
  <2>2. Untouched' /\ Submitted'
    BY <1>0, <1>1, <2>1 DEF Harvest, Untouched, Submitted
  <2>3. \A f \in Files \ since' : /\ Waiting(f)' <=> Waiting(f)
                                  /\ Arrived(f)' <=> Arrived(f)
                                  /\ Refused(f) => Refused(f)'
    BY <1>0, <1>1, <2>1, SameFate
  <2>4. Complete'
    BY <1>0, <2>1, <2>3 DEF Harvest, Complete, Tracked, Settled
  <2>5. AllNamed'
    BY <1>0, <2>1, <2>3 DEF Harvest, AllNamed, Named
  <2> QED BY <1>2, <1>3, <2>2, <2>4, <2>5 DEF Harvest
<1> QED BY <1>4, <1>5

-----------------------------------------------------------------------------
(* The harvest.                                                            *)

\* The child ends: every file it has left is to be visited.
LEMMA EndsStep ==
  ASSUME Harvest, NEW how, Ends(how)
  PROVE  Harvest'
<1>0. /\ pc = "child" /\ pc' = "differ"
      /\ made' = staging /\ todo' = Present(staging)
      /\ UNCHANGED <<base, staging, changes, copied, since, paths, applied, rejected>>
  BY DEF Ends, Goto, files, count, bounds
<1>1. changes = <<>> /\ paths = {} /\ applied = {}
  BY <1>0 DEF Harvest, Overlay, Listing, Early
<1>2. TypeOK'
  BY <1>0, <1>1 DEF Harvest, TypeOK, Harvesting, Walking, Present
<1>3. Overlay' /\ Submitted'
  BY <1>0 DEF Overlay, Submitted, Early, Fresh, Queueing, Present
<1>4. Untouched'
  BY <1>0 DEF Harvest, Untouched
<1>5. Listing'
  BY <1>0 DEF Harvest, Listing, Early, Queueing
<1>6. Complete'
  BY <1>0, <1>1 DEF Complete, Tracked, Present, Queueing
<1>7. AllNamed'
  BY <1>0 DEF AllNamed, Named, Present, Queueing
<1> QED BY <1>2, <1>3, <1>4, <1>5, <1>6, <1>7 DEF Harvest

\* A step of a walk: what is not kept for the harvest is as the child left it.
LEMMA WalkStep ==
  ASSUME Harvest, NEW g \in Files, pc \in Walking,
         \/ changes' = changes
         \/ changes' = Append(changes, Change(g)),
         todo' = todo \ {g},
         UNCHANGED <<pc, base, staging, paths, applied, rejected, copied, made, since>>,
         \/ Waiting(g)'
         \/ base[g] = made[g]
         \/ pc = "differ" /\ made[g] = None
         \/ pc = "missing" /\ made[g] # None
  PROVE  Harvest'
<1>1. /\ changes' \in Seq({Change(f) : f \in Files})
      /\ \A f \in Files : Waiting(f) => Waiting(f)'
  BY FoundOne, SameFate DEF Harvest, TypeOK
<1>2. \A f \in Files : /\ Change(f)' = Change(f)
                       /\ Arrived(f)' <=> Arrived(f)
                       /\ Refused(f)' <=> Refused(f)
  BY DEF Change, Arrived, Refused
<1>3. TypeOK'
  <2>1. {Change(f) : f \in Files}' = {Change(f) : f \in Files}
    BY <1>2
  <2> QED BY <1>1, <2>1 DEF Harvest, TypeOK
<1>4. pc' = pc /\ pc \notin Early \cup Queueing \cup Ending \cup {"harvest"} /\ pc \in Harvesting
  BY DEF Early, Fresh, Queueing, Ending, Walking, Harvesting
<1>5. Overlay' /\ Untouched' /\ Submitted' /\ Listing'
  BY <1>4 DEF Harvest, Overlay, Untouched, Submitted, Listing, Ending, Early, Fresh, Present
<1>6. paths = {} /\ applied = {}
  BY DEF Harvest, Listing
<1>7. Complete'
  <2> SUFFICES ASSUME NEW f \in Files \ since PROVE Tracked(f)'
    BY DEF Complete
  <2>1. Tracked(f)
    BY DEF Harvest, Complete
  <2>2. base[f] = made[f] => Settled(f)
    BY DEF Settled, Arrived
  <2>3. CASE f # g
    BY <1>1, <1>2, <1>4, <1>6, <2>1, <2>3 DEF Tracked, Settled, Ending
  <2>4. CASE f = g
    BY <1>1, <1>2, <1>4, <1>6, <2>1, <2>2, <2>4 DEF Tracked, Settled, Ending
  <2> QED BY <2>3, <2>4
<1>8. AllNamed'
  <2> SUFFICES ASSUME NEW f \in Files \ (since \cup Skipped), made[f] # copied[f] PROVE Named(f)'
    BY DEF AllNamed
  <2>1. Named(f)
    BY DEF Harvest, AllNamed
  <2>2. base[f] # made[f]
    BY <1>4, <1>6 DEF Harvest, Untouched
  <2>3. CASE f # g
    BY <1>1, <1>4, <2>1, <2>3 DEF Named, Ending
  <2>4. CASE f = g
    BY <1>1, <1>4, <2>1, <2>2, <2>4 DEF Named, Ending
  <2> QED BY <2>3, <2>4
<1> QED BY <1>3, <1>5, <1>7, <1>8 DEF Harvest

LEMMA CollectSteps ==
  ASSUME Harvest, NEW f \in Files, CollectWrite(f) \/ CollectDelete(f)
  PROVE  Harvest'
<1>0. /\ UNCHANGED <<pc, base, staging, paths, applied, rejected, copied, made, since>>
      /\ f \in todo /\ todo' = todo \ {f}
  BY DEF CollectWrite, CollectDelete, files, count, past
<1>1. CASE CollectWrite(f)
  <2>1. pc = "differ" /\ staging = made /\ made[f] # None
    BY <1>0, <1>1 DEF CollectWrite, Harvest, Overlay, Harvesting, Walking, Present
  <2>2. CASE Differs(f)
    <3>1. changes' = Append(changes, Change(f))
      BY <1>1, <2>1, <2>2 DEF CollectWrite, Change
    <3>2. Waiting(f)'
      BY <1>0, <3>1, FoundOne DEF Harvest
    <3> QED BY <1>0, <2>1, <3>1, <3>2, WalkStep DEF Walking
  <2>3. CASE ~Differs(f)
    <3>1. changes' = changes /\ base[f] = made[f]
      BY <1>1, <2>1, <2>3 DEF CollectWrite, Differs
    <3> QED BY <1>0, <2>1, <3>1, WalkStep DEF Walking
  <2> QED BY <2>2, <2>3
<1>2. CASE CollectDelete(f)
  <2>1. pc = "missing" /\ staging = made
    BY <1>2 DEF CollectDelete, Harvest, Overlay, Harvesting, Walking
  <2>2. CASE made[f] = None
    <3>1. changes' = Append(changes, Change(f))
      BY <1>2, <2>1, <2>2 DEF CollectDelete, Change
    <3>2. Waiting(f)'
      BY <1>0, <3>1, FoundOne DEF Harvest
    <3> QED BY <1>0, <2>1, <3>1, <3>2, WalkStep DEF Walking
  <2>3. CASE made[f] # None
    <3>1. changes' = changes
      BY <1>2, <2>1, <2>3 DEF CollectDelete
    <3> QED BY <1>0, <2>1, <2>3, <3>1, WalkStep DEF Walking
  <2> QED BY <2>2, <2>3
<1> QED BY <1>1, <1>2

\* The second walk looks for files the child has removed.
LEMMA ListBaseStep ==
  ASSUME Harvest, ListBase
  PROVE  Harvest'
<1>0. /\ pc = "differ" /\ pc' = "missing" /\ todo = {}
      /\ todo' = Present(base) \ Skipped
      /\ UNCHANGED <<base, staging, changes, paths, applied, rejected, copied, made, since>>
  BY DEF ListBase, Goto, files, count, past
<1>1. TypeOK'
  BY <1>0 DEF Harvest, TypeOK, Change, Harvesting, Walking, Present
<1>2. pc \in Harvesting /\ pc' \in Harvesting /\ pc' \notin Early \cup Queueing \cup Ending
  BY <1>0 DEF Harvesting, Walking, Queueing, Early, Fresh, Ending
<1>3. Overlay' /\ Untouched' /\ Submitted' /\ Listing'
  BY <1>0, <1>2 DEF Harvest, Overlay, Untouched, Submitted, Listing, Walking, Queueing, Early
<1>4. paths = {} /\ applied = {}
  BY <1>0 DEF Harvest, Listing, Walking
<1>5. Complete'
  <2> SUFFICES ASSUME NEW f \in Files \ since PROVE Tracked(f)'
    BY <1>0 DEF Complete
  <2>1. Tracked(f)
    BY DEF Harvest, Complete
  <2>2. (Waiting(f)' <=> Waiting(f)) /\ (Settled(f) => Settled(f)')
    BY <1>0, SameFate DEF Settled
  <2>3. CASE made[f] # None
    BY <1>0, <1>2, <1>4, <2>1, <2>2, <2>3 DEF Tracked
  <2>4. CASE made[f] = None
    <3>1. f \in todo' \/ Settled(f)
      BY <1>0, <2>4 DEF Present, Settled, Arrived
    <3> QED BY <1>0, <1>2, <1>4, <2>2, <2>4, <3>1 DEF Tracked
  <2> QED BY <2>3, <2>4
<1>6. AllNamed'
  <2> SUFFICES ASSUME NEW f \in Files \ (since \cup Skipped), made[f] # copied[f] PROVE Named(f)'
    BY <1>0 DEF AllNamed
  <2>1. Named(f)
    BY DEF Harvest, AllNamed
  <2>2. Waiting(f)' <=> Waiting(f)
    BY <1>0, SameFate
  <2>3. base[f] = copied[f]
    BY <1>2, <1>4 DEF Harvest, Untouched
  <2>4. CASE made[f] # None
    BY <1>0, <1>2, <2>1, <2>2, <2>4 DEF Named, Ending
  <2>5. CASE made[f] = None
    BY <1>0, <1>2, <2>3, <2>5 DEF Named, Present, Ending
  <2> QED BY <2>4, <2>5
<1> QED BY <1>1, <1>3, <1>5, <1>6 DEF Harvest

LEMMA SubmitStep ==
  ASSUME Harvest, Submit
  PROVE  Harvest'
<1> DEFINE g == Head(changes).file
<1>0. /\ pc \in {"missing", "harvest"} /\ pc' = "judge" /\ todo = {} /\ changes # <<>>
      /\ ticket' = TicketFor(Head(changes)) /\ changes' = Tail(changes)
      /\ paths' = paths \cup {g}
      /\ UNCHANGED <<base, staging, todo, applied, rejected, copied, made, since>>
  BY DEF Submit, Goto, Listed, files, past
<1>1. /\ changes' \in Seq({Change(f) : f \in Files})
      /\ g \in Files /\ Head(changes) = Change(g)
      /\ \A f \in Files : Waiting(f) => f = g \/ Waiting(f)'
  BY <1>0, TookOne DEF Harvest
<1> HIDE DEF g
<1>2. \A f \in Files : /\ Change(f)' = Change(f)
                       /\ Arrived(f)' <=> Arrived(f)
                       /\ Refused(f)' <=> Refused(f)
  BY <1>0 DEF Change, Arrived, Refused
<1>3. TypeOK'
  <2>1. {Change(f) : f \in Files}' = {Change(f) : f \in Files}
    BY <1>2
  <2> QED BY <1>0, <1>1, <2>1 DEF Harvest, TypeOK, Harvesting, Queueing
<1>4. pc \in Harvesting \ Queueing /\ pc' \in Harvesting /\ pc' \notin Early \cup Ending
  BY <1>0 DEF Harvesting, Walking, Queueing, Early, Fresh, Ending
<1>5. Overlay' /\ Untouched'
  BY <1>0, <1>4 DEF Harvest, Overlay, Untouched, Early
<1>6. ticket'.file = g
  BY <1>0, <1>1, ChangeFacts DEF TicketFor
<1>7. Listing'
  BY <1>0, <1>4, <1>6 DEF Harvest, Listing, Queueing, Walking, Ending
<1>8. Submitted'
  <2>1. CASE made[g] = None
    <3>1. ticket'.op = "delete" /\ ticket'.base = None
      BY <1>0, <1>1, <2>1, ChangeFacts DEF TicketFor
    <3> QED BY <1>0, <1>1, <1>6, <2>1, <3>1 DEF Submitted
  <2>2. CASE made[g] # None
    <3>1. /\ ticket'.op \in {"create", "replace"} /\ ticket'.text = Lossy(made[g])
          /\ ticket'.base = base[g]
      BY <1>0, <1>1, <2>2, ChangeFacts DEF TicketFor
    <3> QED BY <1>0, <1>1, <1>6, <2>2, <3>1 DEF Submitted
  <2> QED BY <2>1, <2>2
<1>9. Complete'
  <2> SUFFICES ASSUME NEW f \in Files \ since PROVE Tracked(f)'
    BY <1>0 DEF Complete
  <2>1. Tracked(f)
    BY DEF Harvest, Complete
  <2>2. f = g \/ Waiting(f)' \/ Settled(f)'
    BY <1>0, <1>1, <1>2, <2>1 DEF Tracked, Settled
  <2>3. f \in applied => Arrived(f)'
    BY <1>2, <1>4, <2>1 DEF Tracked
  <2> QED BY <1>0, <1>6, <2>2, <2>3 DEF Tracked, Queueing
<1>10. AllNamed'
  <2> SUFFICES ASSUME NEW f \in Files \ (since \cup Skipped), made[f] # copied[f] PROVE Named(f)'
    BY <1>0 DEF AllNamed
  <2>1. Named(f)
    BY DEF Harvest, AllNamed
  <2>2. Waiting(f)' \/ f \in paths'
    BY <1>0, <1>1, <2>1 DEF Named
  <2> QED BY <1>0, <2>2 DEF Named, Queueing
<1> QED BY <1>3, <1>5, <1>7, <1>8, <1>9, <1>10 DEF Harvest

\* Only the ticket of a file that somebody else has changed can be stale; and a ticket
\* that is rejected leaves its file alone.
LEMMA JudgeSteps ==
  ASSUME Harvest, Reject \/ Accept
  PROVE  Harvest'
<1>0. /\ pc \in Queueing /\ pc' \in {"harvest", "apply"}
      /\ rejected' = IF pc' = "harvest" THEN rejected \cup {ticket.file} ELSE rejected
      /\ UNCHANGED <<base, staging, todo, changes, ticket, paths, applied, copied, made, since>>
  BY DEF Reject, Accept, Goto, files, walk, count, past, Queueing
<1>1. TypeOK'
  BY <1>0 DEF Harvest, TypeOK, Change, Harvesting, Queueing
<1>2. pc \in Harvesting /\ pc' \in Harvesting /\ pc' \notin Early \cup Walking \cup Ending
  BY <1>0 DEF Harvesting, Walking, Queueing, Early, Fresh, Ending
<1>3. Overlay' /\ Untouched' /\ Submitted'
  BY <1>0, <1>2 DEF Harvest, Overlay, Untouched, Submitted, Early, Walking
<1>4. Listing'
  BY <1>0, <1>2 DEF Harvest, Listing, Ending, Queueing
<1>5. \A f \in Files : /\ Waiting(f)' <=> Waiting(f)
                       /\ Arrived(f)' <=> Arrived(f)
                       /\ Refused(f) => Refused(f)'
  BY <1>0, SameFate
<1>6. Complete'
  <2> SUFFICES ASSUME NEW f \in Files \ since PROVE Tracked(f)'
    BY <1>0 DEF Complete
  <2>1. Tracked(f)
    BY DEF Harvest, Complete
  <2>2. CASE f = ticket.file /\ pc' = "harvest"
    <3>1. f \in applied => Arrived(f)
      BY <1>2, <2>1 DEF Tracked
    <3>2. f \notin applied => base[f] = copied[f] \/ f \in Skipped
      BY <1>2 DEF Harvest, Untouched
    <3>3. Settled(f)'
      BY <1>0, <1>5, <2>2, <3>1, <3>2 DEF Settled, Refused
    <3> QED BY <1>0, <1>5, <2>2, <3>1, <3>3 DEF Tracked, Queueing
  <2>3. CASE ~(f = ticket.file /\ pc' = "harvest")
    BY <1>0, <1>2, <1>5, <2>1, <2>3 DEF Tracked, Settled, Queueing, Harvesting
  <2> QED BY <2>2, <2>3
<1>7. AllNamed'
  BY <1>0, <1>5 DEF Harvest, AllNamed, Named, Queueing
<1> QED BY <1>1, <1>3, <1>4, <1>6, <1>7 DEF Harvest

\* The ticket's file arrives.
LEMMA ApplyStep ==
  ASSUME Harvest, Apply
  PROVE  Harvest'
<1> DEFINE g == ticket.file
           new == IF ticket.op = "delete" THEN None ELSE ticket.text
<1>0. /\ pc = "apply" /\ pc' = "harvest"
      /\ base' = [base EXCEPT ![g] = new] /\ applied' = applied \cup {g}
      /\ UNCHANGED <<staging, todo, changes, ticket, paths, rejected, copied, made, since>>
  BY DEF Apply, Goto, walk, past
<1>1. /\ g \in Files /\ g \in paths
      /\ new = IF made[g] = None THEN None ELSE Lossy(made[g])
  BY <1>0 DEF Harvest, Submitted, Listing, Queueing
<1>2. Listing'
  BY <1>0 DEF Harvest, Listing, Early, Fresh, Walking, Queueing
<1> HIDE DEF g, new
<1>3. made[g] \in Content \cup {None}
  BY <1>1 DEF Harvest, TypeOK, Versions
<1>4. new \in Versions
  BY <1>1, <1>3, CliOK DEF Versions
<1>5. base'[g] = new /\ \A f \in Files \ {g} : base'[f] = base[f]
  BY <1>0, <1>1 DEF Harvest, TypeOK
<1>6. TypeOK'
  BY <1>0, <1>4 DEF Harvest, TypeOK, Change, Harvesting
<1>7. Overlay' /\ Submitted'
  BY <1>0 DEF Harvest, Overlay, Submitted, Early, Fresh, Harvesting, Queueing
<1>8. Untouched'
  BY <1>0, <1>5 DEF Harvest, Untouched, Harvesting, Queueing
<1>9. \A f \in Files \ {g} : /\ Waiting(f)' <=> Waiting(f)
                             /\ Arrived(f)' <=> Arrived(f)
                             /\ Refused(f) => Refused(f)'
  BY <1>0, <1>5, SameFate
<1>10. ASSUME NEW f \in Files, f = g PROVE Arrived(f)'
  BY <1>0, <1>1, <1>5, <1>10 DEF Arrived
<1>11. Complete'
  <2> SUFFICES ASSUME NEW f \in Files \ since PROVE Tracked(f)'
    BY <1>0 DEF Complete
  <2>1. Tracked(f)
    BY DEF Harvest, Complete
  <2>2. CASE f = g
    BY <1>0, <1>10, <2>2 DEF Tracked, Settled, Queueing
  <2>3. CASE f # g
    BY <1>0, <1>9, <2>1, <2>3 DEF Tracked, Settled, Queueing, Harvesting, g
  <2> QED BY <2>2, <2>3
<1>12. AllNamed'
  <2>1. \A f \in Files : Waiting(f)' <=> Waiting(f)
    BY <1>0 DEF Waiting, Change
  <2> QED BY <1>0, <2>1 DEF Harvest, AllNamed, Named, Queueing
<1> QED BY <1>2, <1>6, <1>7, <1>8, <1>11, <1>12 DEF Harvest

LEMMA HarvestedStep ==
  ASSUME Harvest, Harvested
  PROVE  Harvest'
<1>0. /\ pc \in {"missing", "harvest"} /\ pc' = "closing" /\ todo = {} /\ changes = <<>>
      /\ staging' = Empty
      /\ UNCHANGED <<base, todo, changes, paths, applied, rejected, copied, made, since>>
  BY DEF Harvested, Goto, walk, count, past
<1>1. TypeOK'
  BY <1>0 DEF Harvest, TypeOK, Change, Ending, Empty, Versions
<1>2. pc \in Harvesting \ Queueing /\ pc' \notin Early \cup Harvesting
  BY <1>0 DEF Harvesting, Walking, Queueing, Early, Fresh
<1>3. Overlay' /\ Untouched' /\ Submitted' /\ Listing'
  BY <1>0, <1>2 DEF Harvest, Overlay, Untouched, Submitted, Listing, Early, Harvesting
<1>4. \A f \in Files : ~Waiting(f)
  BY <1>0 DEF Waiting
<1>5. \A f \in Files : Settled(f)' <=> Settled(f)
  BY <1>0 DEF Settled, Arrived, Refused
<1>6. Complete'
  <2> SUFFICES ASSUME NEW f \in Files \ since PROVE Tracked(f)'
    BY <1>0 DEF Complete
  <2>1. Tracked(f)
    BY DEF Harvest, Complete
  <2>2. Settled(f)' /\ (f \in applied => Arrived(f)')
    BY <1>0, <1>2, <1>4, <1>5, <2>1 DEF Tracked, Arrived
  <2> QED BY <1>0, <2>2 DEF Tracked, Queueing
<1>7. AllNamed'
  <2> SUFFICES ASSUME NEW f \in Files \ (since \cup Skipped), made[f] # copied[f] PROVE Named(f)'
    BY <1>0 DEF AllNamed
  <2>1. Named(f)
    BY DEF Harvest, AllNamed
  <2>2. f \in paths
    BY <1>0, <1>4, <2>1 DEF Named
  <2> QED BY <1>0, <2>2 DEF Named, Queueing
<1> QED BY <1>1, <1>3, <1>6, <1>7 DEF Harvest

\* The row and the snapshot.
LEMMA EndSteps ==
  ASSUME Harvest, Close \/ Keep
  PROVE  Harvest'
<1>0. /\ pc' \in {"keeping", "ended"} /\ pc \in {"closing", "forgone", "keeping"}
      /\ UNCHANGED <<base, staging, todo, changes, paths, applied, rejected, copied, made, since>>
  BY DEF Close, Keep, Goto, files, walk, count, past, bounds
<1>1. TypeOK'
  BY <1>0 DEF Harvest, TypeOK, Change, Ending
<1>2. pc' \notin Early \cup Harvesting \cup {"closing"} /\ pc \notin Queueing
  BY <1>0 DEF Early, Fresh, Harvesting, Walking, Queueing
<1>3. Overlay' /\ Untouched' /\ Submitted'
  BY <1>0, <1>2 DEF Overlay, Untouched, Submitted, Early, Harvesting
<1>4. Complete'
  BY <1>2 DEF Complete, Tracked, Harvesting, Walking
<1>5. AllNamed'
  <2> SUFFICES ASSUME NEW f \in Files \ (since \cup Skipped), made[f] # copied[f] PROVE Named(f)'
    BY <1>0 DEF AllNamed
  <2>1. pc # "forgone" => f \in paths
    BY <1>0 DEF Harvest, AllNamed, Named
  <2>2. pc # "forgone"
    BY DEF Harvest, Overlay, Fresh
  <2> QED BY <1>0, <1>2, <2>1, <2>2 DEF Named, Harvesting, Walking
<1>6. Listing'
  <2>1. CASE Close
    BY <1>0, <1>2, <2>1 DEF Harvest, Listing, Close, Goto, Harvesting, Walking, Queueing
  <2>2. CASE Keep
    <3>1. /\ row' = row /\ paths' = paths
          /\ ~unsaved' => /\ row = "interrupted" => snap' = Snap(paths)
                          /\ row = "done" => snap' = NoSnap
      BY <2>2 DEF Keep, Kept, WriteSnapshot, ClearSnapshot, count
    <3>2. Snap(paths)' = Snap(paths)
      BY <3>1 DEF Snap
    <3> QED BY <1>0, <1>2, <3>1, <3>2 DEF Harvest, Listing, Harvesting, Walking
  <2> QED BY <2>1, <2>2
<1> QED BY <1>1, <1>3, <1>4, <1>5, <1>6 DEF Harvest

-----------------------------------------------------------------------------
(* All of it together.                                                     *)

LEMMA HarvestStep ==
  ASSUME Harvest, [Next]_vars
  PROVE  Harvest'
<1>1. CASE Session
  BY <1>1, EarlySteps, BreakStep, CollectSteps, ListBaseStep, SubmitStep, JudgeSteps, ApplyStep,
     HarvestedStep, EndSteps DEF Session
<1>2. CASE Child
  BY <1>2, EarlySteps, EndsStep DEF Child
<1>3. CASE SetPause \/ Cancel \/ UNCHANGED vars
  BY <1>3, SameStep DEF SetPause, Cancel, vars, files, walk, count, state, past
<1> QED BY <1>1, <1>2, <1>3, OutsideStep DEF Next

\* What the inductive invariant is about, for every instance: see Tracked and Named.
THEOREM HarvestInvariant == Spec => []Harvest
BY InitHarvest, HarvestStep, PTL DEF Spec

\* However many files and edits there are, whichever calls fail and whatever others do to
\* the workspace from the copy on, a harvest ends with every file that only the child has
\* changed as the child left it, or rejected and as the child found it (overlay.rs:55).
THEOREM WorkArrives == Spec => []AgentsWorkArrives
<1>1. Harvest => AgentsWorkArrives
  BY DEF Harvest, Complete, Tracked, Settled, AgentsWorkArrives
<1> QED BY <1>1, HarvestInvariant, PTL

\* Whenever a session was paused and cancelled, and whatever an earlier snapshot held: if
\* its last snapshot could be written, it names what the tickets were for and all that
\* only the child has changed; a finished session leaves none (session.rs:294, 304).
THEOREM CancelsAreResumable == Spec => []CancelledIsResumable
<1>1. Harvest => CancelledIsResumable
  <2> SUFFICES ASSUME Harvest, pc = "ended", ~unsaved PROVE CancelledIsResumable
    BY DEF CancelledIsResumable
  <2>1. paths = applied \cup rejected
    BY DEF Harvest, Listing, Queueing
  <2>2. \A f \in Files \ (since \cup Skipped) : made[f] # copied[f] => f \in paths
    BY DEF Harvest, AllNamed, Named
  <2> QED BY <2>1, <2>2 DEF Harvest, Listing, CancelledIsResumable
<1> QED BY <1>1, HarvestInvariant, PTL
=============================================================================
