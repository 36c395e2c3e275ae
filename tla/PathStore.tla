------------------------------ MODULE PathStore ------------------------------
(***************************************************************************)
(* What the write queue promises (rolen-orchestrator/src/queue.rs:1-8 and   *)
(* 85-86): the workspace behaves like one store per path to which tickets   *)
(* are applied one at a time and atomically, in the order in which they     *)
(* entered the queue, and a read sees everything that entered before it.    *)
(* Order between different paths is not promised.                           *)
(***************************************************************************)
EXTENDS Naturals

CONSTANTS Tickets, Readers, Keys, Content, None,
          Req, ReadKey, Merge(_, _), NoMatch, Panics, IoMayFail,
          Allowed(_)      \* the keys the sandbox lets through

VARIABLES store, outcome, seen, answered, clock, arrived
vars == <<store, outcome, seen, answered, clock, arrived>>

Key(t) == Req[t].key

Init ==
  /\ store \in [Keys -> Content \cup {None}]
  /\ \A k \in Keys : ~Allowed(k) => store[k] = None
  /\ outcome = [t \in Tickets |-> "none"]
  /\ seen = [r \in Readers |-> None]
  /\ answered = [r \in Readers |-> FALSE]
  /\ clock = 0
  /\ arrived = [x \in Tickets \cup Readers |-> 0]

\* A ticket or a read enters the queue.
Arrive(x) ==
  /\ arrived[x] = 0
  /\ clock' = clock + 1
  /\ arrived' = [arrived EXCEPT ![x] = clock + 1]
  /\ UNCHANGED <<store, outcome, seen, answered>>

\* Everything for path k that arrived before x has been decided.
Turn(x, k) ==
  /\ arrived[x] > 0
  /\ \A t \in Tickets : Key(t) = k /\ arrived[t] > 0 /\ arrived[t] < arrived[x]
        => outcome[t] # "none"

\* The effect of an accepted ticket on the content c of its path; NoMatch and
\* Panics stand for a ticket that has no effect.
Effect(t, c) ==
  CASE Req[t].op = "patch"  -> Merge(t, c)
    [] Req[t].op = "delete" -> None
    [] OTHER                -> Req[t].text

Accepted(t, c) ==
  /\ Allowed(Key(t))
  /\ Req[t].op = "patch" \/ Req[t].base = c \/ (Req[t].base = None /\ Req[t].op # "create")
  /\ Effect(t, c) \notin {NoMatch, Panics}

Apply(t) ==
  LET k == Key(t)
  IN  /\ outcome[t] = "none" /\ Turn(t, k)
      /\ \/ /\ Accepted(t, store[k])
            /\ store' = [store EXCEPT ![k] = Effect(t, @)]
            /\ outcome' = [outcome EXCEPT ![t] = "applied"]
         \/ /\ ~Accepted(t, store[k]) \/ IoMayFail
            /\ outcome' = [outcome EXCEPT ![t] = "rejected"]
            /\ UNCHANGED store
      /\ UNCHANGED <<seen, answered, clock, arrived>>

\* Reads of one path that are due may be answered together.
Read(k, rs) ==
  /\ rs # {}
  /\ \A r \in rs : ReadKey[r] = k /\ ~answered[r] /\ Turn(r, k)
  /\ seen' = [r \in Readers |-> IF r \in rs THEN store[k] ELSE seen[r]]
  /\ answered' = [r \in Readers |-> answered[r] \/ r \in rs]
  /\ UNCHANGED <<store, outcome, clock, arrived>>

Next ==
  \/ \E x \in Tickets \cup Readers : Arrive(x)
  \/ \E t \in Tickets : Apply(t)
  \/ \E k \in Keys, rs \in SUBSET Readers : Read(k, rs)

Spec == Init /\ [][Next]_vars
=============================================================================
