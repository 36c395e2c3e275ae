--------------------------- MODULE ProviderLimit ---------------------------
(***************************************************************************)
(* The per-provider session limit of rolen-runtime/src/limit.rs and its    *)
(* only user, the retry and migration loop of agent.rs: each session holds *)
(* a permit of the provider it talks to, gives it back before it waits for *)
(* the next provider's, and drops it when it returns or unwinds.           *)
(*                                                                         *)
(* What a critical section of ProviderSlot::active does is one step; a     *)
(* session asleep on the slot's Condvar is in no step until it is woken.   *)
(* "Mutant" definitions are the next definition with a plausible mistake;  *)
(* no action uses them.                                                    *)
(***************************************************************************)
EXTENDS Integers, FiniteSets

CONSTANTS
  Sessions,
  Slots,      \* the providers: each has a ProviderSlot
  Chain,      \* session -> the providers its routing rules name
  Pinned,     \* sessions with a provider_override
  Caps,       \* the values of per_provider_cap a session may read, 0 for none
  Tries,      \* retries of one call, 3
  Moves,      \* migrations of one session, 2
  Steps,      \* the calls a session makes at most
  None

ASSUME LimitOK ==
  /\ IsFiniteSet(Sessions)
  /\ Chain \in [Sessions -> SUBSET Slots]
  /\ Pinned \subseteq Sessions
  /\ Caps \subseteq Nat
  /\ Tries \in Nat /\ Moves \in Nat /\ Steps \in Nat \ {0}
  /\ None \notin Slots

VARIABLES
  active,    \* ProviderSlot::active
  pc,        \* where a session is
  provider,  \* the provider it uses, or will when it has the permit
  holds,     \* the provider of the permit it holds
  counted,   \* ProviderPermit::counted
  cap,       \* the cap it has read for the permit it waits for
  attempt,   \* failed tries of the current call
  moves,     \* migrations
  steps      \* calls made

budget == <<attempt, moves, steps>>
permit == <<holds, counted>>
limitVars == <<active, pc, provider, holds, counted, cap, attempt, moves, steps>>

LimitInit ==
  /\ active = [p \in Slots |-> 0]
  /\ pc = [s \in Sessions |-> "route"]
  /\ provider = [s \in Sessions |-> None]
  /\ holds = [s \in Sessions |-> None]
  /\ counted = [s \in Sessions |-> FALSE]
  /\ cap = [s \in Sessions |-> 0]
  /\ attempt = [s \in Sessions |-> 0]
  /\ moves = [s \in Sessions |-> 0]
  /\ steps = [s \in Sessions |-> 0]

Goto(s, from, to) == pc[s] = from /\ pc' = [pc EXCEPT ![s] = to]
Set(f, s, x) == f' = [f EXCEPT ![s] = x]

-----------------------------------------------------------------------------
(* Getting a permit: acquire and acquire_with_cap.                         *)

\* resolve_route: any provider of the chain, whatever the health probes and
\* the conditions say now, or no route and no session.
Route(s) ==
  /\ \/ \E p \in Chain[s] : Goto(s, "route", "acquire") /\ Set(provider, s, p)
     \/ Goto(s, "route", "ended") /\ UNCHANGED provider
  /\ UNCHANGED <<active, permit, cap, budget>>

\* The cap is read from the configuration each time, and zero takes a permit
\* that is not counted.
ReadCap(s) ==
  /\ \E c \in Caps :
       /\ Set(cap, s, c)
       /\ Goto(s, "acquire", IF c = 0 THEN "call" ELSE "lock")
       /\ holds' = IF c = 0 THEN [holds EXCEPT ![s] = provider[s]] ELSE holds
       /\ Set(counted, s, FALSE)
  /\ UNCHANGED <<active, provider, budget>>

\* The loop around Condvar::wait, for a session that comes or has been woken.
\* Mutant (CapRespected): whoever has been woken finds a free slot.
AdmittedOnceWoken(s) == pc[s] = "woken" \/ active[provider[s]] < cap[s]
Admitted(s) == active[provider[s]] < cap[s]

Enter(s) ==
  /\ pc[s] \in {"lock", "woken"} /\ Admitted(s)
  /\ Set(pc, s, "call")
  /\ active' = [active EXCEPT ![provider[s]] = @ + 1]
  /\ Set(holds, s, provider[s]) /\ Set(counted, s, TRUE)
  /\ UNCHANGED <<provider, cap, budget>>

Sleep(s) ==
  /\ pc[s] \in {"lock", "woken"} /\ ~Admitted(s)
  /\ Set(pc, s, "asleep")
  /\ UNCHANGED <<active, provider, permit, cap, budget>>

\* Condvar::wait may return without a notification.
WakeUp(s) ==
  /\ Goto(s, "asleep", "woken")
  /\ UNCHANGED <<active, provider, permit, cap, budget>>

-----------------------------------------------------------------------------
(* Giving it back: Drop for ProviderPermit.                                *)

Sleepers(p) == {s \in Sessions : pc[s] = "asleep" /\ provider[s] = p}

\* notify_one wakes one sleeper of the slot, if there is one.
\* Mutant (NoLostWakeup): nobody is notified once the count is back to zero.
WakesUnlessLast(p) == IF active[p] > 1 THEN Sleepers(p) ELSE {}
Wakes(p) == Sleepers(p)

GivesBack(s) == counted[s]

\* s drops its permit on the way to its next state.
Release(s, to) ==
  LET p == holds[s]
  IN  /\ \/ /\ GivesBack(s)
            /\ active' = [active EXCEPT ![p] = @ - 1]
            /\ \/ \E w \in Wakes(p) : pc' = [pc EXCEPT ![s] = to, ![w] = "woken"]
               \/ Wakes(p) = {} /\ Set(pc, s, to)
         \/ /\ ~GivesBack(s)
            /\ Set(pc, s, to)
            /\ UNCHANGED active
      /\ Set(holds, s, None) /\ Set(counted, s, FALSE)

-----------------------------------------------------------------------------
(* Using it: the call loop of agent::run.                                  *)

\* The call is answered: the next one, with fresh tries, or the end.
Answered(s) ==
  /\ \/ steps[s] + 1 < Steps /\ Goto(s, "call", "call")
     \/ Goto(s, "call", "leave")
  /\ Set(steps, s, steps[s] + 1) /\ Set(attempt, s, 0)
  /\ UNCHANGED <<active, provider, permit, cap, moves>>

\* A retryable error, then the pause before the next try.
Retry(s) ==
  /\ Goto(s, "call", "call")
  /\ attempt[s] < Tries
  /\ Set(attempt, s, attempt[s] + 1)
  /\ UNCHANGED <<active, provider, permit, cap, moves, steps>>

MayMigrate(s) == attempt[s] = Tries /\ moves[s] < Moves /\ s \notin Pinned

\* What migrate may return: the failing provider counts as unhealthy.
Fallbacks(s) == Chain[s] \ {provider[s]}

\* Where a migrating session goes: it drops its permit, then waits for the
\* other one.
\* Mutant (CounterExact, SessionsEnd): the old permit is kept.
AfterMigrationHolding == "acquire"
AfterMigration == "drop"

MigrateAway(s) ==
  /\ MayMigrate(s)
  /\ \E p \in Fallbacks(s) :
       /\ Goto(s, "call", AfterMigration)
       /\ Set(provider, s, p)
  /\ Set(moves, s, moves[s] + 1) /\ Set(attempt, s, 0)
  /\ UNCHANGED <<active, permit, cap, steps>>

Drop(s) ==
  /\ pc[s] = "drop"
  /\ Release(s, "acquire")
  /\ UNCHANGED <<provider, cap, budget>>

\* An error that is not retryable, or no tries and no migration left.
Fail(s) ==
  /\ Goto(s, "call", "leave")
  /\ UNCHANGED <<active, provider, permit, cap, budget>>

\* run returns or its thread unwinds.
Leave(s) ==
  /\ pc[s] = "leave"
  /\ Release(s, "ended")
  /\ UNCHANGED <<provider, cap, budget>>

Session(s) ==
  \/ Route(s) \/ ReadCap(s) \/ Enter(s) \/ Sleep(s)
  \/ Answered(s) \/ Retry(s) \/ MigrateAway(s) \/ Drop(s) \/ Fail(s) \/ Leave(s)

LimitNext == \E s \in Sessions : Session(s) \/ WakeUp(s)

\* Every session that is not asleep keeps running.
Fairness == \A s \in Sessions : WF_limitVars(Session(s))

LimitSpec == LimitInit /\ [][LimitNext]_limitVars
FairSpec == LimitSpec /\ Fairness

-----------------------------------------------------------------------------
(* Properties.                                                             *)

States == {"route", "acquire", "lock", "asleep", "woken", "call", "drop", "leave", "ended"}

TypeOK ==
  /\ active \in [Slots -> Nat]
  /\ pc \in [Sessions -> States]
  /\ provider \in [Sessions -> Slots \cup {None}]
  /\ holds \in [Sessions -> Slots \cup {None}]
  /\ counted \in [Sessions -> BOOLEAN]
  /\ cap \in [Sessions -> Caps \cup {0}]
  /\ attempt \in [Sessions -> 0 .. Tries]
  /\ moves \in [Sessions -> 0 .. Moves]
  /\ steps \in [Sessions -> 0 .. Steps]

\* Sessions that count against the cap of p.
Counted(p) == {s \in Sessions : counted[s] /\ holds[s] = p}

\* The limit (limit.rs:3): whatever migrates, barges in or is woken, no
\* provider serves more counted sessions than the largest cap allows, and a
\* session calls a provider only under a permit of that provider.
CapRespected ==
  /\ \A p \in Slots : \E c \in Caps \cup {0} : Cardinality(Counted(p)) <= c
  /\ \A s \in Sessions : pc[s] = "call" => holds[s] = provider[s]

\* The counter counts the permits there are: none leaks across migrations,
\* errors and permits that do not count.
CounterExact == \A p \in Slots : active[p] = Cardinality(Counted(p))

\* No wakeup is lost (limit.rs:51, 72-74): while a session sleeps on a
\* provider, somebody holds a permit of it and will notify, or somebody who
\* has been notified or has just come is about to look.
NoLostWakeup ==
  \A s \in Sessions : pc[s] = "asleep" =>
    \/ active[provider[s]] > 0
    \/ \E w \in Sessions : pc[w] = "woken" /\ provider[w] = provider[s]

\* Migrating sessions never wait for each other's permits (agent.rs:414-416):
\* every session comes to an end.
SessionsEnd == <>(\A s \in Sessions : pc[s] = "ended")
=============================================================================
