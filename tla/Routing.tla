------------------------------ MODULE Routing ------------------------------
(***************************************************************************)
(* Where a session goes: the rules, the state of the providers they are    *)
(* decided against, quotas and their alerts.  A session collects its       *)
(* context provider by provider while users edit rules, budgets and        *)
(* suspensions, other sessions spend, and the terminal's alert check       *)
(* suspends providers or pauses roles, as config.toml says.  Every         *)
(* command's load, change and save is one step here, and has no error;     *)
(* Stores has them apart.  The alert's own may fail.  Of the files only    *)
(* config.toml is ever cut off.                                            *)
(***************************************************************************)
EXTENDS Integers, Sequences, FiniteSets, SequencesExt, Ordered

CONSTANTS Providers, Models, Roles,
          RulePool,      \* the rules the user may write
          FirstRules,    \* rules.yaml at the start
          Seeds,         \* the rules of rule init, in their order
          Overrides,     \* rules_override of the project
          Project,       \* its id
          Agents,        \* sessions that ask for a route
          RoleOf,        \* the role of each
          Limits,        \* plan limits the user may set
          Configs,       \* config.toml at the start: its thresholds (percent used) and
                         \* action, NULL for no file, Unreadable
          Thresholds,    \* what the user may type in the settings
          Unreadable,    \* of a newer RoleN, or half written
          MaxSpent,      \* bound: tokens spent at a provider
          MaxOps,        \* bound: commands and changes of health
          NULL

Actions == {"notify", "switch", "pause"}
Settings == [warn : 0..100, crit : 0..100, action : Actions]

ASSUME RoutingOK == /\ Limits \subseteq Nat
                    /\ Configs \subseteq Settings \cup {NULL, Unreadable}
                    /\ Thresholds \subseteq [warn : 0..100, crit : 0..100]
                    /\ MaxSpent \in Nat /\ MaxOps \in Nat

\* A provider and one of its models; without a model it has no slash, which only
\* a file edited by hand can bring about.
Entries == [p : Providers, m : Models \cup {NULL}]
\* Priorities are taken to be clear of the limits of their 32 bits.
RuleOK(r) == /\ DOMAIN r = {"id", "role", "conds", "chain", "min", "prio", "scope"}
             /\ r.role \in Roles /\ r.min \in Nat /\ r.prio \in Int
             /\ r.chain \in Seq(Entries)
RuleFile(rs) == rs \in Seq({rs[i] : i \in DOMAIN rs}) /\ \A i \in DOMAIN rs : RuleOK(rs[i])

ASSUME RulesOK == /\ Providers \cap Roles = {}
                  /\ RoleOf \in [Agents -> Roles]
                  /\ NULL \notin Entries
                  /\ \A r \in RulePool : RuleOK(r)
                  /\ RuleFile(FirstRules) /\ RuleFile(Seeds) /\ RuleFile(Overrides)

Bonus == 1000

VARIABLES registry,  \* per provider NULL or [susp, models]
          healthy,   \* providers that answer a health check
          rules, paused,
          subs,      \* per provider NULL or [limit, used, source, since]
          spent,     \* the ledger's tokens per provider
          cfg,       \* config.toml
          alerted,   \* the terminal: providers it has alerted about
          check,     \* the alert check: the settings it goes by and the subscriptions
                     \* it has still to look at, or NULL
          missed,    \* history: those of alerted whose action failed
          proc,      \* per session NULL or what it knows
          left,
          off        \* history: what was out of rotation since a session began

config == <<registry, rules, paused, subs>>
alerts == <<alerted, check, missed>>
vars == <<config, healthy, spent, cfg, alerts, proc, left, off>>

Registered(reg) == {p \in Providers : reg[p] # NULL}
NoSub == [limit |-> NULL, used |-> 0, source |-> "manual", since |-> 0]

FirstRegistry == [p \in Providers |-> [susp |-> FALSE, models |-> Models]]

Init ==
    /\ registry = FirstRegistry
    /\ healthy = Providers
    /\ rules = FirstRules
    /\ paused = {}
    /\ subs = [p \in Providers |-> NULL] /\ spent = [p \in Providers |-> 0]
    /\ cfg \in Configs
    /\ alerted = {} /\ check = NULL /\ missed = {}
    /\ proc = [a \in Agents |-> NULL]
    /\ left = MaxOps /\ off = [a \in Agents |-> {}]

-----------------------------------------------------------------------------
(* Quotas                                                                   *)

\* remaining_pct, of what spent says: what was synced counts before the ledger.
Remaining(s, p) ==
    IF s = NULL THEN NULL
    ELSE IF s.limit \in {NULL, 0} THEN NULL
    ELSE LET used == IF s.source = "synced" /\ s.used > 0 THEN s.used ELSE spent[p] - s.since
             rest == IF used > s.limit THEN 0 ELSE s.limit - used
         IN (rest * 100) \div s.limit

UsedPct(s, p) == LET r == Remaining(s, p) IN IF r = NULL THEN NULL ELSE 100 - r

SubOf(p) == IF subs[p] = NULL THEN NoSub ELSE subs[p]

SetManualBudget(p, n) ==
    subs' = [subs EXCEPT ![p] = [SubOf(p) EXCEPT !.limit = n, !.source = "manual"]]
ClearBudget(p) == subs' = [subs EXCEPT ![p] = NULL]
SetCycle(p) == subs' = [subs EXCEPT ![p] = [SubOf(p) EXCEPT !.since = spent[p]]]
RecordSynced(p, used, limit) ==
    subs' = [subs EXCEPT ![p] =
        [SubOf(p) EXCEPT !.used = used, !.limit = IF limit = NULL THEN @ ELSE limit, !.source = "synced"]]

BudgetOp ==
    /\ \E p \in Providers :
          \/ \E n \in Limits : SetManualBudget(p, n)
          \/ ClearBudget(p)
          \/ SetCycle(p)
          \/ registry[p] # NULL /\ \E n \in Limits \cup {NULL} : RecordSynced(p, MaxSpent, n)
    /\ UNCHANGED <<registry, rules, paused>>

-----------------------------------------------------------------------------
(* Rules and their evaluation                                               *)

Ids(rs) == {rs[i].id : i \in DOMAIN rs}

\* rule add, and the editor for a new rule.
AddRule(r) == r.id \notin Ids(rules) /\ rules' = Append(rules, r)
\* The editor for an older rule: in its place, or added again if it is gone.
EditRule(r) ==
    IF r.id \in Ids(rules)
      THEN LET i == CHOOSE j \in DOMAIN rules : rules[j].id = r.id /\ \A k \in 1..(j - 1) : rules[k].id # r.id
           IN rules' = [rules EXCEPT ![i] = r]
      ELSE rules' = Append(rules, r)
DeleteRule(id) == id \in Ids(rules) /\ rules' = Kept(rules, {i \in DOMAIN rules : rules[i].id # id})
\* rule init: of each seed the entries whose provider is registered, if any.
SeedRules ==
    LET cut(r) == [r EXCEPT !.chain = Kept(@, {n \in DOMAIN @ : registry[@[n].p] # NULL})]
        cuts == [i \in DOMAIN Seeds |-> cut(Seeds[i])]
        new == {i \in DOMAIN cuts : cuts[i].chain # <<>> /\ cuts[i].id \notin Ids(rules)}
    IN rules' = rules \o Kept(cuts, new)

RuleOp ==
    /\ \/ \E r \in RulePool : AddRule(r) \/ EditRule(r)
       \/ \E id \in Ids(rules) : DeleteRule(id)
       \/ SeedRules
    /\ UNCHANGED <<registry, paused, subs>>

RoleOp ==
    /\ \E r \in Roles : paused' = IF r \in paused THEN paused \ {r} ELSE paused \cup {r}
    /\ UNCHANGED <<registry, rules, subs>>

\* The overrides of the session's project come first, with a bonus.
MergedWith(rs, overrides) ==
    [i \in DOMAIN overrides |-> [overrides[i] EXCEPT !.prio = @ + Bonus]] \o rs

Cmp(a, op, b) ==
    CASE op = "lt" -> a < b [] op = "le" -> a <= b [] op = "eq" -> a = b
      [] op = "ne" -> a # b [] op = "ge" -> a >= b [] op = "gt" -> a > b
\* Order makes no sense for names and truth values: such a condition never holds.
Same(a, op, b) == (op = "eq" /\ a = b) \/ (op = "ne" /\ a # b)

Holds(c, project, ctx) ==
    LET known == c.provider \in DOMAIN ctx IN
    CASE c.field = "project" -> Same(project, c.op, c.value)
      [] c.field = "health" -> Same(known /\ ctx[c.provider].healthy, c.op, c.value)
      [] c.field = "quota" -> /\ known /\ ctx[c.provider].quota # NULL
                              /\ Cmp(ctx[c.provider].quota, c.op, c.value)
      [] c.field = "cost" -> known /\ Cmp(ctx[c.provider].cost, c.op, c.value)

Applies(r, project, ctx) ==
    /\ r.scope # NULL => r.scope = project
    /\ \A c \in r.conds : Holds(c, project, ctx)

\* Mutant: a rule's minimum is taken as more than.
UsableAbove(e, min, ctx) ==
    /\ e.p \in DOMAIN ctx /\ ctx[e.p].healthy
    /\ ctx[e.p].quota # NULL => ctx[e.p].quota > min
    /\ ctx[e.p].models # {} => e.m \in ctx[e.p].models
\* An entry of a chain: an unknown quota is no reason to skip it, nor a
\* catalogue that is empty.
Usable(e, min, ctx) ==
    /\ e.p \in DOMAIN ctx /\ ctx[e.p].healthy
    /\ (min > 0 /\ ctx[e.p].quota # NULL) => ctx[e.p].quota >= min
    /\ ctx[e.p].models # {} => e.m \in ctx[e.p].models

\* The walk ends at the first entry that can be used, and in vain at a malformed one.
WalkChain(r, ctx) ==
    LET n == SelectInSeq(r.chain, LAMBDA e : e.m = NULL \/ Usable(e, r.min, ctx))
    IN IF n # 0 /\ r.chain[n].m = NULL THEN 0 ELSE n

\* The rules for a role, by falling priority and else as they stand in the file.
Ahead(rs, i, j) == rs[i].prio > rs[j].prio \/ (rs[i].prio = rs[j].prio /\ i < j)
ForRole(rs, role) ==
    LET order == InOrder({i \in DOMAIN rs : rs[i].role = role}, LAMBDA i, j : Ahead(rs, i, j))
    IN [n \in DOMAIN order |-> rs[order[n]]]

NoRoute == [rule |-> NULL, entry |-> NULL]
Decide(rs, role, project, ctx) ==
    LET candidates == ForRole(rs, role)
        n == SelectInSeq(candidates, LAMBDA r : Applies(r, project, ctx) /\ WalkChain(r, ctx) # 0)
    IN IF role \in paused \/ n = 0 THEN NoRoute
       ELSE [rule |-> candidates[n], entry |-> candidates[n].chain[WalkChain(candidates[n], ctx)]]

-----------------------------------------------------------------------------
(* The registry: what routing sees of it                                    *)

RegistryOp ==
    /\ \E p \in Providers :
          \/ \E ms \in {{}, Models} : registry' = [registry EXCEPT ![p] = [susp |-> FALSE, models |-> ms]]
          \/ registry[p] # NULL /\ registry' = [registry EXCEPT ![p] = NULL]
          \/ registry[p] # NULL /\ registry' = [registry EXCEPT ![p].susp = ~@]
    /\ UNCHANGED <<rules, paused, subs>>

\* What is out of rotation stays so for a session only as long as nothing puts it
\* back.
StillOff == off' = [a \in Agents |-> off[a] \cap ({p \in Providers : registry'[p] # NULL /\ registry'[p].susp}
                                                    \cup paused')]

User ==
    /\ left > 0 /\ left' = left - 1
    /\ BudgetOp \/ RuleOp \/ RoleOp \/ RegistryOp
    /\ StillOff
    /\ UNCHANGED <<healthy, spent, cfg, alerts, proc>>

-----------------------------------------------------------------------------
(* config.toml                                                              *)

Default == [warn |-> 80, crit |-> 95, action |-> "notify"]
\* A file of an older schema is upgraded as it is loaded.
Readable(c) == c \notin {NULL, Unreadable}
Loaded(c) == IF Readable(c) THEN c ELSE Default

\* A save that fails, or is cut off, leaves the file empty.
SaveConfig(c) == cfg' \in {c, Unreadable}

\* The form does not have the action, and keeps what it has loaded.
Form(t) == [Loaded(cfg) EXCEPT !.warn = t.warn, !.crit = t.crit]
SaveSettings ==
    \E t \in Thresholds : ~(t.warn >= t.crit /\ t.crit < 100) /\ SaveConfig(Form(t))
\* A theme is stored the same way.
SwitchTheme == SaveConfig(Loaded(cfg))
EnsureConfig == cfg = NULL /\ SaveConfig(Default)

ConfigOp ==
    /\ left > 0 /\ left' = left - 1
    /\ SaveSettings \/ SwitchTheme \/ EnsureConfig
    /\ UNCHANGED <<config, healthy, spent, alerts, proc, off>>

\* A bundle that was exported at the start is imported: the files that were there,
\* of which pauses are none.
ImportSetup(first) ==
    /\ left > 0 /\ left' = left - 1
    /\ cfg' = IF first = NULL THEN cfg ELSE first
    /\ registry' = FirstRegistry /\ rules' = FirstRules
    /\ UNCHANGED <<paused, subs, healthy, spent, alerts, proc>>
    /\ StillOff

Health(p) ==
    /\ left > 0 /\ left' = left - 1
    /\ healthy' = IF p \in healthy THEN healthy \ {p} ELSE healthy \cup {p}
    /\ UNCHANGED <<config, spent, cfg, alerts, proc, off>>

-----------------------------------------------------------------------------
(* A session: resolve_route and migrate                                     *)

\* What a session that asks for a route loads.
Asking(role, project, known, failed) ==
    [pc |-> "probe", role |-> role, project |-> project, failed |-> failed, known |-> known,
     rules |-> MergedWith(rules, IF project = NULL THEN <<>> ELSE Overrides),
     reg |-> registry, todo |-> SetToSeq(Registered(registry)), ctx |-> <<>>,
     route |-> NoRoute, blocked |-> FALSE]

OffNow == {p \in Providers : registry[p] # NULL /\ registry[p].susp} \cup paused

Ask(a) ==
    /\ proc[a] = NULL
    /\ \E project \in {NULL, Project} :
          proc' = [proc EXCEPT ![a] = Asking(RoleOf[a], project, Registered(registry), NULL)]
    /\ off' = [off EXCEPT ![a] = OffNow]
    /\ UNCHANGED <<config, healthy, spent, cfg, alerts, left>>

\* Mutant: a suspended provider is probed like any other.
ProbedAnyway(reg, p) == p \in healthy
\* A provider that is suspended is not healthy, whatever it would answer.
Probed(reg, p) == ~reg[p].susp /\ p \in healthy

ProbeOne(a) ==
    LET s == proc[a] IN
    /\ s # NULL /\ s.pc = "probe" /\ s.todo # <<>>
    /\ LET p == Head(s.todo) IN
       proc' = [proc EXCEPT ![a].todo = Tail(@),
                   ![a].ctx = [x \in DOMAIN @ \cup {p} |->
                       IF x = p THEN [healthy |-> Probed(s.reg, p) /\ p # s.failed,
                                      quota |-> Remaining(subs[p], p), cost |-> spent[p],
                                      models |-> s.reg[p].models]
                       ELSE @[x]]]
    /\ UNCHANGED <<config, healthy, spent, cfg, alerts, left, off>>

\* A session that migrates knows only the providers of its start.
DecideRoute(a) ==
    LET s == proc[a]
        d == Decide(s.rules, s.role, s.project, s.ctx)
    IN /\ s # NULL /\ s.pc = "probe" /\ s.todo = <<>>
       /\ proc' = [proc EXCEPT ![a].pc = "decided",
                      ![a].blocked = s.role \in paused,
                      ![a].route = IF d.entry # NULL /\ s.failed # NULL /\ d.entry.p \notin s.known
                                    THEN NoRoute ELSE d]
       /\ UNCHANGED <<config, healthy, spent, cfg, alerts, left, off>>

\* The session runs: it spends, or its provider fails and it asks again.
Spend(a) ==
    /\ proc[a] # NULL /\ proc[a].route.entry # NULL
    /\ LET p == proc[a].route.entry.p IN
       /\ spent[p] < MaxSpent
       /\ spent' = [spent EXCEPT ![p] = @ + 1]
    /\ proc' = [proc EXCEPT ![a].pc = "runs", ![a].rules = <<>>, ![a].reg = NULL, ![a].ctx = <<>>]
    /\ UNCHANGED <<config, healthy, cfg, alerts, left, off>>

Migrate(a) ==
    /\ left > 0 /\ left' = left - 1
    /\ proc[a] # NULL /\ proc[a].route.entry # NULL
    /\ proc' = [proc EXCEPT ![a] = Asking(@.role, @.project, @.known, @.route.entry.p)]
    /\ off' = [off EXCEPT ![a] = OffNow]
    /\ UNCHANGED <<config, healthy, spent, cfg, alerts>>

End(a) ==
    /\ proc[a] # NULL /\ proc[a].pc \in {"decided", "runs"}
    /\ proc' = [proc EXCEPT ![a] = NULL]
    /\ off' = [off EXCEPT ![a] = {}]
    /\ UNCHANGED <<config, healthy, spent, cfg, alerts, left>>

-----------------------------------------------------------------------------
(* check_alerts of the terminal, one subscription after the other: a dialog *)
(* may be up between two of them                                            *)

\* Roles with a rule of rules.yaml that leads to p.
RolesVia(p) == {rules[i].role : i \in {j \in DOMAIN rules : \E n \in DOMAIN rules[j].chain : rules[j].chain[n].p = p}}

Act(p) ==
    CASE check.cfg.action = "switch" ->
            /\ registry' = IF registry[p] = NULL THEN registry ELSE [registry EXCEPT ![p].susp = TRUE]
            /\ UNCHANGED <<rules, paused, subs>>
      [] check.cfg.action = "pause" -> paused' = paused \cup RolesVia(p) /\ UNCHANGED <<registry, rules, subs>>
      [] OTHER -> UNCHANGED config

\* A registry or rules that do not load, a save or some of the pauses that fail: all
\* of it is passed over, and nothing tries again while p is in alerted.
ActFails(p) ==
    /\ check.cfg.action \in {"switch", "pause"}
    /\ \E some \in SUBSET RolesVia(p) :
          paused' = IF check.cfg.action = "pause" THEN paused \cup some ELSE paused
    /\ UNCHANGED <<registry, rules, subs>>

\* The dialog comes after the action, however that went.
Alert(p) ==
    /\ alerted' = alerted \cup {p}
    /\ \/ p \in alerted /\ UNCHANGED <<config, missed>>
       \/ p \notin alerted /\ Act(p) /\ UNCHANGED missed
       \/ p \notin alerted /\ ActFails(p) /\ missed' = missed \cup {p}

\* The settings, without which there is no check, and the subscriptions with a limit.
CheckBegin ==
    /\ check = NULL /\ Readable(cfg)
    /\ check' = [cfg |-> cfg, todo |-> {p \in Providers : subs[p] # NULL /\ subs[p].limit # NULL}]
    /\ UNCHANGED <<config, healthy, spent, cfg, alerted, missed, proc, left, off>>

\* A provider between the two thresholds is armed again.
Rearm(p) == alerted' = alerted \ {p} /\ missed' = missed \ {p} /\ UNCHANGED config

\* Mutant: the check is over with the first alert.
CheckFirst(p) ==
    LET used == UsedPct(subs[p], p)
        critical == used # NULL /\ used >= check.cfg.warn /\ used >= check.cfg.crit
    IN /\ check # NULL /\ p \in check.todo
       /\ check' = [check EXCEPT !.todo = IF critical THEN {} ELSE @ \ {p}]
       /\ IF critical THEN Alert(p) ELSE UNCHANGED <<config, alerted, missed>>
       /\ UNCHANGED <<healthy, spent, cfg, proc, left, off>>

\* Which subscriptions there are is what the check loaded, their numbers are read
\* again.
CheckOne(p) ==
    LET used == UsedPct(subs[p], p)
        warns == used # NULL /\ used >= check.cfg.warn
    IN /\ check # NULL /\ p \in check.todo
       /\ check' = [check EXCEPT !.todo = @ \ {p}]
       /\ \/ ~warns /\ UNCHANGED <<config, alerted, missed>>
          \/ warns /\ used >= check.cfg.crit /\ Alert(p)
          \/ warns /\ used < check.cfg.crit /\ Rearm(p)
       /\ UNCHANGED <<healthy, spent, cfg, proc, left, off>>

CheckEnd ==
    /\ check # NULL /\ check.todo = {}
    /\ check' = NULL
    /\ UNCHANGED <<config, healthy, spent, cfg, alerted, missed, proc, left, off>>

\* The terminal ends and starts again: what it has alerted about is forgotten.
Restart ==
    /\ left > 0 /\ left' = left - 1
    /\ alerted' = {} /\ check' = NULL /\ missed' = {}
    /\ UNCHANGED <<config, healthy, spent, cfg, proc, off>>

Check == CheckBegin \/ CheckEnd \/ \E p \in Providers : CheckOne(p)

Next ==
    \/ User \/ ConfigOp \/ (\E first \in Configs : ImportSetup(first)) \/ (\E p \in Providers : Health(p)) \/ Restart
    \/ \E a \in Agents : Ask(a) \/ ProbeOne(a) \/ DecideRoute(a) \/ Spend(a) \/ Migrate(a) \/ End(a)
    \/ Check

\* The terminal's timer runs the check over and over, and one that has begun goes
\* on to its last subscription; nothing else is promised.
Spec == Init /\ [][Next]_vars /\ WF_vars(Check)

-----------------------------------------------------------------------------
(* Properties *)

\* The entries of a rule that a session can use, said once more: those behind a
\* malformed one are out of its reach.
Good(s, r) ==
    {n \in DOMAIN r.chain :
        LET e == r.chain[n] IN
        /\ r.scope \in {NULL, s.project}
        /\ \A c \in r.conds : Holds(c, s.project, s.ctx)
        /\ e.p \in DOMAIN s.ctx /\ s.ctx[e.p].healthy
        /\ s.ctx[e.p].quota \in {NULL} \cup (r.min .. 100)
        /\ e.m \in s.ctx[e.p].models \/ s.ctx[e.p].models = {}
        /\ \A k \in 1..n : r.chain[k].m # NULL}
Leading(s) == {i \in DOMAIN s.rules : s.rules[i].role = s.role /\ Good(s, s.rules[i]) # {}}
Decided == {a \in Agents : proc[a] # NULL /\ proc[a].pc = "decided"}

\* A session's route is the best its rules allow: the entry is usable, no earlier
\* one of its chain is, and no other rule of the role that leads anywhere has a
\* higher priority or stands further up with the same.  A session without a route
\* has no such rule, unless its role was paused or it migrates to a provider that
\* is newer than itself.
RouteIsBest ==
    \A a \in Decided :
        LET s == proc[a] IN
        IF s.route.entry = NULL
          THEN s.blocked \/ Leading(s) = {} \/ (s.failed # NULL /\ s.known # Providers)
          ELSE \E i \in Leading(s) :
                  /\ s.route.rule = s.rules[i]
                  /\ \A j \in Leading(s) \ {i} : s.rules[j].prio < s.rules[i].prio
                                                \/ (s.rules[j].prio = s.rules[i].prio /\ i < j)
                  /\ \E n \in Good(s, s.rules[i]) :
                        /\ s.route.entry = s.rules[i].chain[n]
                        /\ \A k \in Good(s, s.rules[i]) : n <= k

\* No session goes to a provider that was suspended, or as a role that was paused,
\* before it began to ask and ever since: by the user or by an alert.  Nor does
\* one that migrates go back to the provider that failed it.
OutOfRotation ==
    \A a \in Decided :
        proc[a].route.entry # NULL => /\ proc[a].route.entry.p \notin off[a] \cup {proc[a].failed}
                                     /\ proc[a].role \notin off[a]

Critical(p) ==
    LET used == UsedPct(subs[p], p) IN used # NULL /\ used >= cfg.crit

\* What the configured action is to bring about.
Reaction(p) ==
    CASE cfg.action = "switch" -> registry[p] = NULL \/ registry[p].susp
      [] cfg.action = "pause" -> RolesVia(p) \subseteq paused
      [] OTHER -> p \in alerted

\* A provider that becomes critical, and about which the terminal has not alerted
\* yet, is reacted to, whatever other subscriptions are critical too, unless it
\* recovers first, the settings cannot be read any more, they are changed during a
\* check, or the action fails, which is the only try until the provider is armed
\* again.
CriticalIsActedOn ==
    \A p \in Providers :
        (Readable(cfg) /\ Critical(p) /\ p \notin alerted)
          ~> (~Readable(cfg) \/ ~Critical(p) \/ Reaction(p) \/ p \in missed
                \/ (check # NULL /\ check.cfg # cfg))

=============================================================================
