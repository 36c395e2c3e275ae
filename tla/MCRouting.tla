----------------------------- MODULE MCRouting -----------------------------
(* Two providers with one model, two roles, a project that overrides one of  *)
(* them.                                                                     *)
EXTENDS Routing

CONSTANTS p1, p2, m, coder, writer

Rule(id, role, conds, chain, min, prio, scope) ==
    [id |-> id, role |-> role, conds |-> conds, chain |-> [i \in DOMAIN chain |-> [p |-> chain[i], m |-> m]],
     min |-> min, prio |-> prio, scope |-> scope]

MCRulePool ==
    {Rule("r1", coder, {}, <<p1, p2>>, 75, 0, NULL),
     Rule("r1", coder, {[field |-> "quota", op |-> "lt", value |-> 75, provider |-> p1]}, <<p2>>, 0, 1, NULL),
     Rule("r2", coder, {[field |-> "health", op |-> "eq", value |-> TRUE, provider |-> p2]}, <<p2, p1>>, 0, 0, Project),
     Rule("r3", writer, {}, <<p1>>, 0, 0, NULL)}
MCFirstRules == <<CHOOSE r \in MCRulePool : r.id = "r1" /\ r.min = 75>>
MCRoleOf == [a \in Agents |-> coder]
MCSeeds == <<Rule("r2", coder, {}, <<p1>>, 0, 0, NULL), Rule("r3", writer, {}, <<p2, p1>>, 0, 0, NULL)>>
\* Overrides are written by hand: this one has an entry without a model.
MCOverrides == <<[Rule("o1", coder, {}, <<p2, p2, p1>>, 75, 0, NULL) EXCEPT !.chain[2].m = NULL]>>
T(warn, crit) == [warn |-> warn, crit |-> crit]
MCConfigs == {NULL, [warn |-> 25, crit |-> 50, action |-> "switch"],
              [warn |-> 25, crit |-> 50, action |-> "pause"]}
MCThresholds == {T(0, 25), T(60, 50)}
=============================================================================
