------------------------------ MODULE Stores ------------------------------
(***************************************************************************)
(* providers.toml, pricing.toml and the secrets of the providers.  Every   *)
(* command and dialog loads a whole file, changes its copy, perhaps after  *)
(* asking the user or the network, and saves the whole file in place.      *)
(* Sessions refresh OAuth tokens in the secret store meanwhile.  An empty  *)
(* TOML file is an empty list, so a file that is about to be filled reads  *)
(* as one with no entries.                                                 *)
(***************************************************************************)
EXTENDS Naturals, Sequences, FiniteSets

CONSTANTS Providers, Models,
          Listed,        \* the models each provider's API lists
          OAuthOf,       \* providers that authenticate with OAuth tokens
          Detectable,    \* providers that detect_all finds
          Rotates,       \* whether a refresh token is good for one refresh only
          Users,         \* processes in which the user gives commands
          Sessions,      \* agent sessions, which refresh tokens
          MaxOps,        \* bound: commands and dialogs
          MaxFlips,      \* bound: times the keychain becomes (un)available
          TypedKey, NULL

KeyKinds == {"none", "key", "oauth"}
Entries == [key : KeyKinds, susp : BOOLEAN, models : SUBSET Models, manual : SUBSET Models]
Secrets == Nat \cup {TypedKey}
Copies == [file : {"registry"}, content : [Providers -> Entries \cup {NULL}]]
            \cup [file : {"prices"}, content : [Providers -> SUBSET Models]]
            \cup [file : {"vault"}, content : [Providers -> Secrets \cup {NULL}]]

ASSUME StoresOK == /\ Listed \in [Providers -> SUBSET Models]
                   /\ OAuthOf \subseteq Providers /\ Detectable \subseteq Providers
                   /\ Rotates \in BOOLEAN
                   /\ MaxOps \in Nat /\ MaxFlips \in Nat
                   /\ Users \cap Sessions = {} /\ TypedKey \notin Nat
                   /\ NULL \notin Entries \cup Secrets \cup Copies

Procs == Users \cup Sessions

VARIABLES registry,  \* providers.toml: per provider NULL or an entry
          prices,    \* pricing.toml: the models with a rate
          keychain, vault,  \* the secret of each provider, or NULL
          up,        \* the keychain works
          server,    \* the token generation the authorization server accepts
          proc,      \* per process: the command it gives, the steps ahead of it, the
                     \* copy of a file it has loaded, the token it works with
          left, flips,
          raced,     \* history: files two processes held a copy of, and providers a
                     \* user's command and another process were busy with
          cut,       \* history: files and providers left half done by a death
          wish       \* history: what the user's finished commands leave of each provider

stores == <<registry, prices, keychain, vault, up, server>>
vars == <<stores, proc, left, flips, raced, cut, wish>>

NoEntries == [p \in Providers |-> NULL]
NoPrices == [p \in Providers |-> {}]
\* Provider as add and detect make it: nothing is taken from an older entry.
Entry(key, models) == [key |-> key, susp |-> FALSE, models |-> models, manual |-> {}]

Idle == [todo |-> <<>>, arg |-> NULL, copy |-> NULL, token |-> NULL]
NoWish == [registered |-> FALSE, susp |-> FALSE, manual |-> {}]

Init ==
    /\ registry = NoEntries /\ prices = NoPrices
    /\ keychain = NoEntries /\ vault = NoEntries /\ up \in BOOLEAN
    /\ server = [p \in Providers |-> 0]
    /\ proc = [q \in Procs |-> Idle]
    /\ left = MaxOps /\ flips = 0 /\ raced = {} /\ cut = {}
    /\ wish = [p \in Providers |-> NoWish]

-----------------------------------------------------------------------------
(* Commands and dialogs, as the steps they take.                           *)

AddCommand(key) == (IF key = "none" THEN <<>> ELSE <<"set">>) \o <<"load", "register", "save">>
\* The same steps, with what the form holds instead of the arguments.
AddDialog(key) == AddCommand(key)
\* Mutant: the secret goes first.
RemoveSecretFirst == <<"delete", "load", "remove", "save">>
RemoveCommand == <<"load", "remove", "save", "delete">>
ModelsCommand == <<"load", "discover", "save">>
DetectCommand == <<"load", "register", "save">>
DetectDialog == <<"load", "register", "save">>
SuspendCommand == <<"load", "suspend", "save">>
ResumeCommand == <<"load", "resume", "save">>
AddModelDialog == <<"load", "add_model", "save">>
RemoveModelDialog == <<"load", "remove_model", "save", "load_prices", "clear_price", "save_prices">>
EditPriceDialog == <<"load_prices", "set_price", "save_prices">>
ClearPriceDialog == <<"load_prices", "clear_price", "save_prices">>

Commands ==
    {[steps |-> AddCommand(k), p |-> p, key |-> k, m |-> NULL] : p \in Providers, k \in KeyKinds}
      \cup {[steps |-> AddDialog(k), p |-> p, key |-> k, m |-> NULL] : p \in Providers, k \in {"none", "key"}}
      \cup {[steps |-> s, p |-> p, key |-> "none", m |-> NULL] : p \in Providers,
              s \in {RemoveCommand, ModelsCommand, SuspendCommand, ResumeCommand}}
      \cup {[steps |-> s, p |-> p, key |-> "none", m |-> NULL] : p \in Detectable, s \in {DetectCommand, DetectDialog}}
      \cup {[steps |-> s, p |-> p, key |-> "none", m |-> m] : p \in Providers, m \in Models,
              s \in {AddModelDialog, RemoveModelDialog, EditPriceDialog, ClearPriceDialog}}

\* The user picks a model of the list to remove, and types one that is not in it to add.
Applies(c) ==
    /\ c.key = "oauth" => c.p \in OAuthOf
    /\ c.steps = AddModelDialog => registry[c.p] # NULL /\ c.m \notin registry[c.p].models
    /\ c.steps = RemoveModelDialog => registry[c.p] # NULL /\ c.m \in registry[c.p].manual

P(q) == proc[q].arg.p
At(q, step) == proc[q].todo # <<>> /\ Head(proc[q].todo) = step
Busy == {q \in Procs : proc[q].todo # <<>>}
\* The processes that hold a copy of a file.
Holding(file) == {q \in Busy : proc[q].copy # NULL /\ proc[q].copy.file = file}

\* q goes on as r; without a step left it is done.
Become(q, r) == proc' = [proc EXCEPT ![q] = IF r.todo = <<>> THEN Idle ELSE r]
Done(q) == Become(q, [proc[q] EXCEPT !.todo = Tail(@)])
Finish(q) == Become(q, Idle)
\* q has a copy of a file, and the steps to go.
Take(q, file, content, steps) ==
    /\ Become(q, [proc[q] EXCEPT !.copy = [file |-> file, content |-> content], !.todo = steps])
    /\ raced' = raced \cup {file : x \in Holding(file) \ {q}}
Rest(q) == Tail(proc[q].todo)
\* q and another process are about the same provider, by a user's command.
Race(q, p) == raced' = raced \cup {p : x \in {b \in Busy : P(b) = p /\ {b, q} \cap Users # {}}}

Begin(u) ==
    /\ u \notin Busy /\ left > 0 /\ left' = left - 1
    /\ \E c \in Commands :
          /\ Applies(c)
          /\ Become(u, [Idle EXCEPT !.todo = c.steps, !.arg = c])
          /\ Race(u, c.p)
    /\ UNCHANGED <<stores, flips, cut, wish>>

LoadRegistry(u) ==
    /\ At(u, "load")
    /\ Take(u, "registry", registry, Rest(u))
    /\ UNCHANGED <<stores, left, flips, cut, wish>>

LoadPrices(u) ==
    /\ At(u, "load_prices")
    /\ Take(u, "prices", prices, Rest(u))
    /\ UNCHANGED <<stores, left, flips, cut, wish>>

\* merge_models: what the API lists, and what was added by hand and is not listed.
\* Mutant: discovery replaces everything.
MergeForgets(e, found) == [e EXCEPT !.models = found, !.manual = {}]
MergeModels(e, found) ==
    [e EXCEPT !.models = found \cup e.manual, !.manual = e.manual \ found]

Old(q) == proc[q].copy.content[P(q)]
\* The edits of one entry of the registry; those that need one end the command
\* without it.
Edits(q) ==
    CASE At(q, "register") -> {Entry(proc[q].arg.key, {}), Entry(proc[q].arg.key, Listed[P(q)])}
      [] At(q, "remove") -> {NULL}
      [] At(q, "discover") -> {MergeModels(Old(q), Listed[P(q)])}
      [] At(q, "suspend") -> {[Old(q) EXCEPT !.susp = TRUE]}
      [] At(q, "resume") -> {[Old(q) EXCEPT !.susp = FALSE]}
      [] At(q, "add_model") ->
            {[Old(q) EXCEPT !.models = @ \cup {proc[q].arg.m}, !.manual = @ \cup {proc[q].arg.m}]}
      [] At(q, "remove_model") ->
            {[Old(q) EXCEPT !.models = @ \ {proc[q].arg.m}, !.manual = @ \ {proc[q].arg.m}]}

RegistryEdits == {"register", "remove", "discover", "suspend", "resume", "add_model", "remove_model"}

\* The copy with e in place of the provider's entry.
Change(u, e) == Become(u, [proc[u] EXCEPT !.copy.content[P(u)] = e, !.todo = Rest(u)])

EditRegistry(u) ==
    /\ \E s \in RegistryEdits : At(u, s)
    /\ IF Old(u) = NULL /\ ~At(u, "register") THEN Finish(u)
                                              ELSE \E e \in Edits(u) : Change(u, e)
    /\ UNCHANGED <<stores, left, flips, raced, cut, wish>>

EditPrices(u) ==
    LET m == proc[u].arg.m IN
    /\ \/ At(u, "set_price") /\ Change(u, Old(u) \cup {m})
       \/ At(u, "clear_price") /\ (IF m \in Old(u) THEN Change(u, Old(u) \ {m}) ELSE Finish(u))
    /\ UNCHANGED <<stores, left, flips, raced, cut, wish>>

\* The user cancels a dialog, or discovery fails: nothing is saved.
GiveUp(u) ==
    /\ \E s \in {"discover", "add_model", "set_price"} : At(u, s)
    /\ Finish(u)
    /\ UNCHANGED <<stores, left, flips, raced, cut, wish>>

\* fs::write: emptied, then filled.
SaveEmpties(u) ==
    /\ \/ At(u, "save") /\ registry' = NoEntries /\ UNCHANGED prices
       \/ At(u, "save_prices") /\ prices' = NoPrices /\ UNCHANGED registry
    /\ Become(u, [proc[u] EXCEPT !.todo = <<"fill">> \o Tail(@)])
    /\ UNCHANGED <<keychain, vault, up, server, left, flips, raced, cut, wish>>

\* What command c leaves of its provider, when w was left before.
Wanted(w, c) ==
    CASE c.steps = AddCommand(c.key) -> [NoWish EXCEPT !.registered = TRUE]
      [] c.steps = RemoveCommand -> NoWish
      [] c.steps = ModelsCommand -> [w EXCEPT !.manual = @ \ Listed[c.p]]
      [] c.steps \in {SuspendCommand, ResumeCommand} -> [w EXCEPT !.susp = c.steps = SuspendCommand]
      [] c.steps = AddModelDialog -> [w EXCEPT !.manual = @ \cup {c.m}]
      [] c.steps = RemoveModelDialog -> [w EXCEPT !.manual = @ \ {c.m}]

SaveFills(u) ==
    LET copy == proc[u].copy IN
    /\ At(u, "fill")
    /\ \/ /\ copy.file = "registry" /\ registry' = copy.content
          /\ wish' = [wish EXCEPT ![P(u)] = Wanted(@, proc[u].arg)]
          /\ UNCHANGED prices
       \/ copy.file = "prices" /\ prices' = copy.content /\ UNCHANGED <<registry, wish>>
    /\ Done(u)
    /\ UNCHANGED <<keychain, vault, up, server, left, flips, raced, cut>>

-----------------------------------------------------------------------------
(* Secrets: the keychain if it works, else the vault.                       *)

\* get_secret: a keychain that does not work or has no entry leads to the vault.
Secret(p) == IF up /\ keychain[p] # NULL THEN keychain[p] ELSE vault[p]

\* set_secret by q; the vault is loaded and saved as a whole.
SetSecret(q, v) ==
    /\ IF up THEN /\ keychain' = [keychain EXCEPT ![P(q)] = v]
                  /\ Done(q) /\ UNCHANGED raced
             ELSE /\ Take(q, "vault", [vault EXCEPT ![P(q)] = v], <<"save_vault">> \o Rest(q))
                  /\ UNCHANGED keychain
    /\ UNCHANGED <<registry, prices, vault, up, server, left, flips, cut, wish>>

SaveVault(q) ==
    /\ At(q, "save_vault")
    /\ vault' = proc[q].copy.content
    /\ Done(q)
    /\ UNCHANGED <<registry, prices, keychain, up, server, left, flips, raced, cut, wish>>

\* The key typed by the user, or the tokens of another tool, which are current.
StoreKey(u) ==
    /\ At(u, "set")
    /\ SetSecret(u, IF proc[u].arg.key = "oauth" THEN server[P(u)] ELSE TypedKey)

\* Both stores, whether the keychain works or not.
DeleteSecret(u) ==
    /\ At(u, "delete")
    /\ keychain' = IF up THEN [keychain EXCEPT ![P(u)] = NULL] ELSE keychain
    /\ Take(u, "vault", [vault EXCEPT ![P(u)] = NULL], <<"save_vault">> \o Rest(u))
    /\ UNCHANGED <<registry, prices, vault, up, server, left, flips, cut, wish>>

Flip == /\ flips < MaxFlips /\ flips' = flips + 1
        /\ up' = ~up
        /\ UNCHANGED <<registry, prices, keychain, vault, server, proc, left, raced, cut, wish>>

-----------------------------------------------------------------------------
(* fresh_access_token, by a session whose token is about to expire          *)

RefreshTokens == {[steps |-> <<"refresh", "store">>, p |-> p, key |-> "oauth", m |-> NULL] : p \in OAuthOf}

ReadToken(s) ==
    /\ s \notin Busy /\ left > 0 /\ left' = left - 1
    /\ \E c \in RefreshTokens :
          /\ registry[c.p] # NULL /\ registry[c.p].key = "oauth" /\ Secret(c.p) \in Nat
          /\ Become(s, [Idle EXCEPT !.todo = c.steps, !.arg = c, !.token = Secret(c.p)])
          /\ Race(s, c.p)
    /\ UNCHANGED <<stores, flips, cut, wish>>

\* The server answers a token it accepts with the next, one it does not with an
\* error: the session goes without.
Refresh(s) ==
    /\ At(s, "refresh")
    /\ IF proc[s].token # server[P(s)]
         THEN Finish(s) /\ UNCHANGED server
         ELSE /\ server' = [server EXCEPT ![P(s)] = IF Rotates THEN @ + 1 ELSE @]
              /\ Become(s, [proc[s] EXCEPT !.token = server'[P(s)], !.todo = Tail(@)])
    /\ UNCHANGED <<registry, prices, keychain, vault, up, left, flips, raced, cut, wish>>

\* Mutant: the answer has no refresh token and the access token is kept alone.
StoreOldToken(s) ==
    /\ At(s, "store")
    /\ SetSecret(s, IF proc[s].token = 0 THEN 0 ELSE proc[s].token - 1)

StoreToken(s) ==
    /\ At(s, "store")
    /\ SetSecret(s, proc[s].token)

\* A process dies: its command stops where it is.
Die(q) ==
    /\ q \in Busy
    /\ cut' = cut \cup {P(q)} \cup (IF At(q, "fill") THEN {proc[q].copy.file} ELSE {})
    /\ Finish(q)
    /\ UNCHANGED <<stores, left, flips, raced, wish>>

Step(u) ==
    \/ LoadRegistry(u) \/ LoadPrices(u) \/ EditRegistry(u) \/ EditPrices(u) \/ GiveUp(u)
    \/ SaveEmpties(u) \/ SaveFills(u) \/ StoreKey(u) \/ DeleteSecret(u)

Next ==
    \/ \E u \in Users : Begin(u) \/ Step(u)
    \/ \E s \in Sessions : ReadToken(s) \/ Refresh(s) \/ StoreToken(s)
    \/ \E q \in Procs : SaveVault(q) \/ Die(q)
    \/ Flip

Spec == Init /\ [][Next]_vars

-----------------------------------------------------------------------------
(* Properties *)

\* A registered provider with a key reference has a secret, whatever dies between
\* the two files: a key is stored before its provider is saved and deleted after
\* it is gone.  Unless a user's command and another process are busy with the
\* provider, or two processes with one file.
KeysResolve ==
    \A p \in Providers :
        (registry[p] # NULL /\ registry[p].key # "none" /\ {p, "registry", "vault"} \cap raced = {})
            => keychain[p] # NULL \/ vault[p] # NULL

\* The store never keeps a token the server has replaced: not even when two
\* sessions refresh the same token, of which one is refused.  Except while a
\* session is to store one, after it died before that, when a user imported or
\* deleted tokens meanwhile, when two processes held a copy of the vault, or when
\* the keychain came or went and hides what was stored elsewhere.
TokensAccepted ==
    \A p \in OAuthOf :
        (Secret(p) \in Nat /\ flips = 0 /\ {p, "vault"} \cap raced = {} /\ p \notin cut
           /\ ~\E s \in Sessions : (At(s, "store") \/ At(s, "save_vault")) /\ P(s) = p)
            => Secret(p) = server[p]

\* What the user's commands leave of a provider stays so through the other
\* commands: it is registered, suspended or not, and keeps the models added by
\* hand, which no discovery removes.  Unless two processes held a copy of the
\* registry at once, or a death left it empty.
WishesKept ==
    \A p \in Providers :
        ("registry" \notin raced \cup cut /\ ~\E u \in Users : At(u, "fill"))
            => /\ (registry[p] # NULL) = wish[p].registered
               /\ registry[p] # NULL => /\ registry[p].susp = wish[p].susp
                                        /\ wish[p].manual = registry[p].manual

=============================================================================
