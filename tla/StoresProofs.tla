---------------------------- MODULE StoresProofs ----------------------------
(***************************************************************************)
(* What Stores promises of keys, tokens and the user's wishes, for any     *)
(* providers, users, sessions, commands and deaths.                        *)
(***************************************************************************)
EXTENDS Stores, SequenceTheorems, TLAPS

-----------------------------------------------------------------------------
(* The steps that processes have ahead.                                    *)

PlainEdits == {"register", "discover", "suspend", "resume", "add_model"}
Plain(e) == {<<"load", e, "save">>, <<e, "save">>, <<"save">>, <<"fill">>}
Keyed == <<"set", "load", "register", "save">>
KeyedAhead == {Keyed, <<"save_vault", "load", "register", "save">>}
RemoveAhead ==
    {<<"load", "remove", "save", "delete">>, <<"remove", "save", "delete">>,
     <<"save", "delete">>, <<"fill", "delete">>, <<"delete">>, <<"save_vault">>}
RemoveModelAhead ==
    {<<"load", "remove_model", "save", "load_prices", "clear_price", "save_prices">>,
     <<"remove_model", "save", "load_prices", "clear_price", "save_prices">>,
     <<"save", "load_prices", "clear_price", "save_prices">>,
     <<"fill", "load_prices", "clear_price", "save_prices">>}
PriceAhead(e) ==
    {<<"load_prices", e, "save_prices">>, <<e, "save_prices">>, <<"save_prices">>, <<"fill">>}
RefreshSteps == <<"refresh", "store">>
RefreshAhead == {RefreshSteps, <<"store">>, <<"save_vault">>}

\* A command of steps s may have steps t ahead.
Goes(s, t) ==
    \/ \E e \in PlainEdits : s = <<"load", e, "save">> /\ t \in Plain(e)
    \/ s = Keyed /\ t \in KeyedAhead \cup Plain("register")
    \/ s = RemoveCommand /\ t \in RemoveAhead
    \/ s = RemoveModelDialog /\ t \in RemoveModelAhead \cup PriceAhead("clear_price")
    \/ \E e \in {"set_price", "clear_price"} :
          s = <<"load_prices", e, "save_prices">> /\ t \in PriceAhead(e)
    \/ s = RefreshSteps /\ t \in RefreshAhead

-----------------------------------------------------------------------------
(* The inductive invariant.                                                *)

FileOf(step) ==
    CASE step \in RegistryEdits \cup {"save"} -> {"registry"}
      [] step \in {"set_price", "clear_price", "save_prices"} -> {"prices"}
      [] step = "fill" -> {"registry", "prices"}
      [] step = "save_vault" -> {"vault"}
      [] OTHER -> {}

Step1(q) == Head(proc[q].todo)

\* The commands that save the registry.
RegistryCommands ==
    {Keyed, RemoveCommand, RemoveModelDialog} \cup {<<"load", e, "save">> : e \in PlainEdits}

\* Whoever is busy gives a command, has steps of it ahead and the copy they need.
Works(q) ==
    /\ q \in Users => proc[q].arg \in Commands
    /\ q \in Sessions => proc[q].arg \in RefreshTokens /\ proc[q].token \in Nat
    /\ Goes(proc[q].arg.steps, proc[q].todo)
    /\ proc[q].copy \in Copies \cup {NULL}
    /\ FileOf(Step1(q)) # {} => proc[q].copy # NULL /\ proc[q].copy.file \in FileOf(Step1(q))
    /\ At(q, "fill") /\ proc[q].copy.file = "registry" => proc[q].arg.steps \in RegistryCommands
    /\ At(q, "fill") /\ proc[q].copy.file = "prices" => proc[q].arg.steps # RemoveCommand

Fields == {"todo", "arg", "copy", "token"}
Working ==
    /\ DOMAIN proc = Procs /\ \A q \in Procs : DOMAIN proc[q] = Fields
    /\ \A q \in Busy : Works(q)

WishTypes == [registered : BOOLEAN, susp : BOOLEAN, manual : SUBSET Models]

TypeOK ==
    /\ registry \in [Providers -> Entries \cup {NULL}] /\ prices \in [Providers -> SUBSET Models]
    /\ keychain \in [Providers -> Secrets \cup {NULL}] /\ vault \in [Providers -> Secrets \cup {NULL}]
    /\ up \in BOOLEAN /\ server \in [Providers -> Nat] /\ flips \in Nat
    /\ wish \in [Providers -> WishTypes]
    /\ Working

\* Who is busy with a provider, and who has a copy of a file, that was not raced.
Apart ==
    /\ \A p \in Providers \ raced : \A q, r \in Busy :
          P(q) = p /\ P(r) = p => q = r \/ {q, r} \cap Users = {}
    /\ \A file \in {"registry", "prices", "vault"} \ raced : \A q, r \in Holding(file) : q = r

Content(q) == proc[q].copy.content
Kept(p) == keychain[p] # NULL \/ vault[p] # NULL
Needs(e) == e # NULL /\ e.key # "none"
Removing(q) == At(q, "delete") \/ (At(q, "save_vault") /\ proc[q].arg.key = "none")

\* A copy of the vault differs from it in one provider only.
Vaults ==
    "vault" \notin raced => \A q \in Holding("vault") : \A p \in Providers :
        p # P(q) => Content(q)[p] = vault[p]

\* What is so of q and the provider it is busy with.
Careful(q) ==
    LET p == P(q) IN
    /\ At(q, "save_vault") /\ ~Removing(q) => Content(q)[p] # NULL
    /\ Removing(q) => registry[p] = NULL /\ \A r \in Holding("registry") : Content(r)[p] = NULL
    /\ proc[q].arg.key # "none" /\ Step1(q) \in {"load", "register", "save", "fill"} => Kept(p)
    /\ proc[q].arg.steps = RemoveCommand /\ Step1(q) \in {"save", "fill"} => Content(q)[p] = NULL

\* Keys are there before they are needed, and go when they are not.
KeysOf(p) ==
    /\ Needs(registry[p]) => Kept(p)
    /\ \A q \in Holding("registry") : Needs(Content(q)[p]) => Kept(p)
    /\ \A q \in Busy : P(q) = p => Careful(q)
Keys == \A p \in Providers : {p, "registry", "vault"} \cap raced = {} => KeysOf(p)

Storing(s, p) == s \in Busy /\ P(s) = p /\ (At(s, "store") \/ At(s, "save_vault"))
Refreshing(s, p) == s \in Busy /\ P(s) = p /\ At(s, "refresh")

\* As long as the keychain is steady, one of the stores is not used.
Steady ==
    flips = 0 =>
        /\ up => vault = NoEntries /\ \A q \in Holding("vault") : Content(q) = NoEntries
        /\ ~up => keychain = NoEntries

\* Tokens are the server's or older, and who is to store one has the server's.
TokensOf(p) ==
    /\ Secret(p) \in Nat => Secret(p) <= server[p]
    /\ \A s \in Sessions : Refreshing(s, p) => proc[s].token <= server[p]
    /\ (\A s \in Sessions : ~Storing(s, p)) /\ Secret(p) \in Nat => Secret(p) = server[p]
    /\ \A s \in Sessions : Storing(s, p) =>
         /\ proc[s].token = server[p]
         /\ At(s, "save_vault") => Content(s)[p] = server[p]
         /\ Rotates => /\ Secret(p) \in Nat => Secret(p) # server[p]
                       /\ \A r \in Sessions : Refreshing(r, p) => proc[r].token # server[p]
                       /\ \A r \in Sessions : Storing(r, p) => r = s
    /\ \A u \in Users : u \in Busy /\ P(u) = p /\ At(u, "save_vault") =>
         Content(u)[p] \in {NULL, TypedKey, server[p]}
Tokens ==
    \A p \in OAuthOf : flips = 0 /\ {p, "vault"} \cap raced = {} /\ p \notin cut => TokensOf(p)

Agrees(e, w) ==
    /\ (e # NULL) = w.registered
    /\ e # NULL => e.susp = w.susp /\ e.manual = w.manual
Filling == {q \in Holding("registry") : At(q, "fill")}

\* The registry, or the copy it is about to be filled with, is what was wished.
Wishes ==
    "registry" \notin raced \cup cut =>
        /\ Filling = {} => \A p \in Providers : Agrees(registry[p], wish[p])
        /\ \A q \in Holding("registry") :
             /\ Step1(q) \in RegistryEdits => \A p \in Providers : Agrees(Content(q)[p], wish[p])
             /\ Step1(q) \in {"save", "fill"} =>
                  /\ \A p \in Providers : p # P(q) => Agrees(Content(q)[p], wish[p])
                  /\ Agrees(Content(q)[P(q)], Wanted(wish[P(q)], proc[q].arg))

Stored == TypeOK /\ Apart /\ Vaults /\ Keys /\ Steady /\ Tokens /\ Wishes

-----------------------------------------------------------------------------
(* Sequences of steps.                                                     *)

LEMMA Tuples ==
    /\ \A a : Head(<<a>>) = a /\ Tail(<<a>>) = <<>>
    /\ \A a, b : Head(<<a, b>>) = a /\ Tail(<<a, b>>) = <<b>> /\ <<a>> \o <<b>> = <<a, b>>
    /\ \A a, b, c : /\ Head(<<a, b, c>>) = a /\ Tail(<<a, b, c>>) = <<b, c>>
                    /\ <<a>> \o <<b, c>> = <<a, b, c>>
    /\ \A a, b, c, d : Head(<<a, b, c, d>>) = a /\ Tail(<<a, b, c, d>>) = <<b, c, d>>
    /\ \A a, b, c, d, e :
         Head(<<a, b, c, d, e>>) = a /\ Tail(<<a, b, c, d, e>>) = <<b, c, d, e>>
    /\ \A a, b, c, d, e, f :
         Head(<<a, b, c, d, e, f>>) = a /\ Tail(<<a, b, c, d, e, f>>) = <<b, c, d, e, f>>
    /\ \A a, b, c, d : <<a>> \o <<b, c, d>> = <<a, b, c, d>>
    /\ \A a : <<a>> \o <<>> = <<a>>
<1>1. \A a : Head(<<a>>) = a /\ Tail(<<a>>) = <<>>
  OBVIOUS
<1>2. \A a, b : Head(<<a, b>>) = a /\ Tail(<<a, b>>) = <<b>>
  OBVIOUS
<1>3. \A a, b, c : Head(<<a, b, c>>) = a /\ Tail(<<a, b, c>>) = <<b, c>>
  OBVIOUS
<1>4. \A a, b, c, d : Head(<<a, b, c, d>>) = a /\ Tail(<<a, b, c, d>>) = <<b, c, d>>
  OBVIOUS
<1>5. \A a, b, c, d, e : Head(<<a, b, c, d, e>>) = a /\ Tail(<<a, b, c, d, e>>) = <<b, c, d, e>>
  OBVIOUS
<1>6. ASSUME NEW a, NEW b PROVE <<a>> \o <<b>> = <<a, b>>
  <2>1. <<a>> \in Seq({a, b}) /\ <<b>> \in Seq({a, b}) /\ <<a, b>> \in Seq({a, b})
    OBVIOUS
  <2>2. /\ <<a>> \o <<b>> \in Seq({a, b}) /\ Len(<<a>> \o <<b>>) = 2
        /\ \A i \in 1 .. 2 : (<<a>> \o <<b>>)[i] = IF i <= 1 THEN <<a>>[i] ELSE <<b>>[i - 1]
    BY <2>1, ConcatProperties
  <2>3. Len(<<a, b>>) = 2 /\ \A i \in 1 .. 2 : (<<a>> \o <<b>>)[i] = <<a, b>>[i]
    BY <2>2
  <2> QED BY <2>1, <2>2, <2>3, SeqEqual
<1>7. ASSUME NEW a, NEW b, NEW c PROVE <<a>> \o <<b, c>> = <<a, b, c>>
  <2>1. <<a>> \in Seq({a, b, c}) /\ <<b, c>> \in Seq({a, b, c}) /\ <<a, b, c>> \in Seq({a, b, c})
    OBVIOUS
  <2>2. /\ <<a>> \o <<b, c>> \in Seq({a, b, c}) /\ Len(<<a>> \o <<b, c>>) = 3
        /\ \A i \in 1 .. 3 : (<<a>> \o <<b, c>>)[i] = IF i <= 1 THEN <<a>>[i] ELSE <<b, c>>[i - 1]
    BY <2>1, ConcatProperties
  <2>3. Len(<<a, b, c>>) = 3 /\ \A i \in 1 .. 3 : (<<a>> \o <<b, c>>)[i] = <<a, b, c>>[i]
    BY <2>2
  <2> QED BY <2>1, <2>2, <2>3, SeqEqual
<1>8. ASSUME NEW a, NEW b, NEW c, NEW d PROVE <<a>> \o <<b, c, d>> = <<a, b, c, d>>
  <2> DEFINE S == {a, b, c, d}
  <2>1. <<a>> \in Seq(S) /\ <<b, c, d>> \in Seq(S) /\ <<a, b, c, d>> \in Seq(S)
    OBVIOUS
  <2>2. /\ <<a>> \o <<b, c, d>> \in Seq(S) /\ Len(<<a>> \o <<b, c, d>>) = 4
        /\ \A i \in 1 .. 4 : (<<a>> \o <<b, c, d>>)[i] = IF i <= 1 THEN <<a>>[i] ELSE <<b, c, d>>[i - 1]
    BY <2>1, ConcatProperties
  <2>3. Len(<<a, b, c, d>>) = 4 /\ \A i \in 1 .. 4 : (<<a>> \o <<b, c, d>>)[i] = <<a, b, c, d>>[i]
    BY <2>2
  <2> QED BY <2>1, <2>2, <2>3, SeqEqual
<1>9. \A a : <<a>> \o <<>> = <<a>>
  OBVIOUS
<1>10. \A a, b, c, d, e, f : Head(<<a, b, c, d, e, f>>) = a /\ Tail(<<a, b, c, d, e, f>>) = <<b, c, d, e, f>>
  OBVIOUS
<1> QED BY <1>1, <1>2, <1>3, <1>4, <1>5, <1>6, <1>7, <1>8, <1>9, <1>10

\* What may follow a step of a command.
Follows(s, t) ==
    /\ Head(t) = "set" => /\ s = Keyed /\ Goes(s, Tail(t)) /\ Head(Tail(t)) = "load"
                          /\ Goes(s, <<"save_vault">> \o Tail(t))
    /\ Head(t) = "save_vault" =>
         \/ s # Keyed /\ Tail(t) = <<>>
         \/ s = Keyed /\ Goes(s, Tail(t)) /\ Head(Tail(t)) = "load"
    /\ Head(t) = "load" => Goes(s, Tail(t)) /\ Head(Tail(t)) \in RegistryEdits
    /\ Head(t) \in RegistryEdits =>
         /\ Goes(s, Tail(t)) /\ Head(Tail(t)) = "save"
         /\ \/ s = <<"load", Head(t), "save">> /\ Head(t) \in PlainEdits
            \/ s = Keyed /\ Head(t) = "register"
            \/ s = RemoveCommand /\ Head(t) = "remove"
            \/ s = RemoveModelDialog /\ Head(t) = "remove_model"
    /\ Head(t) \in {"save", "save_prices"} => Goes(s, <<"fill">> \o Tail(t))
    /\ Head(t) \in RegistryEdits \cup {"save"} => s \in RegistryCommands
    /\ Head(t) = "save_prices" => s # RemoveCommand /\ s # Keyed
    /\ Head(t) = "fill" => \/ Tail(t) = <<>> /\ s # RemoveCommand
                           \/ Goes(s, Tail(t)) /\ Head(Tail(t)) = "load_prices" /\ s # RemoveCommand
                           \/ Goes(s, Tail(t)) /\ Head(Tail(t)) = "delete" /\ s = RemoveCommand
    /\ Head(t) = "load_prices" => Goes(s, Tail(t)) /\ Head(Tail(t)) \in {"set_price", "clear_price"}
    /\ Head(t) \in {"set_price", "clear_price"} =>
         /\ Goes(s, Tail(t)) /\ Head(Tail(t)) = "save_prices"
         /\ s = <<"load_prices", Head(t), "save_prices">> \/ s = RemoveModelDialog
    /\ Head(t) = "delete" => s = RemoveCommand /\ Tail(t) = <<>> /\ Goes(s, <<"save_vault">> \o Tail(t))
    /\ Head(t) = "refresh" => s = RefreshSteps /\ Goes(s, Tail(t)) /\ Head(Tail(t)) = "store"
    /\ s = RefreshSteps => Head(t) \in {"refresh", "store", "save_vault"}
    /\ Head(t) = "store" => s = RefreshSteps /\ Tail(t) = <<>> /\ Goes(s, <<"save_vault">> \o Tail(t))

\* Commands of different edits differ.
LEMMA CommandsDiffer ==
    /\ \A d, e : <<"load", d, "save">> = <<"load", e, "save">> => d = e
    /\ \A e : <<"load", e, "save">> \notin {Keyed, RemoveCommand, RemoveModelDialog, RefreshSteps}
    /\ \A d, e : <<"load", e, "save">> # <<"load_prices", d, "save_prices">>
    /\ \A e : <<"load_prices", e, "save_prices">> \notin
          {Keyed, RemoveCommand, RemoveModelDialog, RefreshSteps}
    /\ Keyed # RemoveCommand /\ Keyed # RemoveModelDialog /\ Keyed # RefreshSteps
    /\ RemoveCommand # RemoveModelDialog /\ RemoveCommand # RefreshSteps
    /\ RemoveModelDialog # RefreshSteps
<1>1. \A d, e : <<"load", d, "save">> = <<"load", e, "save">> => d = e
  OBVIOUS
<1>2. \A e : /\ <<"load", e, "save">>[1] = "load" /\ <<"load_prices", e, "save_prices">>[1] = "load_prices"
             /\ Len(<<"load", e, "save">>) = 3 /\ Len(<<"load_prices", e, "save_prices">>) = 3
  OBVIOUS
<1>3. /\ Len(Keyed) = 4 /\ Keyed[1] = "set"
      /\ Len(RemoveCommand) = 4 /\ RemoveCommand[1] = "load"
      /\ Len(RemoveModelDialog) = 6 /\ Len(RefreshSteps) = 2
  BY DEF Keyed, RemoveCommand, RemoveModelDialog, RefreshSteps
<1>4. "set" # "load" /\ "load" # "load_prices"
  OBVIOUS
<1>5. ASSUME NEW e PROVE <<"load", e, "save">> \notin {Keyed, RemoveCommand, RemoveModelDialog, RefreshSteps}
  <2>1. Len(<<"load", e, "save">>) = 3
    BY <1>2
  <2> QED BY <1>3, <2>1
<1>6. ASSUME NEW d, NEW e PROVE <<"load", e, "save">> # <<"load_prices", d, "save_prices">>
  <2>1. <<"load", e, "save">>[1] = "load" /\ <<"load_prices", d, "save_prices">>[1] = "load_prices"
    BY <1>2
  <2> QED BY <1>4, <2>1
<1>7. ASSUME NEW e
      PROVE  <<"load_prices", e, "save_prices">> \notin {Keyed, RemoveCommand, RemoveModelDialog, RefreshSteps}
  <2>1. Len(<<"load_prices", e, "save_prices">>) = 3
    BY <1>2
  <2> QED BY <1>3, <2>1
<1>8. Keyed # RemoveCommand
  BY <1>3, <1>4
<1>9. /\ Keyed # RemoveModelDialog /\ Keyed # RefreshSteps
      /\ RemoveCommand # RemoveModelDialog /\ RemoveCommand # RefreshSteps
      /\ RemoveModelDialog # RefreshSteps
  BY <1>3
<1> QED BY <1>1, <1>5, <1>6, <1>7, <1>8, <1>9

LEMMA Steps ==
    ASSUME NEW s, NEW t, Goes(s, t)
    PROVE  t # <<>> /\ Follows(s, t)
<1>1. CASE \E e \in PlainEdits : s = <<"load", e, "save">> /\ t \in Plain(e)
  <2>0. PICK e \in PlainEdits : s = <<"load", e, "save">> /\ t \in Plain(e)
    BY <1>1
  <2>g. \A x \in Plain(e) : Goes(s, x)
    BY <2>0 DEF Goes
  <2>d. s # RemoveCommand /\ s # RefreshSteps
    BY <2>0, CommandsDiffer
  <2>1. CASE t = <<"load", e, "save">>
    <3>1. t # <<>> /\ Head(t) = "load" /\ Tail(t) = <<e, "save">>
      BY <2>1
    <3>2. /\ Goes(s, <<e, "save">>) /\ Head(<<e, "save">>) = e
      BY <2>g, Tuples DEF Plain, PlainEdits
    <3> QED BY <3>1, <3>2, <2>d, <2>0 DEF Follows, RegistryEdits, PlainEdits, RegistryCommands
  <2>2. CASE t = <<e, "save">>
    <3>1. t # <<>> /\ Head(t) = e /\ Tail(t) = <<"save">>
      BY <2>2
    <3>2. /\ Goes(s, <<"save">>) /\ Head(<<"save">>) = "save"
      BY <2>g, Tuples DEF Plain, PlainEdits
    <3> QED BY <3>1, <3>2, <2>d, <2>0 DEF Follows, RegistryEdits, PlainEdits, RegistryCommands
  <2>3. CASE t = <<"save">>
    <3>1. t # <<>> /\ Head(t) = "save" /\ Tail(t) = <<>>
      BY <2>3
    <3>2. /\ <<"fill">> \o <<>> = <<"fill">> /\ Goes(s, <<"fill">>)
      BY <2>g, Tuples DEF Plain, PlainEdits
    <3> QED BY <3>1, <3>2, <2>d, <2>0 DEF Follows, RegistryEdits, PlainEdits, RegistryCommands
  <2>4. CASE t = <<"fill">>
    <3>1. t # <<>> /\ Head(t) = "fill" /\ Tail(t) = <<>>
      BY <2>4
    <3> QED BY <3>1, <2>d, <2>0 DEF Follows, RegistryEdits, PlainEdits, RegistryCommands
  <2> QED BY <2>0, <2>1, <2>2, <2>3, <2>4 DEF Plain, PlainEdits
<1>2. CASE s = Keyed /\ t \in KeyedAhead \cup Plain("register")
  <2>g. \A x \in KeyedAhead \cup Plain("register") : Goes(s, x)
    BY <1>2 DEF Goes
  <2>d. s # RemoveCommand /\ s # RefreshSteps
    BY <1>2, CommandsDiffer
  <2>1. CASE t = <<"set", "load", "register", "save">>
    <3>1. t # <<>> /\ Head(t) = "set" /\ Tail(t) = <<"load", "register", "save">>
      BY <2>1
    <3>2. /\ <<"save_vault">> \o <<"load", "register", "save">> = <<"save_vault", "load", "register", "save">> /\ Goes(s, <<"save_vault", "load", "register", "save">>)
          /\ Goes(s, <<"load", "register", "save">>) /\ Head(<<"load", "register", "save">>) = "load"
      BY <2>g, Tuples DEF KeyedAhead, Plain, Keyed
    <3> QED BY <3>1, <3>2, <2>d, <1>2 DEF Follows, RegistryEdits, PlainEdits, RegistryCommands
  <2>2. CASE t = <<"save_vault", "load", "register", "save">>
    <3>1. t # <<>> /\ Head(t) = "save_vault" /\ Tail(t) = <<"load", "register", "save">>
      BY <2>2
    <3>2. /\ Goes(s, <<"load", "register", "save">>) /\ Head(<<"load", "register", "save">>) = "load"
      BY <2>g, Tuples DEF KeyedAhead, Plain, Keyed
    <3> QED BY <3>1, <3>2, <2>d, <1>2 DEF Follows, RegistryEdits, PlainEdits, RegistryCommands
  <2>3. CASE t = <<"load", "register", "save">>
    <3>1. t # <<>> /\ Head(t) = "load" /\ Tail(t) = <<"register", "save">>
      BY <2>3
    <3>2. /\ Goes(s, <<"register", "save">>) /\ Head(<<"register", "save">>) = "register"
      BY <2>g, Tuples DEF KeyedAhead, Plain, Keyed
    <3> QED BY <3>1, <3>2, <2>d, <1>2 DEF Follows, RegistryEdits, PlainEdits, RegistryCommands
  <2>4. CASE t = <<"register", "save">>
    <3>1. t # <<>> /\ Head(t) = "register" /\ Tail(t) = <<"save">>
      BY <2>4
    <3>2. /\ Goes(s, <<"save">>) /\ Head(<<"save">>) = "save"
      BY <2>g, Tuples DEF KeyedAhead, Plain, Keyed
    <3> QED BY <3>1, <3>2, <2>d, <1>2 DEF Follows, RegistryEdits, PlainEdits, RegistryCommands
  <2>5. CASE t = <<"save">>
    <3>1. t # <<>> /\ Head(t) = "save" /\ Tail(t) = <<>>
      BY <2>5
    <3>2. /\ <<"fill">> \o <<>> = <<"fill">> /\ Goes(s, <<"fill">>)
      BY <2>g, Tuples DEF KeyedAhead, Plain, Keyed
    <3> QED BY <3>1, <3>2, <2>d, <1>2 DEF Follows, RegistryEdits, PlainEdits, RegistryCommands
  <2>6. CASE t = <<"fill">>
    <3>1. t # <<>> /\ Head(t) = "fill" /\ Tail(t) = <<>>
      BY <2>6
    <3> QED BY <3>1, <2>d, <1>2 DEF Follows, RegistryEdits, PlainEdits, RegistryCommands
  <2> QED BY <1>2, <2>1, <2>2, <2>3, <2>4, <2>5, <2>6 DEF KeyedAhead, Plain, Keyed
<1>3. CASE s = RemoveCommand /\ t \in RemoveAhead
  <2>g. \A x \in RemoveAhead : Goes(s, x)
    BY <1>3 DEF Goes
  <2>d. s # RefreshSteps
    BY <1>3, CommandsDiffer
  <2>1. CASE t = <<"load", "remove", "save", "delete">>
    <3>1. t # <<>> /\ Head(t) = "load" /\ Tail(t) = <<"remove", "save", "delete">>
      BY <2>1
    <3>2. /\ Goes(s, <<"remove", "save", "delete">>) /\ Head(<<"remove", "save", "delete">>) = "remove"
      BY <2>g, Tuples DEF RemoveAhead
    <3> QED BY <3>1, <3>2, <2>d, <1>3 DEF Follows, RegistryEdits, PlainEdits, RegistryCommands
  <2>2. CASE t = <<"remove", "save", "delete">>
    <3>1. t # <<>> /\ Head(t) = "remove" /\ Tail(t) = <<"save", "delete">>
      BY <2>2
    <3>2. /\ Goes(s, <<"save", "delete">>) /\ Head(<<"save", "delete">>) = "save"
      BY <2>g, Tuples DEF RemoveAhead
    <3> QED BY <3>1, <3>2, <2>d, <1>3 DEF Follows, RegistryEdits, PlainEdits, RegistryCommands
  <2>3. CASE t = <<"save", "delete">>
    <3>1. t # <<>> /\ Head(t) = "save" /\ Tail(t) = <<"delete">>
      BY <2>3
    <3>2. /\ <<"fill">> \o <<"delete">> = <<"fill", "delete">> /\ Goes(s, <<"fill", "delete">>)
          /\ Goes(s, <<"delete">>) /\ Head(<<"delete">>) = "delete"
      BY <2>g, Tuples DEF RemoveAhead
    <3> QED BY <3>1, <3>2, <2>d, <1>3 DEF Follows, RegistryEdits, PlainEdits, RegistryCommands
  <2>4. CASE t = <<"fill", "delete">>
    <3>1. t # <<>> /\ Head(t) = "fill" /\ Tail(t) = <<"delete">>
      BY <2>4
    <3>2. /\ Goes(s, <<"delete">>) /\ Head(<<"delete">>) = "delete"
      BY <2>g, Tuples DEF RemoveAhead
    <3> QED BY <3>1, <3>2, <2>d, <1>3 DEF Follows, RegistryEdits, PlainEdits, RegistryCommands
  <2>5. CASE t = <<"delete">>
    <3>1. t # <<>> /\ Head(t) = "delete" /\ Tail(t) = <<>>
      BY <2>5
    <3>2. /\ <<"save_vault">> \o <<>> = <<"save_vault">> /\ Goes(s, <<"save_vault">>)
      BY <2>g, Tuples DEF RemoveAhead
    <3> QED BY <3>1, <3>2, <2>d, <1>3 DEF Follows, RegistryEdits, PlainEdits, RegistryCommands
  <2>6. CASE t = <<"save_vault">>
    <3>1. t # <<>> /\ Head(t) = "save_vault" /\ Tail(t) = <<>>
      BY <2>6
    <3> QED BY <3>1, <2>d, <1>3, CommandsDiffer DEF Follows, RegistryEdits, PlainEdits, RegistryCommands
  <2> QED BY <1>3, <2>1, <2>2, <2>3, <2>4, <2>5, <2>6 DEF RemoveAhead
<1>4. CASE s = RemoveModelDialog /\ t \in RemoveModelAhead \cup PriceAhead("clear_price")
  <2>g. \A x \in RemoveModelAhead \cup PriceAhead("clear_price") : Goes(s, x)
    BY <1>4 DEF Goes
  <2>d. s # RemoveCommand /\ s # RefreshSteps /\ s # Keyed
    BY <1>4, CommandsDiffer
  <2>1. CASE t = <<"load", "remove_model", "save", "load_prices", "clear_price", "save_prices">>
    <3>1. t # <<>> /\ Head(t) = "load" /\ Tail(t) = <<"remove_model", "save", "load_prices", "clear_price", "save_prices">>
      BY <2>1
    <3>2. /\ Goes(s, <<"remove_model", "save", "load_prices", "clear_price", "save_prices">>) /\ Head(<<"remove_model", "save", "load_prices", "clear_price", "save_prices">>) = "remove_model"
      BY <2>g, Tuples DEF RemoveModelAhead, PriceAhead
    <3> QED BY <3>1, <3>2, <2>d, <1>4 DEF Follows, RegistryEdits, PlainEdits, RegistryCommands
  <2>2. CASE t = <<"remove_model", "save", "load_prices", "clear_price", "save_prices">>
    <3>1. t # <<>> /\ Head(t) = "remove_model" /\ Tail(t) = <<"save", "load_prices", "clear_price", "save_prices">>
      BY <2>2
    <3>2. /\ Goes(s, <<"save", "load_prices", "clear_price", "save_prices">>) /\ Head(<<"save", "load_prices", "clear_price", "save_prices">>) = "save"
      BY <2>g, Tuples DEF RemoveModelAhead, PriceAhead
    <3> QED BY <3>1, <3>2, <2>d, <1>4 DEF Follows, RegistryEdits, PlainEdits, RegistryCommands
  <2>3. CASE t = <<"save", "load_prices", "clear_price", "save_prices">>
    <3>1. t # <<>> /\ Head(t) = "save" /\ Tail(t) = <<"load_prices", "clear_price", "save_prices">>
      BY <2>3
    <3>2. /\ <<"fill">> \o <<"load_prices", "clear_price", "save_prices">> = <<"fill", "load_prices", "clear_price", "save_prices">> /\ Goes(s, <<"fill", "load_prices", "clear_price", "save_prices">>)
          /\ Goes(s, <<"load_prices", "clear_price", "save_prices">>) /\ Head(<<"load_prices", "clear_price", "save_prices">>) = "load_prices"
      BY <2>g, Tuples DEF RemoveModelAhead, PriceAhead
    <3> QED BY <3>1, <3>2, <2>d, <1>4 DEF Follows, RegistryEdits, PlainEdits, RegistryCommands
  <2>4. CASE t = <<"fill", "load_prices", "clear_price", "save_prices">>
    <3>1. t # <<>> /\ Head(t) = "fill" /\ Tail(t) = <<"load_prices", "clear_price", "save_prices">>
      BY <2>4
    <3>2. /\ Goes(s, <<"load_prices", "clear_price", "save_prices">>) /\ Head(<<"load_prices", "clear_price", "save_prices">>) = "load_prices"
      BY <2>g, Tuples DEF RemoveModelAhead, PriceAhead
    <3> QED BY <3>1, <3>2, <2>d, <1>4 DEF Follows, RegistryEdits, PlainEdits, RegistryCommands
  <2>5. CASE t = <<"load_prices", "clear_price", "save_prices">>
    <3>1. t # <<>> /\ Head(t) = "load_prices" /\ Tail(t) = <<"clear_price", "save_prices">>
      BY <2>5
    <3>2. /\ Goes(s, <<"clear_price", "save_prices">>) /\ Head(<<"clear_price", "save_prices">>) = "clear_price"
      BY <2>g, Tuples DEF RemoveModelAhead, PriceAhead
    <3> QED BY <3>1, <3>2, <2>d, <1>4 DEF Follows, RegistryEdits, PlainEdits, RegistryCommands
  <2>6. CASE t = <<"clear_price", "save_prices">>
    <3>1. t # <<>> /\ Head(t) = "clear_price" /\ Tail(t) = <<"save_prices">>
      BY <2>6
    <3>2. /\ Goes(s, <<"save_prices">>) /\ Head(<<"save_prices">>) = "save_prices"
      BY <2>g, Tuples DEF RemoveModelAhead, PriceAhead
    <3> QED BY <3>1, <3>2, <2>d, <1>4 DEF Follows, RegistryEdits, PlainEdits, RegistryCommands
  <2>7. CASE t = <<"save_prices">>
    <3>1. t # <<>> /\ Head(t) = "save_prices" /\ Tail(t) = <<>>
      BY <2>7
    <3>2. /\ <<"fill">> \o <<>> = <<"fill">> /\ Goes(s, <<"fill">>)
      BY <2>g, Tuples DEF RemoveModelAhead, PriceAhead
    <3> QED BY <3>1, <3>2, <2>d, <1>4 DEF Follows, RegistryEdits, PlainEdits, RegistryCommands
  <2>8. CASE t = <<"fill">>
    <3>1. t # <<>> /\ Head(t) = "fill" /\ Tail(t) = <<>>
      BY <2>8
    <3> QED BY <3>1, <2>d, <1>4 DEF Follows, RegistryEdits, PlainEdits, RegistryCommands
  <2> QED BY <1>4, <2>1, <2>2, <2>3, <2>4, <2>5, <2>6, <2>7, <2>8 DEF RemoveModelAhead, PriceAhead
<1>5. CASE \E e \in {"set_price", "clear_price"} : s = <<"load_prices", e, "save_prices">> /\ t \in PriceAhead(e)
  <2>0. PICK e \in {"set_price", "clear_price"} : s = <<"load_prices", e, "save_prices">> /\ t \in PriceAhead(e)
    BY <1>5
  <2>g. \A x \in PriceAhead(e) : Goes(s, x)
    BY <2>0 DEF Goes
  <2>d. s # RemoveCommand /\ s # RefreshSteps /\ s # Keyed
    BY <2>0, CommandsDiffer
  <2>1. CASE t = <<"load_prices", e, "save_prices">>
    <3>1. t # <<>> /\ Head(t) = "load_prices" /\ Tail(t) = <<e, "save_prices">>
      BY <2>1
    <3>2. /\ Goes(s, <<e, "save_prices">>) /\ Head(<<e, "save_prices">>) = e
      BY <2>g, Tuples DEF PriceAhead
    <3> QED BY <3>1, <3>2, <2>d, <2>0 DEF Follows, RegistryEdits, PlainEdits, RegistryCommands
  <2>2. CASE t = <<e, "save_prices">>
    <3>1. t # <<>> /\ Head(t) = e /\ Tail(t) = <<"save_prices">>
      BY <2>2
    <3>2. /\ Goes(s, <<"save_prices">>) /\ Head(<<"save_prices">>) = "save_prices"
      BY <2>g, Tuples DEF PriceAhead
    <3> QED BY <3>1, <3>2, <2>d, <2>0 DEF Follows, RegistryEdits, PlainEdits, RegistryCommands
  <2>3. CASE t = <<"save_prices">>
    <3>1. t # <<>> /\ Head(t) = "save_prices" /\ Tail(t) = <<>>
      BY <2>3
    <3>2. /\ <<"fill">> \o <<>> = <<"fill">> /\ Goes(s, <<"fill">>)
      BY <2>g, Tuples DEF PriceAhead
    <3> QED BY <3>1, <3>2, <2>d, <2>0 DEF Follows, RegistryEdits, PlainEdits, RegistryCommands
  <2>4. CASE t = <<"fill">>
    <3>1. t # <<>> /\ Head(t) = "fill" /\ Tail(t) = <<>>
      BY <2>4
    <3> QED BY <3>1, <2>d, <2>0 DEF Follows, RegistryEdits, PlainEdits, RegistryCommands
  <2> QED BY <2>0, <2>1, <2>2, <2>3, <2>4 DEF PriceAhead
<1>6. CASE s = RefreshSteps /\ t \in RefreshAhead
  <2>g. \A x \in RefreshAhead : Goes(s, x)
    BY <1>6 DEF Goes
  <2>d. s # RemoveCommand
    BY <1>6, CommandsDiffer
  <2>1. CASE t = <<"refresh", "store">>
    <3>1. t # <<>> /\ Head(t) = "refresh" /\ Tail(t) = <<"store">>
      BY <2>1
    <3>2. /\ Goes(s, <<"store">>) /\ Head(<<"store">>) = "store"
      BY <2>g, Tuples DEF RefreshAhead, RefreshSteps
    <3> QED BY <3>1, <3>2, <2>d, <1>6 DEF Follows, RegistryEdits, PlainEdits, RegistryCommands
  <2>2. CASE t = <<"store">>
    <3>1. t # <<>> /\ Head(t) = "store" /\ Tail(t) = <<>>
      BY <2>2
    <3>2. /\ <<"save_vault">> \o <<>> = <<"save_vault">> /\ Goes(s, <<"save_vault">>)
      BY <2>g, Tuples DEF RefreshAhead, RefreshSteps
    <3> QED BY <3>1, <3>2, <2>d, <1>6 DEF Follows, RegistryEdits, PlainEdits, RegistryCommands
  <2>3. CASE t = <<"save_vault">>
    <3>1. t # <<>> /\ Head(t) = "save_vault" /\ Tail(t) = <<>>
      BY <2>3
    <3> QED BY <3>1, <2>d, <1>6, CommandsDiffer DEF Follows, RegistryEdits, PlainEdits, RegistryCommands
  <2> QED BY <1>6, <2>1, <2>2, <2>3 DEF RefreshAhead, RefreshSteps
<1> QED BY <1>1, <1>2, <1>3, <1>4, <1>5, <1>6 DEF Goes

-----------------------------------------------------------------------------
(* Commands, and the process that gives one.                               *)

LEMMA AddSteps == AddCommand("none") = <<"load", "register", "save">>
                  /\ \A k : k # "none" => AddCommand(k) = Keyed
<1>1. AddCommand("none") = <<>> \o <<"load", "register", "save">>
  BY DEF AddCommand
<1>2. <<>> \o <<"load", "register", "save">> = <<"load", "register", "save">>
  OBVIOUS
<1>3. ASSUME NEW k, k # "none" PROVE AddCommand(k) = Keyed
  <2>1. AddCommand(k) = <<"set">> \o <<"load", "register", "save">>
    BY <1>3 DEF AddCommand
  <2> QED BY <2>1, Tuples DEF Keyed
<1> QED BY <1>1, <1>2, <1>3

ModelCommands == {<<"load", "add_model", "save">>, RemoveModelDialog}
                   \cup {<<"load_prices", e, "save_prices">> : e \in {"set_price", "clear_price"}}
StepsOfCommands == RegistryCommands \cup ModelCommands

LEMMA OfCommands ==
    ASSUME NEW c \in Commands
    PROVE  /\ c.p \in Providers /\ c.key \in KeyKinds
           /\ c.steps \in StepsOfCommands
           /\ c.steps \in ModelCommands => c.m \in Models
           /\ c.key # "none" <=> c.steps = Keyed
<1>1. \A k \in KeyKinds : AddCommand(k) \in {Keyed, <<"load", "register", "save">>}
                           /\ (k # "none" <=> AddCommand(k) = Keyed)
  BY AddSteps, CommandsDiffer
<1>2. \A e \in {"register", "remove", "discover", "suspend", "resume", "add_model"} :
         <<"load", e, "save">> # Keyed
  BY CommandsDiffer
<1>3. CASE \E p \in Providers, k \in KeyKinds : c = [steps |-> AddCommand(k), p |-> p, key |-> k, m |-> NULL]
  <2>1. PICK p \in Providers, k \in KeyKinds : c = [steps |-> AddCommand(k), p |-> p, key |-> k, m |-> NULL]
    BY <1>3
  <2>2. c.p = p /\ c.key = k /\ c.steps = AddCommand(k)
    BY <2>1
  <2>3. c.steps \notin ModelCommands
    BY <2>2, <1>1, CommandsDiffer DEF ModelCommands
  <2> QED BY <2>2, <2>3, <1>1 DEF StepsOfCommands, RegistryCommands, PlainEdits
<1>4. CASE \E p \in Providers, s \in {RemoveCommand, ModelsCommand, SuspendCommand, ResumeCommand,
                                      DetectCommand} :
              c = [steps |-> s, p |-> p, key |-> "none", m |-> NULL]
  <2>1. PICK p \in Providers, s \in {RemoveCommand, ModelsCommand, SuspendCommand, ResumeCommand, DetectCommand} :
            c = [steps |-> s, p |-> p, key |-> "none", m |-> NULL]
    BY <1>4
  <2>2. c.p = p /\ c.key = "none" /\ c.steps = s
    BY <2>1
  <2>3. s = RemoveCommand \/ \E e \in PlainEdits \ {"add_model"} : s = <<"load", e, "save">>
    BY DEF ModelsCommand, SuspendCommand, ResumeCommand, DetectCommand, PlainEdits
  <2>4. s # Keyed /\ s \notin ModelCommands
    BY <2>3, CommandsDiffer DEF ModelCommands, PlainEdits
  <2> QED BY <2>2, <2>3, <2>4 DEF StepsOfCommands, RegistryCommands, PlainEdits, KeyKinds
<1>5. CASE \E p \in Providers, m \in Models,
              s \in {AddModelDialog, RemoveModelDialog, EditPriceDialog, ClearPriceDialog} :
              c = [steps |-> s, p |-> p, key |-> "none", m |-> m]
  <2>1. PICK p \in Providers, m \in Models,
             s \in {AddModelDialog, RemoveModelDialog, EditPriceDialog, ClearPriceDialog} :
             c = [steps |-> s, p |-> p, key |-> "none", m |-> m]
    BY <1>5
  <2>2. c.p = p /\ c.key = "none" /\ c.steps = s /\ c.m = m
    BY <2>1
  <2>3. s \in ModelCommands
    BY DEF ModelCommands, AddModelDialog, EditPriceDialog, ClearPriceDialog
  <2>4. s # Keyed
    BY <2>3, CommandsDiffer DEF ModelCommands
  <2> QED BY <2>2, <2>3, <2>4 DEF StepsOfCommands, KeyKinds
<1>6. \/ \E p \in Providers, k \in KeyKinds : c = [steps |-> AddCommand(k), p |-> p, key |-> k, m |-> NULL]
      \/ \E p \in Providers, k \in {"none", "key"} :
            c = [steps |-> AddCommand(k), p |-> p, key |-> k, m |-> NULL]
      \/ \E p \in Providers, s \in {RemoveCommand, ModelsCommand, SuspendCommand, ResumeCommand} :
            c = [steps |-> s, p |-> p, key |-> "none", m |-> NULL]
      \/ \E p \in Detectable, s \in {DetectCommand, DetectDialog} :
            c = [steps |-> s, p |-> p, key |-> "none", m |-> NULL]
      \/ \E p \in Providers, m \in Models,
            s \in {AddModelDialog, RemoveModelDialog, EditPriceDialog, ClearPriceDialog} :
            c = [steps |-> s, p |-> p, key |-> "none", m |-> m]
  BY DEF Commands, AddDialog
<1>7. Detectable \subseteq Providers /\ DetectCommand = DetectDialog /\ {"none", "key"} \subseteq KeyKinds
  BY StoresOK DEF DetectCommand, DetectDialog, KeyKinds
<1> QED BY <1>3, <1>4, <1>5, <1>6, <1>7

LEMMA OfRefreshes ==
    ASSUME NEW c \in RefreshTokens
    PROVE  c.p \in Providers /\ c.p \in OAuthOf /\ c.key = "oauth" /\ c.steps = RefreshSteps
BY StoresOK DEF RefreshTokens, RefreshSteps

LEMMA Begun ==
    ASSUME NEW c
    PROVE  /\ c \in Commands => /\ Goes(c.steps, c.steps) /\ Head(c.steps) \in {"set", "load", "load_prices"}
                                /\ Head(c.steps) = "load" => c.key = "none"
           /\ c \in RefreshTokens => Goes(c.steps, c.steps) /\ Head(c.steps) = "refresh"
<1>1. ASSUME c \in Commands
      PROVE  Goes(c.steps, c.steps) /\ Head(c.steps) \in {"set", "load", "load_prices"}
  <2>1. c.steps \in StepsOfCommands
    BY <1>1, OfCommands
  <2>2. CASE \E e \in PlainEdits : c.steps = <<"load", e, "save">>
    <3>1. PICK e \in PlainEdits : c.steps = <<"load", e, "save">>
      BY <2>2
    <3>2. Head(<<"load", e, "save">>) = "load"
      BY Tuples
    <3> QED BY <3>1, <3>2 DEF Goes, Plain
  <2>3. CASE \E e \in {"set_price", "clear_price"} : c.steps = <<"load_prices", e, "save_prices">>
    <3>1. PICK e \in {"set_price", "clear_price"} : c.steps = <<"load_prices", e, "save_prices">>
      BY <2>3
    <3>2. Head(<<"load_prices", e, "save_prices">>) = "load_prices"
      BY Tuples
    <3> QED BY <3>1, <3>2 DEF Goes, PriceAhead
  <2>4. CASE c.steps = Keyed
    <3>1. Head(Keyed) = "set"
      BY DEF Keyed
    <3> QED BY <2>4, <3>1 DEF Goes, KeyedAhead
  <2>5. CASE c.steps = RemoveCommand
    <3>1. Head(RemoveCommand) = "load"
      BY DEF RemoveCommand
    <3> QED BY <2>5, <3>1 DEF Goes, RemoveAhead, RemoveCommand
  <2>6. CASE c.steps = RemoveModelDialog
    <3>1. Head(RemoveModelDialog) = "load"
      BY DEF RemoveModelDialog
    <3> QED BY <2>6, <3>1 DEF Goes, RemoveModelAhead, RemoveModelDialog
  <2> QED BY <2>1, <2>2, <2>3, <2>4, <2>5, <2>6
          DEF StepsOfCommands, RegistryCommands, ModelCommands, PlainEdits
<1>3. ASSUME c \in Commands, Head(c.steps) = "load" PROVE c.key = "none"
  <2>1. Head(Keyed) = "set"
    BY DEF Keyed
  <2> QED BY <1>3, <2>1, OfCommands
<1>2. ASSUME c \in RefreshTokens PROVE Goes(c.steps, c.steps) /\ Head(c.steps) = "refresh"
  <2>1. c.steps = RefreshSteps /\ Head(RefreshSteps) = "refresh"
    BY <1>2, OfRefreshes DEF RefreshSteps
  <2> QED BY <2>1 DEF Goes, RefreshAhead
<1> QED BY <1>1, <1>2, <1>3

\* A step of q leaves the other processes alone.
Others(q) == \A x \in Procs \ {q} : proc'[x] = proc[x]

LEMMA Became ==
    ASSUME Working, NEW q \in Procs, NEW r, DOMAIN r = Fields, Become(q, r)
    PROVE  /\ DOMAIN proc' = Procs /\ \A x \in Procs : DOMAIN proc'[x] = Fields
           /\ Others(q)
           /\ r.todo = <<>> => Busy' = Busy \ {q}
           /\ r.todo # <<>> => proc'[q] = r /\ Busy' = Busy \cup {q}
<1>1. DOMAIN proc = Procs /\ \A x \in Procs : DOMAIN proc[x] = Fields
  BY DEF Working
<1>2. DOMAIN Idle = Fields /\ Idle.todo = <<>>
  BY DEF Idle, Fields
<1>3. proc' = [proc EXCEPT ![q] = IF r.todo = <<>> THEN Idle ELSE r]
  BY DEF Become
<1>4. /\ DOMAIN proc' = Procs /\ \A x \in Procs \ {q} : proc'[x] = proc[x]
      /\ proc'[q] = IF r.todo = <<>> THEN Idle ELSE r
  BY <1>1, <1>3
<1> QED BY <1>1, <1>2, <1>4 DEF Busy, Others

LEMMA Files ==
    /\ \A e \in RegistryEdits \cup {"save"} : FileOf(e) = {"registry"}
    /\ \A e \in {"set_price", "clear_price", "save_prices"} : FileOf(e) = {"prices"}
    /\ FileOf("fill") = {"registry", "prices"} /\ FileOf("save_vault") = {"vault"}
    /\ \A e \in {"set", "load", "load_prices", "delete", "refresh", "store"} : FileOf(e) = {}
BY DEF FileOf, RegistryEdits

LEMMA OfCopies ==
    ASSUME NEW c \in Copies
    PROVE  /\ c # NULL /\ DOMAIN c = {"file", "content"} /\ c.file \in {"registry", "prices", "vault"}
           /\ c.file = "registry" => c.content \in [Providers -> Entries \cup {NULL}]
           /\ c.file = "prices" => c.content \in [Providers -> SUBSET Models]
           /\ c.file = "vault" => c.content \in [Providers -> Secrets \cup {NULL}]
<1>1. c # NULL
  BY StoresOK
<1>2. \/ c \in [file : {"registry"}, content : [Providers -> Entries \cup {NULL}]]
      \/ c \in [file : {"prices"}, content : [Providers -> SUBSET Models]]
      \/ c \in [file : {"vault"}, content : [Providers -> Secrets \cup {NULL}]]
  BY DEF Copies
<1> QED BY <1>1, <1>2

LEMMA NewCopies ==
    ASSUME NEW f
    PROVE  /\ f \in [Providers -> Entries \cup {NULL}] => [file |-> "registry", content |-> f] \in Copies
           /\ f \in [Providers -> SUBSET Models] => [file |-> "prices", content |-> f] \in Copies
           /\ f \in [Providers -> Secrets \cup {NULL}] => [file |-> "vault", content |-> f] \in Copies
BY DEF Copies

LEMMA AtWork ==
    ASSUME Working, NEW q \in Busy
    PROVE  /\ q \in Procs /\ DOMAIN proc[q] = Fields /\ Works(q)
           /\ proc[q].todo # <<>> /\ \A s : At(q, s) <=> Step1(q) = s
           /\ Follows(proc[q].arg.steps, proc[q].todo)
           /\ P(q) \in Providers /\ proc[q].arg.steps \in StepsOfCommands \cup {RefreshSteps}
           /\ q \in Users => proc[q].arg \in Commands
           /\ q \in Sessions => proc[q].arg \in RefreshTokens
<1>1. q \in Procs /\ DOMAIN proc[q] = Fields /\ Works(q)
  BY DEF Working, Busy
<1>2. Goes(proc[q].arg.steps, proc[q].todo) /\ proc[q].todo # <<>>
  BY <1>1 DEF Works, Busy
<1>3. Follows(proc[q].arg.steps, proc[q].todo)
  BY <1>2, Steps
<1>4. /\ q \in Users => proc[q].arg \in Commands
      /\ q \in Sessions => proc[q].arg \in RefreshTokens
  BY <1>1 DEF Works
<1>5. P(q) \in Providers /\ proc[q].arg.steps \in StepsOfCommands \cup {RefreshSteps}
  <2>1. CASE q \in Users
    BY <2>1, <1>4, OfCommands DEF P
  <2>2. CASE q \in Sessions
    BY <2>2, <1>4, OfRefreshes DEF P
  <2> QED BY <1>1, <2>1, <2>2 DEF Procs
<1> QED BY <1>1, <1>2, <1>3, <1>4, <1>5 DEF At, Step1

Frame(q) ==
    /\ DOMAIN proc' = Procs /\ \A x \in Procs : DOMAIN proc'[x] = Fields
    /\ Others(q)
Ends(q) == Frame(q) /\ Busy' = Busy \ {q}
GoesOn(q) == Frame(q) /\ Busy' = Busy \cup {q} /\ Works(q)'

LEMMA GoingOn ==
    ASSUME Working, NEW q \in Procs, NEW r, Become(q, r), DOMAIN r = Fields,
           Goes(r.arg.steps, r.todo),
           q \in Users => r.arg \in Commands,
           q \in Sessions => r.arg \in RefreshTokens /\ r.token \in Nat,
           r.copy \in Copies \cup {NULL},
           FileOf(Head(r.todo)) # {} => r.copy # NULL /\ r.copy.file \in FileOf(Head(r.todo)),
           Head(r.todo) = "fill" /\ r.copy.file = "registry" => r.arg.steps \in RegistryCommands,
           Head(r.todo) = "fill" /\ r.copy.file = "prices" => r.arg.steps # RemoveCommand
    PROVE  GoesOn(q) /\ proc'[q] = r
<1>1. r.todo # <<>>
  BY Steps
<1>2. Frame(q) /\ Busy' = Busy \cup {q} /\ proc'[q] = r
  BY <1>1, Became DEF Frame
<1>3. Works(q)'
  BY <1>2 DEF Works, Step1, At
<1> QED BY <1>2, <1>3 DEF GoesOn

LEMMA Ending ==
    ASSUME Working, NEW q \in Procs, Finish(q)
    PROVE  Ends(q)
<1>1. DOMAIN Idle = Fields /\ Idle.todo = <<>>
  BY DEF Idle, Fields
<1> QED BY <1>1, Became DEF Finish, Frame, Ends

LEMMA StillWorking ==
    ASSUME Working, NEW q \in Procs, Ends(q) \/ GoesOn(q)
    PROVE  Working'
<1>1. Frame(q)
  BY DEF Ends, GoesOn
<1>2. ASSUME NEW x \in Busy', x # q PROVE Works(x)'
  <2>1. x \in Busy /\ x \in Procs
    BY <1>2 DEF Ends, GoesOn, Busy
  <2>2. proc'[x] = proc[x] /\ Works(x)
    BY <1>1, <1>2, <2>1 DEF Frame, Others, Working
  <2> QED BY <2>2 DEF Works, Step1, At
<1>3. q \in Busy' => Works(q)'
  BY DEF Ends, GoesOn
<1> QED BY <1>1, <1>2, <1>3 DEF Working, Frame

-----------------------------------------------------------------------------
(* What each action does to its process.                                   *)

\* Taking a copy and going on with steps t.
LEMMA Taken ==
    ASSUME Working, NEW q \in Busy, NEW file, NEW f, NEW t, Take(q, file, f, t),
           [file |-> file, content |-> f] \in Copies, Goes(proc[q].arg.steps, t),
           FileOf(Head(t)) \in {{}, {file}}, Head(t) # "fill"
    PROVE  /\ GoesOn(q) /\ Busy' = Busy /\ Step1(q)' = Head(t) /\ proc'[q].todo = t
           /\ proc'[q].arg = proc[q].arg /\ proc'[q].token = proc[q].token
           /\ proc'[q].copy = [file |-> file, content |-> f]
           /\ raced' = raced \cup {file : x \in Holding(file) \ {q}}
<1> DEFINE r == [proc[q] EXCEPT !.copy = [file |-> file, content |-> f], !.todo = t]
<1>1. q \in Procs /\ DOMAIN proc[q] = Fields /\ Works(q)
  BY AtWork
<1>2. /\ DOMAIN r = Fields /\ r.arg = proc[q].arg /\ r.token = proc[q].token /\ r.todo = t
      /\ r.copy = [file |-> file, content |-> f]
  BY <1>1 DEF Fields
<1>3. Become(q, r) /\ raced' = raced \cup {file : x \in Holding(file) \ {q}}
  BY DEF Take
<1>4. r.copy \in Copies /\ r.copy # NULL /\ r.copy.file = file
  BY <1>2, OfCopies
<1> HIDE DEF r
<1>5. GoesOn(q) /\ proc'[q] = r
  BY <1>1, <1>2, <1>3, <1>4, GoingOn DEF Works
<1>6. Busy' = Busy
  BY <1>5 DEF GoesOn
<1> QED BY <1>2, <1>3, <1>5, <1>6 DEF Step1

LEMMA OfLoadRegistry ==
    ASSUME TypeOK, NEW u \in Users, LoadRegistry(u)
    PROVE  /\ u \in Busy /\ GoesOn(u) /\ Busy' = Busy /\ Step1(u) = "load" /\ Step1(u)' \in RegistryEdits
           /\ proc'[u].arg = proc[u].arg /\ proc'[u].token = proc[u].token
           /\ proc'[u].copy = [file |-> "registry", content |-> registry]
           /\ raced' = raced \cup {"registry" : x \in Holding("registry") \ {u}}
<1>1. u \in Busy /\ Working /\ At(u, "load")
  BY DEF LoadRegistry, At, Busy, Procs, TypeOK
<1>2. Step1(u) = "load" /\ Goes(proc[u].arg.steps, Rest(u)) /\ Head(Rest(u)) \in RegistryEdits
  BY <1>1, AtWork DEF Follows, Step1, Rest
<1>3. [file |-> "registry", content |-> registry] \in Copies
  BY NewCopies DEF TypeOK
<1>4. Take(u, "registry", registry, Rest(u))
  BY DEF LoadRegistry
<1>5. FileOf(Head(Rest(u))) \in {{}, {"registry"}} /\ Head(Rest(u)) # "fill"
  BY <1>2, Files DEF RegistryEdits
<1> QED BY <1>1, <1>2, <1>3, <1>4, <1>5, Taken

LEMMA OfLoadPrices ==
    ASSUME TypeOK, NEW u \in Users, LoadPrices(u)
    PROVE  /\ u \in Busy /\ GoesOn(u) /\ Busy' = Busy /\ Step1(u) = "load_prices"
           /\ Step1(u)' \in {"set_price", "clear_price"}
           /\ proc'[u].arg = proc[u].arg /\ proc'[u].token = proc[u].token
           /\ proc'[u].copy = [file |-> "prices", content |-> prices]
           /\ raced' = raced \cup {"prices" : x \in Holding("prices") \ {u}}
<1>1. u \in Busy /\ Working /\ At(u, "load_prices")
  BY DEF LoadPrices, At, Busy, Procs, TypeOK
<1>2. Step1(u) = "load_prices" /\ Goes(proc[u].arg.steps, Rest(u)) /\ Head(Rest(u)) \in {"set_price", "clear_price"}
  BY <1>1, AtWork DEF Follows, Step1, Rest
<1>3. [file |-> "prices", content |-> prices] \in Copies
  BY NewCopies DEF TypeOK
<1>4. Take(u, "prices", prices, Rest(u))
  BY DEF LoadPrices
<1>5. FileOf(Head(Rest(u))) \in {{}, {"prices"}} /\ Head(Rest(u)) # "fill"
  BY <1>2, Files
<1> QED BY <1>1, <1>2, <1>3, <1>4, <1>5, Taken

\* The copy changes in one provider.
LEMMA Changed ==
    ASSUME Working, NEW q \in Busy, NEW e, Change(q, e), proc[q].copy \in Copies,
           Goes(proc[q].arg.steps, Rest(q)), FileOf(Head(Rest(q))) = {proc[q].copy.file},
           Head(Rest(q)) # "fill",
           proc[q].copy.file = "registry" => e \in Entries \cup {NULL},
           proc[q].copy.file = "prices" => e \in SUBSET Models,
           proc[q].copy.file \in {"registry", "prices"}
    PROVE  /\ GoesOn(q) /\ Busy' = Busy /\ Step1(q)' = Head(Rest(q))
           /\ proc'[q].arg = proc[q].arg /\ proc'[q].token = proc[q].token
           /\ proc'[q].copy # NULL /\ proc'[q].copy.file = proc[q].copy.file
           /\ Content(q)' = [Content(q) EXCEPT ![P(q)] = e]
<1> DEFINE c == [file |-> proc[q].copy.file, content |-> [Content(q) EXCEPT ![P(q)] = e]]
           r == [proc[q] EXCEPT !.copy.content[P(q)] = e, !.todo = Rest(q)]
<1>1. q \in Procs /\ DOMAIN proc[q] = Fields /\ Works(q) /\ DOMAIN proc[q].copy = {"file", "content"}
  BY AtWork, OfCopies
<1>2. /\ DOMAIN r = Fields /\ r.arg = proc[q].arg /\ r.token = proc[q].token /\ r.todo = Rest(q)
      /\ r.copy = [proc[q].copy EXCEPT !.content[P(q)] = e]
  BY <1>1 DEF Fields
<1>3. r.copy = c
  BY <1>1, <1>2 DEF Content
<1>4. c \in Copies
  <2>1. CASE proc[q].copy.file = "registry"
    BY <2>1, NewCopies, OfCopies DEF Content
  <2>2. CASE proc[q].copy.file = "prices"
    BY <2>2, NewCopies, OfCopies DEF Content
  <2> QED BY <2>1, <2>2
<1>5. Become(q, r)
  BY DEF Change
<1>6. c # NULL /\ c.file = proc[q].copy.file /\ c.content = [Content(q) EXCEPT ![P(q)] = e]
  BY <1>4, OfCopies
<1> HIDE DEF c, r
<1>0. /\ q \in Users => r.arg \in Commands
      /\ q \in Sessions => r.arg \in RefreshTokens /\ r.token \in Nat
  BY <1>1, <1>2 DEF Works
<1>7. GoesOn(q) /\ proc'[q] = r
  BY <1>0, <1>1, <1>2, <1>3, <1>4, <1>5, <1>6, GoingOn
<1>8. Busy' = Busy
  BY <1>7 DEF GoesOn
<1> QED BY <1>2, <1>3, <1>6, <1>7, <1>8 DEF Step1, Content

LEMMA WantedOf ==
    ASSUME NEW c \in Commands, NEW w
    PROVE  /\ c.steps \in {Keyed, <<"load", "register", "save">>} =>
                 Wanted(w, c) = [NoWish EXCEPT !.registered = TRUE]
           /\ c.steps = RemoveCommand => Wanted(w, c) = NoWish
           /\ c.steps = <<"load", "discover", "save">> => Wanted(w, c) = [w EXCEPT !.manual = @ \ Listed[c.p]]
           /\ c.steps = <<"load", "suspend", "save">> => Wanted(w, c) = [w EXCEPT !.susp = TRUE]
           /\ c.steps = <<"load", "resume", "save">> => Wanted(w, c) = [w EXCEPT !.susp = FALSE]
           /\ c.steps = <<"load", "add_model", "save">> => Wanted(w, c) = [w EXCEPT !.manual = @ \cup {c.m}]
           /\ c.steps = RemoveModelDialog => Wanted(w, c) = [w EXCEPT !.manual = @ \ {c.m}]
<1> DEFINE D == <<"load", "discover", "save">>  S == <<"load", "suspend", "save">>
           R == <<"load", "resume", "save">>    A == <<"load", "add_model", "save">>
           G == <<"load", "register", "save">>
<1>1. c.steps = AddCommand(c.key) <=> c.steps \in {Keyed, G}
  <2>1. c.key # "none" <=> c.steps = Keyed
    BY OfCommands
  <2> QED BY <2>1, AddSteps, CommandsDiffer
<1>2. /\ D # G /\ S # G /\ R # G /\ A # G /\ D # S /\ D # R /\ D # A /\ S # R /\ S # A /\ R # A
      /\ {D, S, R, A, G} \cap {Keyed, RemoveCommand, RemoveModelDialog} = {}
  <2>1. /\ "discover" # "register" /\ "suspend" # "register" /\ "resume" # "register"
        /\ "add_model" # "register" /\ "discover" # "suspend" /\ "discover" # "resume"
        /\ "discover" # "add_model" /\ "suspend" # "resume" /\ "suspend" # "add_model"
        /\ "resume" # "add_model"
    OBVIOUS
  <2>2. D # G /\ S # G /\ R # G /\ A # G /\ D # S /\ D # R /\ D # A /\ S # R /\ S # A /\ R # A
    BY <2>1, CommandsDiffer
  <2>3. {D, S, R, A, G} \cap {Keyed, RemoveCommand, RemoveModelDialog} = {}
    BY CommandsDiffer
  <2> QED BY <2>2, <2>3
<1>3. Keyed # RemoveCommand /\ Keyed # RemoveModelDialog /\ RemoveCommand # RemoveModelDialog
  BY CommandsDiffer
<1>4. ModelsCommand = D /\ SuspendCommand = S /\ ResumeCommand = R /\ AddModelDialog = A
  BY DEF ModelsCommand, SuspendCommand, ResumeCommand, AddModelDialog
<1> HIDE DEF D, S, R, A, G
<1>5. c.steps \in {Keyed, G} => Wanted(w, c) = [NoWish EXCEPT !.registered = TRUE]
  BY <1>1, <1>2, <1>3, <1>4 DEF Wanted
<1>6. c.steps = RemoveCommand => Wanted(w, c) = NoWish
  BY <1>1, <1>2, <1>3, <1>4 DEF Wanted
<1>7. c.steps = D => Wanted(w, c) = [w EXCEPT !.manual = @ \ Listed[c.p]]
  BY <1>1, <1>2, <1>3, <1>4 DEF Wanted
<1>8. c.steps = S => Wanted(w, c) = [w EXCEPT !.susp = TRUE]
  BY <1>1, <1>2, <1>3, <1>4 DEF Wanted
<1>9. c.steps = R => Wanted(w, c) = [w EXCEPT !.susp = FALSE]
  BY <1>1, <1>2, <1>3, <1>4 DEF Wanted
<1>10. c.steps = A => Wanted(w, c) = [w EXCEPT !.manual = @ \cup {c.m}]
  BY <1>1, <1>2, <1>3, <1>4 DEF Wanted
<1>11. c.steps = RemoveModelDialog => Wanted(w, c) = [w EXCEPT !.manual = @ \ {c.m}]
  BY <1>1, <1>2, <1>3, <1>4 DEF Wanted
<1> QED BY <1>5, <1>6, <1>7, <1>8, <1>9, <1>10, <1>11 DEF D, S, R, A, G

LEMMA WantedTypes ==
    ASSUME NEW c \in Commands, NEW w \in WishTypes, c.steps \in RegistryCommands
    PROVE  Wanted(w, c) \in WishTypes
<1>1. c.steps = <<"load", "add_model", "save">> => c.m \in Models
  BY OfCommands DEF ModelCommands
<1>2. NoWish \in WishTypes /\ [NoWish EXCEPT !.registered = TRUE] \in WishTypes
  BY DEF NoWish, WishTypes
<1>3. /\ [w EXCEPT !.susp = TRUE] \in WishTypes /\ [w EXCEPT !.susp = FALSE] \in WishTypes
      /\ \A x : [w EXCEPT !.manual = @ \ x] \in WishTypes
      /\ \A m \in Models : [w EXCEPT !.manual = @ \cup {m}] \in WishTypes
  BY DEF WishTypes
<1>4. CASE c.steps \in {Keyed, <<"load", "register", "save">>}
  BY <1>2, <1>4, WantedOf
<1>5. CASE c.steps = RemoveCommand
  BY <1>2, <1>5, WantedOf
<1>6. CASE c.steps = <<"load", "discover", "save">>
  <2>1. Wanted(w, c) = [w EXCEPT !.manual = @ \ Listed[c.p]]
    BY <1>6, WantedOf
  <2> QED BY <2>1, <1>3
<1>7. CASE c.steps = <<"load", "suspend", "save">>
  BY <1>3, <1>7, WantedOf
<1>8. CASE c.steps = <<"load", "resume", "save">>
  BY <1>3, <1>8, WantedOf
<1>9. CASE c.steps = <<"load", "add_model", "save">>
  <2>1. Wanted(w, c) = [w EXCEPT !.manual = @ \cup {c.m}]
    BY <1>9, WantedOf
  <2> QED BY <2>1, <1>1, <1>9, <1>3
<1>10. CASE c.steps = RemoveModelDialog
  <2>1. Wanted(w, c) = [w EXCEPT !.manual = @ \ {c.m}]
    BY <1>10, WantedOf
  <2> QED BY <2>1, <1>3
<1> QED BY <1>4, <1>5, <1>6, <1>7, <1>8, <1>9, <1>10 DEF RegistryCommands, PlainEdits

\* What an edit makes of the entry, and that it is what the command is for.
LEMMA OfEdits ==
    ASSUME TypeOK, NEW u \in Users, u \in Busy, Step1(u) \in RegistryEdits, NEW e \in Edits(u),
           Old(u) # NULL \/ Step1(u) = "register"
    PROVE  /\ e \in Entries \cup {NULL} /\ (e = NULL <=> Step1(u) = "remove")
           /\ Step1(u) = "remove" <=> proc[u].arg.steps = RemoveCommand
           /\ proc[u].arg.key # "none" => Step1(u) = "register"
           /\ \/ e = NULL
              \/ Step1(u) = "register" /\ e.key = proc[u].arg.key
              \/ Old(u) # NULL /\ e.key = Old(u).key
           /\ \A w \in WishTypes : Agrees(Old(u), w) => Agrees(e, Wanted(w, proc[u].arg))
<1> DEFINE a == proc[u].arg  s == a.steps
<1>1. /\ a \in Commands /\ \A x : At(u, x) <=> Step1(u) = x
      /\ \/ s = <<"load", Step1(u), "save">> /\ Step1(u) \in PlainEdits
         \/ s = Keyed /\ Step1(u) = "register"
         \/ s = RemoveCommand /\ Step1(u) = "remove"
         \/ s = RemoveModelDialog /\ Step1(u) = "remove_model"
      /\ P(u) \in Providers
  BY AtWork DEF TypeOK, Follows, Step1
<1>13. /\ s = RemoveCommand => Step1(u) = "remove"
       /\ a.key # "none" => Step1(u) = "register"
  <2>1. a.key # "none" => s = Keyed
    BY <1>1, OfCommands
  <2> QED BY <1>1, <2>1, CommandsDiffer
<1> SUFFICES /\ e \in Entries \cup {NULL} /\ (e = NULL <=> Step1(u) = "remove")
             /\ Step1(u) = "remove" => proc[u].arg.steps = RemoveCommand
             /\ \/ e = NULL
                \/ Step1(u) = "register" /\ e.key = proc[u].arg.key
                \/ Old(u) # NULL /\ e.key = Old(u).key
             /\ \A w \in WishTypes : Agrees(Old(u), w) => Agrees(e, Wanted(w, proc[u].arg))
  BY <1>13
<1>2. Old(u) \in Entries \cup {NULL}
  <2>1. proc[u].copy \in Copies /\ proc[u].copy.file = "registry"
    BY AtWork, Files DEF Works, TypeOK
  <2> QED BY <2>1, <1>1, OfCopies DEF Old
<1>3. a.p = P(u) /\ a.key \in KeyKinds /\ (s \in ModelCommands => a.m \in Models)
  BY <1>1, OfCommands DEF P
<1>4. Listed[P(u)] \in SUBSET Models
  BY <1>1, StoresOK
<1>5. NULL \notin Entries
  BY StoresOK
<1>6. CASE Step1(u) = "register"
  <2>1. Edits(u) = {Entry(a.key, {}), Entry(a.key, Listed[P(u)])}
    BY <1>1, <1>6 DEF Edits
  <2>2. e \in Entries /\ e.key = a.key /\ e.susp = FALSE /\ e.manual = {}
    <3>1. PICK ms \in SUBSET Models : e = Entry(a.key, ms)
      BY <2>1, <1>4
    <3>2. e = [key |-> a.key, susp |-> FALSE, models |-> ms, manual |-> {}]
      BY <3>1 DEF Entry
    <3> QED BY <3>2, <1>3 DEF Entries
  <2>3. s \in {Keyed, <<"load", "register", "save">>}
    BY <1>1, <1>6
  <2>4. \A w : Wanted(w, a) = [NoWish EXCEPT !.registered = TRUE]
    BY <2>3, <1>1, WantedOf
  <2> QED BY <1>5, <1>6, <2>2, <2>4 DEF Agrees, NoWish
<1>7. CASE Step1(u) = "remove"
  <2>1. e = NULL
    BY <1>1, <1>7 DEF Edits
  <2>2. s = RemoveCommand
    BY <1>1, <1>7 DEF PlainEdits
  <2>3. \A w : Wanted(w, a) = NoWish
    BY <2>2, <1>1, WantedOf
  <2>4. \A w : Agrees(e, Wanted(w, a))
    <3>1. NoWish.registered = FALSE
      BY DEF NoWish
    <3> QED BY <2>1, <2>3, <3>1 DEF Agrees
  <2> QED BY <1>7, <2>1, <2>2, <2>4
<1> DEFINE o == Old(u)
<1>8. CASE Step1(u) = "discover"
  <2>1. e = MergeModels(o, Listed[P(u)]) /\ o \in Entries
    BY <1>1, <1>2, <1>8 DEF Edits
  <2>2. /\ e \in Entries /\ e.key = o.key /\ e.susp = o.susp
        /\ e.manual = o.manual \ Listed[P(u)]
    BY <2>1, <1>4 DEF MergeModels, Entries
  <2>3. s = <<"load", "discover", "save">>
    BY <1>1, <1>8
  <2>4. \A w : Wanted(w, a) = [w EXCEPT !.manual = @ \ Listed[P(u)]]
    BY <2>3, <1>1, <1>3, WantedOf
  <2> QED BY <1>5, <1>8, <2>1, <2>2, <2>4 DEF Agrees, WishTypes
<1>9. CASE Step1(u) = "suspend"
  <2>1. e = [o EXCEPT !.susp = TRUE] /\ o \in Entries
    BY <1>1, <1>2, <1>9 DEF Edits
  <2>2. e \in Entries /\ e.key = o.key /\ e.susp = TRUE /\ e.manual = o.manual
    BY <2>1 DEF Entries
  <2>3. s = <<"load", "suspend", "save">>
    BY <1>1, <1>9
  <2>4. \A w : Wanted(w, a) = [w EXCEPT !.susp = TRUE]
    BY <2>3, <1>1, WantedOf
  <2> QED BY <1>5, <1>9, <2>1, <2>2, <2>4 DEF Agrees, WishTypes
<1>10. CASE Step1(u) = "resume"
  <2>1. e = [o EXCEPT !.susp = FALSE] /\ o \in Entries
    BY <1>1, <1>2, <1>10 DEF Edits
  <2>2. e \in Entries /\ e.key = o.key /\ e.susp = FALSE /\ e.manual = o.manual
    BY <2>1 DEF Entries
  <2>3. s = <<"load", "resume", "save">>
    BY <1>1, <1>10
  <2>4. \A w : Wanted(w, a) = [w EXCEPT !.susp = FALSE]
    BY <2>3, <1>1, WantedOf
  <2> QED BY <1>5, <1>10, <2>1, <2>2, <2>4 DEF Agrees, WishTypes
<1>11. CASE Step1(u) = "add_model"
  <2>1. e = [o EXCEPT !.models = @ \cup {a.m}, !.manual = @ \cup {a.m}] /\ o \in Entries
    BY <1>1, <1>2, <1>11 DEF Edits
  <2>2. s = <<"load", "add_model", "save">>
    BY <1>1, <1>11
  <2>3. a.m \in Models
    BY <2>2, <1>3 DEF ModelCommands
  <2>4. e \in Entries /\ e.key = o.key /\ e.susp = o.susp /\ e.manual = o.manual \cup {a.m}
    BY <2>1, <2>3 DEF Entries
  <2>5. \A w : Wanted(w, a) = [w EXCEPT !.manual = @ \cup {a.m}]
    BY <2>2, <1>1, WantedOf
  <2>6. ASSUME NEW w \in WishTypes, Agrees(o, w) PROVE Agrees(e, Wanted(w, a))
    <3> DEFINE W == [w EXCEPT !.manual = @ \cup {a.m}]
    <3>1. W.registered = w.registered /\ W.susp = w.susp /\ W.manual = w.manual \cup {a.m}
      BY DEF WishTypes
    <3>2. Wanted(w, a) = W
      BY <2>5
    <3> HIDE DEF W
    <3> QED BY <1>5, <2>1, <2>4, <2>6, <3>1, <3>2 DEF Agrees
  <2> QED BY <1>5, <1>11, <2>1, <2>4, <2>6
<1>12. CASE Step1(u) = "remove_model"
  <2>1. e = [o EXCEPT !.models = @ \ {a.m}, !.manual = @ \ {a.m}] /\ o \in Entries
    BY <1>1, <1>2, <1>12 DEF Edits
  <2>2. s = RemoveModelDialog
    BY <1>1, <1>12 DEF PlainEdits
  <2>3. e \in Entries /\ e.key = o.key /\ e.susp = o.susp /\ e.manual = o.manual \ {a.m}
    BY <2>1 DEF Entries
  <2>4. \A w : Wanted(w, a) = [w EXCEPT !.manual = @ \ {a.m}]
    BY <2>2, <1>1, WantedOf
  <2>6. ASSUME NEW w \in WishTypes, Agrees(o, w) PROVE Agrees(e, Wanted(w, a))
    <3> DEFINE W == [w EXCEPT !.manual = @ \ {a.m}]
    <3>1. W.registered = w.registered /\ W.susp = w.susp /\ W.manual = w.manual \ {a.m}
      BY DEF WishTypes
    <3>2. Wanted(w, a) = W
      BY <2>4
    <3> HIDE DEF W
    <3> QED BY <1>5, <2>1, <2>3, <2>6, <3>1, <3>2 DEF Agrees
  <2> QED BY <1>5, <1>12, <2>1, <2>3, <2>6
<1> QED BY <1>6, <1>7, <1>8, <1>9, <1>10, <1>11, <1>12 DEF RegistryEdits

LEMMA OfEditRegistry ==
    ASSUME TypeOK, NEW u \in Users, EditRegistry(u)
    PROVE  /\ u \in Busy /\ Step1(u) \in RegistryEdits
           /\ \/ Ends(u)
              \/ /\ GoesOn(u) /\ Busy' = Busy /\ Step1(u)' = "save"
                 /\ proc'[u].arg = proc[u].arg
                 /\ proc'[u].copy # NULL /\ proc'[u].copy.file = "registry"
                 /\ Old(u) # NULL \/ Step1(u) = "register"
                 /\ \E e \in Edits(u) : Content(u)' = [Content(u) EXCEPT ![P(u)] = e]
<1>1. u \in Busy /\ Working
  BY DEF EditRegistry, At, Busy, Procs, TypeOK
<1>2. Step1(u) \in RegistryEdits /\ \A s : At(u, s) <=> Step1(u) = s
  BY <1>1, AtWork DEF EditRegistry
<1>3. Goes(proc[u].arg.steps, Rest(u)) /\ Head(Rest(u)) = "save"
  BY <1>1, <1>2, AtWork DEF Follows, Rest, Step1
<1>4. proc[u].copy \in Copies /\ proc[u].copy.file = "registry"
  BY <1>1, <1>2, AtWork, Files DEF Works
<1>5. CASE Old(u) = NULL /\ ~At(u, "register")
  <2>1. Finish(u)
    BY <1>5 DEF EditRegistry
  <2> QED BY <1>1, <1>2, <2>1, Ending DEF Procs
<1>6. CASE ~(Old(u) = NULL /\ ~At(u, "register"))
  <2>1. Old(u) # NULL \/ Step1(u) = "register"
    BY <1>2, <1>6
  <2>2. PICK e \in Edits(u) : Change(u, e)
    BY <1>6 DEF EditRegistry
  <2>3. e \in Entries \cup {NULL}
    BY <1>1, <1>2, <2>1, OfEdits
  <2>4. FileOf("save") = {"registry"}
    BY Files
  <2> QED BY <1>1, <1>2, <1>3, <1>4, <2>1, <2>2, <2>3, <2>4, Changed
<1> QED BY <1>5, <1>6

LEMMA OfEditPrices ==
    ASSUME TypeOK, NEW u \in Users, EditPrices(u)
    PROVE  /\ u \in Busy /\ Step1(u) \in {"set_price", "clear_price"}
           /\ \/ Ends(u)
              \/ /\ GoesOn(u) /\ Busy' = Busy /\ Step1(u)' = "save_prices"
                 /\ proc'[u].arg = proc[u].arg
                 /\ proc'[u].copy # NULL /\ proc'[u].copy.file = "prices"
<1> DEFINE m == proc[u].arg.m
<1>1. u \in Busy /\ Working
  BY DEF EditPrices, At, Busy, Procs, TypeOK
<1>2. Step1(u) \in {"set_price", "clear_price"} /\ \A s : At(u, s) <=> Step1(u) = s
  BY <1>1, AtWork DEF EditPrices
<1>3. Goes(proc[u].arg.steps, Rest(u)) /\ Head(Rest(u)) = "save_prices"
  BY <1>1, <1>2, AtWork DEF Follows, Rest, Step1
<1>4. proc[u].copy \in Copies /\ proc[u].copy.file = "prices"
  BY <1>1, <1>2, AtWork, Files DEF Works
<1>5. Old(u) \in SUBSET Models
  BY <1>1, <1>4, AtWork, OfCopies DEF Old
<1>6. m \in Models
  <2>1. /\ proc[u].arg \in Commands
        /\ proc[u].arg.steps = <<"load_prices", Step1(u), "save_prices">> \/ proc[u].arg.steps = RemoveModelDialog
    BY <1>1, <1>2, AtWork DEF Follows, Step1
  <2>2. proc[u].arg.steps \in ModelCommands
    BY <1>2, <2>1 DEF ModelCommands
  <2> QED BY <2>1, <2>2, OfCommands
<1>7. CASE Finish(u)
  BY <1>1, <1>2, <1>7, Ending DEF Procs
<1>8. CASE \E e \in SUBSET Models : Change(u, e)
  <2>1. PICK e \in SUBSET Models : Change(u, e)
    BY <1>8
  <2>2. FileOf("save_prices") = {"prices"}
    BY Files
  <2> QED BY <1>1, <1>2, <1>3, <1>4, <2>1, <2>2, Changed
<1>9. Old(u) \cup {m} \in SUBSET Models /\ Old(u) \ {m} \in SUBSET Models
  BY <1>5, <1>6
<1> QED BY <1>7, <1>8, <1>9 DEF EditPrices

LEMMA OfGiveUp ==
    ASSUME TypeOK, NEW u \in Users, GiveUp(u)
    PROVE  u \in Busy /\ Ends(u)
<1>1. u \in Busy /\ Working
  BY DEF GiveUp, At, Busy, Procs, TypeOK
<1> QED BY <1>1, Ending DEF GiveUp, Procs

LEMMA OfDie ==
    ASSUME TypeOK, NEW q \in Procs, Die(q)
    PROVE  q \in Busy /\ Ends(q)
BY Ending DEF Die, TypeOK

\* Going on with the copy as it is.
LEMMA Passed ==
    ASSUME Working, NEW q \in Busy, NEW t, Become(q, [proc[q] EXCEPT !.todo = t]),
           Goes(proc[q].arg.steps, t),
           FileOf(Head(t)) # {} => proc[q].copy # NULL /\ proc[q].copy.file \in FileOf(Head(t)),
           Head(t) = "fill" /\ proc[q].copy.file = "registry" => proc[q].arg.steps \in RegistryCommands,
           Head(t) = "fill" /\ proc[q].copy.file = "prices" => proc[q].arg.steps # RemoveCommand
    PROVE  /\ GoesOn(q) /\ Busy' = Busy /\ Step1(q)' = Head(t) /\ proc'[q].todo = t
           /\ proc'[q].arg = proc[q].arg /\ proc'[q].token = proc[q].token
           /\ proc'[q].copy = proc[q].copy
<1> DEFINE r == [proc[q] EXCEPT !.todo = t]
<1>1. q \in Procs /\ DOMAIN proc[q] = Fields /\ Works(q)
  BY AtWork
<1>2. /\ DOMAIN r = Fields /\ r.arg = proc[q].arg /\ r.token = proc[q].token /\ r.todo = t
      /\ r.copy = proc[q].copy
  BY <1>1 DEF Fields
<1>3. Become(q, r)
  OBVIOUS
<1> HIDE DEF r
<1>4. GoesOn(q) /\ proc'[q] = r
  BY <1>1, <1>2, <1>3, GoingOn DEF Works
<1>5. Busy' = Busy
  BY <1>4 DEF GoesOn
<1> QED BY <1>2, <1>4, <1>5 DEF Step1

LEMMA Ended ==
    ASSUME Working, NEW q \in Busy, Become(q, [proc[q] EXCEPT !.todo = <<>>])
    PROVE  Ends(q)
<1> DEFINE r == [proc[q] EXCEPT !.todo = <<>>]
<1>1. q \in Procs /\ DOMAIN proc[q] = Fields
  BY AtWork
<1>2. DOMAIN r = Fields /\ r.todo = <<>> /\ Become(q, r)
  BY <1>1 DEF Fields
<1> HIDE DEF r
<1> QED BY <1>1, <1>2, Became DEF Ends, Frame

LEMMA OfSaveEmpties ==
    ASSUME TypeOK, NEW u \in Users, SaveEmpties(u)
    PROVE  /\ u \in Busy /\ GoesOn(u) /\ Busy' = Busy /\ Step1(u)' = "fill"
           /\ proc'[u].arg = proc[u].arg /\ proc'[u].copy = proc[u].copy /\ proc[u].copy # NULL
           /\ \/ /\ Step1(u) = "save" /\ proc[u].copy.file = "registry"
                 /\ registry' = NoEntries /\ prices' = prices
              \/ /\ Step1(u) = "save_prices" /\ proc[u].copy.file = "prices"
                 /\ proc[u].arg.steps \notin {RemoveCommand, Keyed}
                 /\ prices' = NoPrices /\ registry' = registry
<1> DEFINE t == <<"fill">> \o Rest(u)
<1>1. u \in Busy /\ Working
  BY DEF SaveEmpties, At, Busy, Procs, TypeOK
<1>2. \A s : At(u, s) <=> Step1(u) = s
  BY <1>1, AtWork
<1>3. /\ Step1(u) \in {"save", "save_prices"} => Goes(proc[u].arg.steps, t)
      /\ Step1(u) = "save" => proc[u].arg.steps \in RegistryCommands
      /\ Step1(u) = "save_prices" => proc[u].arg.steps # RemoveCommand /\ proc[u].arg.steps # Keyed
  BY <1>1, AtWork DEF Follows, Rest, Step1
<1>4. /\ proc[u].copy # NULL
      /\ Step1(u) = "save" => proc[u].copy.file = "registry"
      /\ Step1(u) = "save_prices" => proc[u].copy.file = "prices"
  BY <1>1, <1>2, AtWork, Files DEF Works, SaveEmpties
<1>5. Become(u, [proc[u] EXCEPT !.todo = t])
  BY <1>1, AtWork DEF SaveEmpties, Rest, Fields
<1>6. Head(t) = "fill"
  <2>1. \A x : Head(<<"fill">> \o Tail(x)) = "fill"
    OBVIOUS
  <2> QED BY <2>1 DEF Rest
<1>7. \/ Step1(u) = "save" /\ registry' = NoEntries /\ prices' = prices
      \/ Step1(u) = "save_prices" /\ prices' = NoPrices /\ registry' = registry
  BY <1>2 DEF SaveEmpties
<1> HIDE DEF t
<1> QED BY <1>1, <1>3, <1>4, <1>5, <1>6, <1>7, Files, Passed

LEMMA OfSaveFills ==
    ASSUME TypeOK, NEW u \in Users, SaveFills(u)
    PROVE  /\ u \in Busy /\ Step1(u) = "fill" /\ proc[u].copy \in Copies
           /\ \/ /\ proc[u].copy.file = "registry" /\ registry' = Content(u) /\ prices' = prices
                 /\ wish' = [wish EXCEPT ![P(u)] = Wanted(@, proc[u].arg)]
                 /\ proc[u].arg.steps \in RegistryCommands
              \/ /\ proc[u].copy.file = "prices" /\ prices' = Content(u)
                 /\ registry' = registry /\ wish' = wish
                 /\ proc[u].arg.steps # RemoveCommand
           /\ \/ Ends(u) /\ proc[u].arg.steps # RemoveCommand
              \/ /\ GoesOn(u) /\ Busy' = Busy
                 /\ proc'[u].arg = proc[u].arg /\ proc'[u].copy = proc[u].copy
                 /\ \/ Step1(u)' = "load_prices" /\ proc[u].arg.steps # RemoveCommand
                    \/ Step1(u)' = "delete" /\ proc[u].arg.steps = RemoveCommand
<1>1. u \in Busy /\ Working
  BY DEF SaveFills, At, Busy, Procs, TypeOK
<1>2. Step1(u) = "fill" /\ At(u, "fill") /\ Works(u)
  BY <1>1, AtWork DEF SaveFills
<1>3. \/ Rest(u) = <<>> /\ proc[u].arg.steps # RemoveCommand
      \/ Goes(proc[u].arg.steps, Rest(u)) /\ Head(Rest(u)) = "load_prices" /\ proc[u].arg.steps # RemoveCommand
      \/ Goes(proc[u].arg.steps, Rest(u)) /\ Head(Rest(u)) = "delete" /\ proc[u].arg.steps = RemoveCommand
  BY <1>1, <1>2, AtWork DEF Follows, Rest, Step1
<1>4. proc[u].copy \in Copies /\ proc[u].copy.file \in {"registry", "prices"}
  BY <1>2, Files DEF Works
<1>5. \/ /\ proc[u].copy.file = "registry" /\ registry' = Content(u) /\ prices' = prices
         /\ wish' = [wish EXCEPT ![P(u)] = Wanted(@, proc[u].arg)]
      \/ /\ proc[u].copy.file = "prices" /\ prices' = Content(u)
         /\ registry' = registry /\ wish' = wish
  BY DEF SaveFills, Content
<1>6. /\ proc[u].copy.file = "registry" => proc[u].arg.steps \in RegistryCommands
      /\ proc[u].copy.file = "prices" => proc[u].arg.steps # RemoveCommand
  BY <1>2 DEF Works
<1>7. Become(u, [proc[u] EXCEPT !.todo = Rest(u)])
  BY <1>1, AtWork DEF SaveFills, Done, Rest, Fields
<1>8. FileOf("load_prices") = {} /\ FileOf("delete") = {}
  BY Files
<1>9. \/ Ends(u) /\ proc[u].arg.steps # RemoveCommand
      \/ /\ GoesOn(u) /\ Busy' = Busy
         /\ proc'[u].arg = proc[u].arg /\ proc'[u].copy = proc[u].copy
         /\ \/ Step1(u)' = "load_prices" /\ proc[u].arg.steps # RemoveCommand
            \/ Step1(u)' = "delete" /\ proc[u].arg.steps = RemoveCommand
  <2>1. CASE Rest(u) = <<>> /\ proc[u].arg.steps # RemoveCommand
    BY <1>1, <1>7, <2>1, Ended
  <2>2. CASE /\ Goes(proc[u].arg.steps, Rest(u))
             /\ \/ Head(Rest(u)) = "load_prices" /\ proc[u].arg.steps # RemoveCommand
                \/ Head(Rest(u)) = "delete" /\ proc[u].arg.steps = RemoveCommand
    <3>1. /\ GoesOn(u) /\ Busy' = Busy /\ Step1(u)' = Head(Rest(u))
          /\ proc'[u].arg = proc[u].arg /\ proc'[u].copy = proc[u].copy
      BY <1>1, <1>7, <1>8, <2>2, Passed
    <3> QED BY <2>2, <3>1
  <2> QED BY <1>3, <2>1, <2>2
<1> QED BY <1>1, <1>2, <1>4, <1>5, <1>6, <1>9

\* Storing a secret: in the keychain, or in a copy of the vault.
LEMMA OfSetSecret ==
    ASSUME TypeOK, NEW q \in Busy, NEW v \in Secrets, SetSecret(q, v),
           Goes(proc[q].arg.steps, <<"save_vault">> \o Rest(q)),
           Rest(q) = <<>> \/ (Goes(proc[q].arg.steps, Rest(q)) /\ Head(Rest(q)) = "load")
    PROVE  \/ /\ up /\ keychain' = [keychain EXCEPT ![P(q)] = v] /\ raced' = raced
              /\ \/ Rest(q) = <<>> /\ Ends(q)
                 \/ /\ Rest(q) # <<>> /\ GoesOn(q) /\ Busy' = Busy /\ Step1(q)' = "load"
                    /\ proc'[q].arg = proc[q].arg /\ proc'[q].copy = proc[q].copy
           \/ /\ ~up /\ keychain' = keychain
              /\ raced' = raced \cup {"vault" : x \in Holding("vault") \ {q}}
              /\ GoesOn(q) /\ Busy' = Busy /\ Step1(q)' = "save_vault"
              /\ proc'[q].arg = proc[q].arg /\ proc'[q].token = proc[q].token
              /\ proc'[q].copy = [file |-> "vault", content |-> [vault EXCEPT ![P(q)] = v]]
<1>1. Working /\ up \in BOOLEAN
  BY DEF TypeOK
<1>2. CASE up
  <2>1. keychain' = [keychain EXCEPT ![P(q)] = v] /\ Done(q) /\ raced' = raced
    BY <1>2 DEF SetSecret
  <2>2. Become(q, [proc[q] EXCEPT !.todo = Rest(q)])
    BY <1>1, <2>1, AtWork DEF Done, Rest, Fields
  <2>3. FileOf("load") = {}
    BY Files
  <2>4. CASE Rest(q) = <<>>
    BY <1>1, <1>2, <2>1, <2>2, <2>4, Ended
  <2>5. CASE Goes(proc[q].arg.steps, Rest(q)) /\ Head(Rest(q)) = "load"
    <3>1. Rest(q) # <<>>
      BY <2>5, Steps
    <3> QED BY <1>1, <1>2, <2>1, <2>2, <2>3, <2>5, <3>1, Passed
  <2> QED BY <2>4, <2>5
<1>3. CASE ~up
  <2> DEFINE t == <<"save_vault">> \o Rest(q)
             f == [vault EXCEPT ![P(q)] = v]
  <2>1. Take(q, "vault", f, t) /\ keychain' = keychain
    BY <1>3 DEF SetSecret
  <2>2. f \in [Providers -> Secrets \cup {NULL}]
    BY DEF TypeOK
  <2>3. Head(t) = "save_vault"
    <3>1. \A x : Head(<<"save_vault">> \o Tail(x)) = "save_vault"
      OBVIOUS
    <3> QED BY <3>1 DEF Rest
  <2>4. FileOf("save_vault") = {"vault"} /\ Goes(proc[q].arg.steps, t)
    BY Files
  <2> HIDE DEF f, t
  <2>5. [file |-> "vault", content |-> f] \in Copies
    BY <2>2, NewCopies
  <2>6. /\ GoesOn(q) /\ Busy' = Busy /\ Step1(q)' = Head(t)
        /\ proc'[q].arg = proc[q].arg /\ proc'[q].token = proc[q].token
        /\ proc'[q].copy = [file |-> "vault", content |-> f]
        /\ raced' = raced \cup {"vault" : x \in Holding("vault") \ {q}}
    BY <1>1, <2>1, <2>3, <2>4, <2>5, Taken
  <2> QED BY <1>3, <2>1, <2>3, <2>6 DEF f
<1> QED BY <1>2, <1>3

LEMMA OfStoreKey ==
    ASSUME TypeOK, NEW u \in Users, StoreKey(u)
    PROVE  /\ u \in Busy /\ Step1(u) = "set" /\ proc[u].arg.steps = Keyed /\ proc[u].arg.key # "none"
           /\ GoesOn(u) /\ Busy' = Busy /\ proc'[u].arg = proc[u].arg
           /\ \E v \in {server[P(u)], TypedKey} :
              \/ /\ up /\ keychain' = [keychain EXCEPT ![P(u)] = v] /\ raced' = raced
                 /\ Step1(u)' = "load" /\ proc'[u].copy = proc[u].copy
              \/ /\ ~up /\ keychain' = keychain
                 /\ raced' = raced \cup {"vault" : x \in Holding("vault") \ {u}}
                 /\ Step1(u)' = "save_vault"
                 /\ proc'[u].copy = [file |-> "vault", content |-> [vault EXCEPT ![P(u)] = v]]
<1>1. u \in Busy /\ Working
  BY DEF StoreKey, At, Busy, Procs, TypeOK
<1>2. Step1(u) = "set" /\ proc[u].arg \in Commands /\ P(u) \in Providers
  BY <1>1, AtWork DEF StoreKey
<1>3. /\ proc[u].arg.steps = Keyed /\ Goes(proc[u].arg.steps, Rest(u)) /\ Head(Rest(u)) = "load"
      /\ Goes(proc[u].arg.steps, <<"save_vault">> \o Rest(u))
  BY <1>1, <1>2, AtWork DEF Follows, Step1, Rest
<1>4. proc[u].arg.key # "none"
  BY <1>2, <1>3, OfCommands
<1>5. PICK v \in {server[P(u)], TypedKey} : SetSecret(u, v)
  BY DEF StoreKey
<1>6. v \in Secrets
  BY <1>2 DEF Secrets, TypeOK
<1>7. Rest(u) # <<>>
  BY <1>3, Steps
<1> QED BY <1>1, <1>2, <1>3, <1>4, <1>5, <1>6, <1>7, OfSetSecret

LEMMA OfStoreToken ==
    ASSUME TypeOK, NEW s \in Sessions, StoreToken(s)
    PROVE  /\ s \in Busy /\ Step1(s) = "store" /\ P(s) \in OAuthOf
           /\ \/ /\ up /\ keychain' = [keychain EXCEPT ![P(s)] = proc[s].token] /\ raced' = raced
                 /\ Ends(s)
              \/ /\ ~up /\ keychain' = keychain
                 /\ raced' = raced \cup {"vault" : x \in Holding("vault") \ {s}}
                 /\ GoesOn(s) /\ Busy' = Busy /\ Step1(s)' = "save_vault"
                 /\ proc'[s].arg = proc[s].arg /\ proc'[s].token = proc[s].token
                 /\ proc'[s].copy = [file |-> "vault", content |-> [vault EXCEPT ![P(s)] = proc[s].token]]
<1>1. s \in Busy /\ Working
  BY DEF StoreToken, At, Busy, Procs, TypeOK
<1>2. Step1(s) = "store" /\ proc[s].arg \in RefreshTokens /\ proc[s].token \in Nat
  BY <1>1, AtWork DEF StoreToken, Works
<1>3. Rest(s) = <<>> /\ Goes(proc[s].arg.steps, <<"save_vault">> \o Rest(s))
  BY <1>1, <1>2, AtWork DEF Follows, Step1, Rest
<1>4. P(s) \in OAuthOf
  BY <1>2, OfRefreshes DEF P
<1>5. SetSecret(s, proc[s].token) /\ proc[s].token \in Secrets
  BY <1>2 DEF StoreToken, Secrets
<1> QED BY <1>1, <1>2, <1>3, <1>4, <1>5, OfSetSecret

LEMMA OfDeleteSecret ==
    ASSUME TypeOK, NEW u \in Users, DeleteSecret(u)
    PROVE  /\ u \in Busy /\ Step1(u) = "delete" /\ proc[u].arg.steps = RemoveCommand
           /\ keychain' = IF up THEN [keychain EXCEPT ![P(u)] = NULL] ELSE keychain
           /\ raced' = raced \cup {"vault" : x \in Holding("vault") \ {u}}
           /\ GoesOn(u) /\ Busy' = Busy /\ Step1(u)' = "save_vault"
           /\ proc'[u].arg = proc[u].arg
           /\ proc'[u].copy = [file |-> "vault", content |-> [vault EXCEPT ![P(u)] = NULL]]
<1> DEFINE t == <<"save_vault">> \o Rest(u)
           f == [vault EXCEPT ![P(u)] = NULL]
<1>1. u \in Busy /\ Working
  BY DEF DeleteSecret, At, Busy, Procs, TypeOK
<1>2. Step1(u) = "delete"
  BY <1>1, AtWork DEF DeleteSecret
<1>3. proc[u].arg.steps = RemoveCommand /\ Goes(proc[u].arg.steps, t)
  BY <1>1, <1>2, AtWork DEF Follows, Step1, Rest
<1>4. Take(u, "vault", f, t) /\ keychain' = IF up THEN [keychain EXCEPT ![P(u)] = NULL] ELSE keychain
  BY DEF DeleteSecret
<1>5. f \in [Providers -> Secrets \cup {NULL}]
  BY DEF TypeOK
<1>6. Head(t) = "save_vault"
  <2>1. \A x : Head(<<"save_vault">> \o Tail(x)) = "save_vault"
    OBVIOUS
  <2> QED BY <2>1 DEF Rest
<1>7. FileOf("save_vault") = {"vault"}
  BY Files
<1> HIDE DEF f, t
<1>8. [file |-> "vault", content |-> f] \in Copies
  BY <1>5, NewCopies
<1>9. /\ GoesOn(u) /\ Busy' = Busy /\ Step1(u)' = Head(t)
      /\ proc'[u].arg = proc[u].arg
      /\ proc'[u].copy = [file |-> "vault", content |-> f]
      /\ raced' = raced \cup {"vault" : x \in Holding("vault") \ {u}}
  BY <1>1, <1>3, <1>4, <1>6, <1>7, <1>8, Taken
<1> QED BY <1>1, <1>2, <1>3, <1>4, <1>6, <1>9 DEF f

LEMMA OfSaveVault ==
    ASSUME TypeOK, NEW q \in Procs, SaveVault(q)
    PROVE  /\ q \in Busy /\ Step1(q) = "save_vault" /\ q \in Holding("vault")
           /\ vault' = Content(q) /\ Content(q) \in [Providers -> Secrets \cup {NULL}]
           /\ \/ Ends(q) /\ proc[q].arg.steps # Keyed
              \/ /\ GoesOn(q) /\ Busy' = Busy /\ Step1(q)' = "load" /\ proc[q].arg.steps = Keyed
                 /\ proc'[q].arg = proc[q].arg /\ proc'[q].copy = proc[q].copy
<1>1. q \in Busy /\ Working
  BY DEF SaveVault, At, Busy, TypeOK
<1>2. Step1(q) = "save_vault" /\ Works(q)
  BY <1>1, AtWork DEF SaveVault
<1>3. proc[q].copy \in Copies /\ proc[q].copy # NULL /\ proc[q].copy.file = "vault"
  BY <1>2, Files DEF Works
<1>4. q \in Holding("vault") /\ Content(q) \in [Providers -> Secrets \cup {NULL}]
  BY <1>1, <1>3, OfCopies DEF Holding, Content
<1>5. vault' = Content(q)
  BY DEF SaveVault, Content
<1>6. Become(q, [proc[q] EXCEPT !.todo = Rest(q)])
  BY <1>1, AtWork DEF SaveVault, Done, Rest, Fields
<1>7. \/ Rest(q) = <<>> /\ proc[q].arg.steps # Keyed
      \/ proc[q].arg.steps = Keyed /\ Goes(proc[q].arg.steps, Rest(q)) /\ Head(Rest(q)) = "load"
  BY <1>1, <1>2, AtWork DEF Follows, Step1, Rest
<1>8. FileOf("load") = {}
  BY Files
<1>9. CASE Rest(q) = <<>> /\ proc[q].arg.steps # Keyed
  <2>1. Ends(q)
    BY <1>1, <1>6, <1>9, Ended
  <2> QED BY <1>1, <1>2, <1>4, <1>5, <1>9, <2>1
<1>10. CASE proc[q].arg.steps = Keyed /\ Goes(proc[q].arg.steps, Rest(q)) /\ Head(Rest(q)) = "load"
  <2>1. /\ GoesOn(q) /\ Busy' = Busy /\ Step1(q)' = "load"
        /\ proc'[q].arg = proc[q].arg /\ proc'[q].copy = proc[q].copy
    BY <1>1, <1>6, <1>8, <1>10, Passed
  <2> QED BY <1>1, <1>2, <1>4, <1>5, <1>10, <2>1
<1> QED BY <1>7, <1>9, <1>10

LEMMA OfRefresh ==
    ASSUME TypeOK, NEW s \in Sessions, Refresh(s)
    PROVE  /\ s \in Busy /\ Step1(s) = "refresh" /\ P(s) \in OAuthOf
           /\ \/ Ends(s) /\ server' = server
              \/ /\ proc[s].token = server[P(s)]
                 /\ server' = [server EXCEPT ![P(s)] = IF Rotates THEN @ + 1 ELSE @]
                 /\ GoesOn(s) /\ Busy' = Busy /\ Step1(s)' = "store"
                 /\ proc'[s].arg = proc[s].arg /\ proc'[s].copy = proc[s].copy
                 /\ proc'[s].token = server'[P(s)]
<1> DEFINE r == [proc[s] EXCEPT !.token = server'[P(s)], !.todo = Rest(s)]
<1>1. s \in Busy /\ Working /\ s \in Procs
  BY DEF Refresh, At, Busy, Procs, TypeOK
<1>2. Step1(s) = "refresh" /\ proc[s].arg \in RefreshTokens /\ P(s) \in Providers /\ DOMAIN proc[s] = Fields
      /\ Works(s)
  BY <1>1, AtWork DEF Refresh
<1>3. Goes(proc[s].arg.steps, Rest(s)) /\ Head(Rest(s)) = "store"
  BY <1>1, <1>2, AtWork DEF Follows, Step1, Rest
<1>4. P(s) \in OAuthOf
  BY <1>2, OfRefreshes DEF P
<1>5. CASE proc[s].token # server[P(s)]
  <2>1. Finish(s) /\ server' = server
    BY <1>5 DEF Refresh
  <2> QED BY <1>1, <1>2, <1>4, <2>1, Ending
<1>6. CASE proc[s].token = server[P(s)]
  <2>1. server' = [server EXCEPT ![P(s)] = IF Rotates THEN @ + 1 ELSE @] /\ Become(s, r)
    BY <1>2, <1>6 DEF Refresh, Rest, Fields
  <2>2. server'[P(s)] \in Nat
    BY <1>2, <2>1, StoresOK DEF TypeOK
  <2>3. /\ DOMAIN r = Fields /\ r.arg = proc[s].arg /\ r.copy = proc[s].copy /\ r.todo = Rest(s)
        /\ r.token = server'[P(s)]
    BY <1>2 DEF Fields
  <2>4. FileOf("store") = {}
    BY Files
  <2> HIDE DEF r
  <2>5. /\ s \notin Users /\ r.copy \in Copies \cup {NULL}
        /\ r.arg \in RefreshTokens
    BY <1>2, <2>3, StoresOK DEF Works
  <2>6. GoesOn(s) /\ proc'[s] = r
    BY <1>1, <1>3, <2>1, <2>2, <2>3, <2>4, <2>5, GoingOn
  <2>7. Busy' = Busy /\ Step1(s)' = "store"
    BY <1>1, <1>3, <2>3, <2>6 DEF GoesOn, Step1
  <2> QED BY <1>1, <1>2, <1>4, <1>6, <2>1, <2>3, <2>6, <2>7
<1> QED BY <1>5, <1>6

\* A command begins: its process has no copy yet.
LEMMA Begins ==
    ASSUME Working, NEW q \in Procs, NEW c, NEW k, NEW r, Become(q, r),
           DOMAIN r = Fields, r.todo = c.steps, r.arg = c, r.copy = NULL, r.token = k,
           q \in Users => c \in Commands,
           q \in Sessions => c \in RefreshTokens /\ k \in Nat,
           c \in Commands \cup RefreshTokens
    PROVE  /\ GoesOn(q) /\ Step1(q)' = Head(c.steps)
           /\ proc'[q].arg = c /\ proc'[q].copy = NULL /\ proc'[q].token = k
<1>2. Goes(c.steps, c.steps) /\ Head(c.steps) \in {"set", "load", "load_prices", "refresh"}
  BY Begun
<1>3. FileOf(Head(c.steps)) = {} /\ Head(c.steps) # "fill"
  BY <1>2, Files
<1>4. GoesOn(q) /\ proc'[q] = r
  BY <1>2, <1>3, GoingOn
<1> QED BY <1>4 DEF Step1

LEMMA OfBegin ==
    ASSUME TypeOK, NEW u \in Users, Begin(u)
    PROVE  /\ u \in Procs /\ u \notin Busy /\ GoesOn(u) /\ proc'[u].copy = NULL
           /\ Step1(u)' \in {"set", "load", "load_prices"}
           /\ Step1(u)' = "load" => proc'[u].arg.key = "none"
           /\ proc'[u].arg \in Commands /\ Race(u, proc'[u].arg.p)
<1>1. Working /\ u \in Procs
  BY DEF Procs, TypeOK
<1>2. PICK c \in Commands : Become(u, [Idle EXCEPT !.todo = c.steps, !.arg = c]) /\ Race(u, c.p)
  BY DEF Begin
<1> DEFINE r == [Idle EXCEPT !.todo = c.steps, !.arg = c]
<1>3. DOMAIN r = Fields /\ r.todo = c.steps /\ r.arg = c /\ r.copy = NULL /\ r.token = NULL
  BY DEF Idle, Fields
<1> HIDE DEF r
<1>4. u \notin Sessions
  BY StoresOK
<1>5. GoesOn(u) /\ Step1(u)' = Head(c.steps) /\ proc'[u].arg = c /\ proc'[u].copy = NULL
  BY <1>1, <1>2, <1>3, <1>4, Begins DEF r
<1>6. Head(c.steps) \in {"set", "load", "load_prices"} /\ (Head(c.steps) = "load" => c.key = "none")
  BY Begun
<1> QED BY <1>1, <1>2, <1>5, <1>6 DEF Begin

LEMMA OfReadToken ==
    ASSUME TypeOK, NEW s \in Sessions, ReadToken(s)
    PROVE  /\ s \in Procs /\ s \notin Busy /\ GoesOn(s) /\ proc'[s].copy = NULL
           /\ Step1(s)' = "refresh" /\ proc'[s].arg \in RefreshTokens
           /\ proc'[s].token = Secret(proc'[s].arg.p) /\ proc'[s].token \in Nat
           /\ Race(s, proc'[s].arg.p)
<1>1. Working /\ s \in Procs
  BY DEF Procs, TypeOK
<1>2. PICK c \in RefreshTokens :
         /\ Secret(c.p) \in Nat /\ Race(s, c.p)
         /\ Become(s, [Idle EXCEPT !.todo = c.steps, !.arg = c, !.token = Secret(c.p)])
  BY DEF ReadToken
<1> DEFINE r == [Idle EXCEPT !.todo = c.steps, !.arg = c, !.token = Secret(c.p)]
<1>3. DOMAIN r = Fields /\ r.todo = c.steps /\ r.arg = c /\ r.copy = NULL /\ r.token = Secret(c.p)
  BY DEF Idle, Fields
<1> HIDE DEF r
<1>4. s \notin Users
  BY StoresOK
<1>5. /\ GoesOn(s) /\ Step1(s)' = Head(c.steps) /\ proc'[s].arg = c /\ proc'[s].copy = NULL
      /\ proc'[s].token = Secret(c.p)
  BY <1>1, <1>2, <1>3, <1>4, Begins DEF r
<1>6. Head(c.steps) = "refresh"
  BY Begun
<1> QED BY <1>1, <1>2, <1>5, <1>6 DEF ReadToken

-----------------------------------------------------------------------------
(* Types.                                                                  *)

LEMMA InitStored == Init => Stored
<1> SUFFICES ASSUME Init PROVE Stored
  OBVIOUS
<1>1. DOMAIN Idle = Fields /\ Idle.todo = <<>>
  BY DEF Idle, Fields
<1>2. DOMAIN proc = Procs /\ \A q \in Procs : proc[q] = Idle
  BY DEF Init
<1>3. Busy = {} /\ \A file : Holding(file) = {}
  BY <1>1, <1>2 DEF Busy, Holding
<1>4. /\ registry = NoEntries /\ prices = NoPrices /\ keychain = NoEntries /\ vault = NoEntries
      /\ up \in BOOLEAN /\ server = [p \in Providers |-> 0] /\ flips = 0
      /\ wish = [p \in Providers |-> NoWish]
  BY DEF Init
<1>5. TypeOK
  <2>1. Working
    BY <1>1, <1>2, <1>3 DEF Working
  <2>2. /\ NoEntries \in [Providers -> Entries \cup {NULL}] /\ NoEntries \in [Providers -> Secrets \cup {NULL}]
        /\ NoPrices \in [Providers -> SUBSET Models] /\ NoWish \in WishTypes
    BY DEF NoEntries, NoPrices, NoWish, WishTypes
  <2> QED BY <1>4, <2>1, <2>2 DEF TypeOK
<1>6. Apart /\ Vaults
  BY <1>3 DEF Apart, Vaults
<1>7. \A p \in Providers : registry[p] = NULL /\ keychain[p] = NULL /\ vault[p] = NULL
  BY <1>4 DEF NoEntries
<1>8. Keys
  BY <1>3, <1>7 DEF Keys, KeysOf, Needs
<1>9. Steady
  BY <1>3, <1>4 DEF Steady
<1>10. Tokens
  <2>1. \A p \in OAuthOf : Secret(p) = NULL
    BY <1>7, StoresOK DEF Secret
  <2>2. NULL \notin Nat
    BY StoresOK DEF Secrets
  <2>3. \A s, p : ~Storing(s, p) /\ ~Refreshing(s, p)
    BY <1>3 DEF Storing, Refreshing
  <2> QED BY <1>3, <2>1, <2>2, <2>3 DEF Tokens, TokensOf
<1>11. Wishes
  <2>1. \A p \in Providers : Agrees(registry[p], wish[p])
    BY <1>4, <1>7 DEF Agrees, NoWish
  <2> QED BY <1>3, <2>1 DEF Wishes
<1> QED BY <1>5, <1>6, <1>8, <1>9, <1>10, <1>11 DEF Stored

LEMMA NextTypes ==
    ASSUME TypeOK, [Next]_vars
    PROVE  TypeOK'
<1>0. Working
  BY DEF TypeOK
<1>1. ASSUME NEW u \in Users, Begin(u) PROVE TypeOK'
  <2>1. Working'
    BY <1>0, <1>1, OfBegin, StillWorking
  <2> QED BY <1>1, <2>1 DEF Begin, TypeOK, stores
<1>2. ASSUME NEW u \in Users, LoadRegistry(u) PROVE TypeOK'
  <2>1. Working'
    BY <1>0, <1>2, OfLoadRegistry, StillWorking DEF Procs
  <2> QED BY <1>2, <2>1 DEF LoadRegistry, TypeOK, stores
<1>3. ASSUME NEW u \in Users, LoadPrices(u) PROVE TypeOK'
  <2>1. Working'
    BY <1>0, <1>3, OfLoadPrices, StillWorking DEF Procs
  <2> QED BY <1>3, <2>1 DEF LoadPrices, TypeOK, stores
<1>4. ASSUME NEW u \in Users, EditRegistry(u) PROVE TypeOK'
  <2>1. Working'
    BY <1>0, <1>4, OfEditRegistry, StillWorking DEF Procs
  <2> QED BY <1>4, <2>1 DEF EditRegistry, TypeOK, stores
<1>5. ASSUME NEW u \in Users, EditPrices(u) PROVE TypeOK'
  <2>1. Working'
    BY <1>0, <1>5, OfEditPrices, StillWorking DEF Procs
  <2> QED BY <1>5, <2>1 DEF EditPrices, TypeOK, stores
<1>6. ASSUME NEW u \in Users, GiveUp(u) PROVE TypeOK'
  <2>1. Working'
    BY <1>0, <1>6, OfGiveUp, StillWorking DEF Procs
  <2> QED BY <1>6, <2>1 DEF GiveUp, TypeOK, stores
<1>7. ASSUME NEW u \in Users, SaveEmpties(u) PROVE TypeOK'
  <2>1. Working'
    BY <1>0, <1>7, OfSaveEmpties, StillWorking DEF Procs
  <2>2. NoEntries \in [Providers -> Entries \cup {NULL}] /\ NoPrices \in [Providers -> SUBSET Models]
    BY DEF NoEntries, NoPrices
  <2>3. registry' \in {registry, NoEntries} /\ prices' \in {prices, NoPrices}
    BY <1>7, OfSaveEmpties
  <2> QED BY <1>7, <2>1, <2>2, <2>3 DEF SaveEmpties, TypeOK, stores
<1>8. ASSUME NEW u \in Users, SaveFills(u) PROVE TypeOK'
  <2>1. Working'
    BY <1>0, <1>8, OfSaveFills, StillWorking DEF Procs
  <2>2. CASE /\ proc[u].copy.file = "registry" /\ registry' = Content(u) /\ prices' = prices
             /\ wish' = [wish EXCEPT ![P(u)] = Wanted(@, proc[u].arg)]
             /\ proc[u].arg.steps \in RegistryCommands
    <3>1. Content(u) \in [Providers -> Entries \cup {NULL}]
      BY <1>8, <2>2, OfSaveFills, OfCopies DEF Content
    <3>2. P(u) \in Providers /\ proc[u].arg \in Commands
      BY <1>0, <1>8, OfSaveFills, AtWork
    <3>3. wish[P(u)] \in WishTypes
      BY <3>2 DEF TypeOK
    <3>4. Wanted(wish[P(u)], proc[u].arg) \in WishTypes
      BY <2>2, <3>2, <3>3, WantedTypes
    <3>5. wish' \in [Providers -> WishTypes]
      BY <2>2, <3>4 DEF TypeOK
    <3> QED BY <1>8, <2>1, <2>2, <3>1, <3>5 DEF SaveFills, TypeOK, stores
  <2>3. CASE /\ proc[u].copy.file = "prices" /\ prices' = Content(u)
             /\ registry' = registry /\ wish' = wish
    <3>1. Content(u) \in [Providers -> SUBSET Models]
      BY <1>8, <2>3, OfSaveFills, OfCopies DEF Content
    <3> QED BY <1>8, <2>1, <2>3, <3>1 DEF SaveFills, TypeOK, stores
  <2> QED BY <1>8, <2>2, <2>3, OfSaveFills
<1>9. ASSUME NEW u \in Users, StoreKey(u) PROVE TypeOK'
  <2>1. Working' /\ P(u) \in Providers
    BY <1>0, <1>9, OfStoreKey, StillWorking, AtWork DEF Procs
  <2>2. {server[P(u)], TypedKey} \subseteq Secrets
    BY <2>1 DEF TypeOK, Secrets
  <2>3. keychain' \in [Providers -> Secrets \cup {NULL}]
    BY <1>9, <2>2, OfStoreKey DEF TypeOK
  <2> QED BY <1>9, <2>1, <2>3 DEF StoreKey, SetSecret, TypeOK, stores
<1>10. ASSUME NEW u \in Users, DeleteSecret(u) PROVE TypeOK'
  <2>1. Working'
    BY <1>0, <1>10, OfDeleteSecret, StillWorking DEF Procs
  <2>2. keychain' \in [Providers -> Secrets \cup {NULL}]
    BY <1>10 DEF DeleteSecret, TypeOK
  <2> QED BY <1>10, <2>1, <2>2 DEF DeleteSecret, TypeOK, stores
<1>11. ASSUME NEW s \in Sessions, ReadToken(s) PROVE TypeOK'
  <2>1. Working'
    BY <1>0, <1>11, OfReadToken, StillWorking
  <2> QED BY <1>11, <2>1 DEF ReadToken, TypeOK, stores
<1>12. ASSUME NEW s \in Sessions, Refresh(s) PROVE TypeOK'
  <2>1. Working' /\ P(s) \in Providers
    BY <1>0, <1>12, OfRefresh, StillWorking, AtWork DEF Procs
  <2>2. server' \in [Providers -> Nat]
    BY <1>12, <2>1, OfRefresh, StoresOK DEF TypeOK
  <2> QED BY <1>12, <2>1, <2>2 DEF Refresh, TypeOK, stores
<1>13. ASSUME NEW s \in Sessions, StoreToken(s) PROVE TypeOK'
  <2>1. Working' /\ proc[s].token \in Secrets
    BY <1>0, <1>13, OfStoreToken, StillWorking, AtWork DEF Procs, Works, Secrets
  <2>2. keychain' \in [Providers -> Secrets \cup {NULL}]
    BY <1>13, <2>1, OfStoreToken DEF TypeOK
  <2> QED BY <1>13, <2>1, <2>2 DEF StoreToken, SetSecret, TypeOK, stores
<1>14. ASSUME NEW q \in Procs, SaveVault(q) PROVE TypeOK'
  <2>1. Working' /\ vault' \in [Providers -> Secrets \cup {NULL}]
    BY <1>0, <1>14, OfSaveVault, StillWorking
  <2> QED BY <1>14, <2>1 DEF SaveVault, TypeOK, stores
<1>15. ASSUME NEW q \in Procs, Die(q) PROVE TypeOK'
  <2>1. Working'
    BY <1>0, <1>15, OfDie, StillWorking
  <2> QED BY <1>15, <2>1 DEF Die, TypeOK, stores
<1>16. CASE Flip
  <2>1. Working'
    BY <1>0, <1>16 DEF Flip, Working, Works, Busy, Step1, At
  <2>2. up' \in BOOLEAN /\ flips' \in Nat
    BY <1>16 DEF Flip, TypeOK
  <2> QED BY <1>16, <2>1, <2>2 DEF Flip, TypeOK
<1>17. CASE UNCHANGED vars
  <2>1. Working'
    BY <1>0, <1>17 DEF vars, Working, Works, Busy, Step1, At
  <2> QED BY <1>17, <2>1 DEF vars, stores, TypeOK
<1> QED BY <1>1, <1>2, <1>3, <1>4, <1>5, <1>6, <1>7, <1>8, <1>9, <1>10, <1>11, <1>12, <1>13, <1>14, <1>15,
           <1>16, <1>17 DEF Next, Step

-----------------------------------------------------------------------------
(* Who is busy with what, and who holds which file.                        *)

\* A process that is not the one that takes the step does what it did.
LEMMA Bystanders ==
    ASSUME NEW q, Frame(q), NEW x \in Busy', x # q, Busy' \subseteq Busy \cup {q}
    PROVE  /\ x \in Busy /\ proc'[x] = proc[x] /\ P(x)' = P(x) /\ Step1(x)' = Step1(x)
           /\ Content(x)' = Content(x)
           /\ \A f : x \in Holding(f)' <=> x \in Holding(f)
           /\ \A s : At(x, s)' <=> At(x, s)
<1>1. x \in Busy /\ x \in Procs
  BY DEF Busy
<1>2. proc'[x] = proc[x]
  BY <1>1 DEF Frame, Others
<1> QED BY <1>1, <1>2 DEF P, Step1, Content, At, Holding

LEMMA ApartEnds ==
    ASSUME Apart, NEW q, Ends(q), raced \subseteq raced'
    PROVE  Apart'
<1>1. Frame(q) /\ Busy' = Busy \ {q}
  BY DEF Ends
<1>2. ASSUME NEW x \in Busy'
      PROVE  x \in Busy /\ P(x)' = P(x) /\ \A f : x \in Holding(f)' => x \in Holding(f)
  <2>1. x # q /\ Busy' \subseteq Busy \cup {q}
    BY <1>1
  <2> QED BY <1>1, <2>1, Bystanders
<1>3. \A f : Holding(f)' \subseteq Busy'
  BY DEF Holding
<1> QED BY <1>2, <1>3 DEF Apart

\* q goes on with a copy that it has already, or that nobody else has.
LEMMA ApartGoesOn ==
    ASSUME Apart, NEW q \in Busy, GoesOn(q), Busy' = Busy, proc'[q].arg = proc[q].arg, raced \subseteq raced',
           \A f : q \in Holding(f)' => q \in Holding(f) \/ Holding(f) \ {q} = {} \/ f \in raced'
    PROVE  Apart'
<1>1. Frame(q) /\ P(q)' = P(q)
  BY DEF GoesOn, P
<1>2. ASSUME NEW x \in Busy', x # q
      PROVE  x \in Busy /\ P(x)' = P(x) /\ \A f : x \in Holding(f)' => x \in Holding(f)
  BY <1>1, <1>2, Bystanders
<1>3. \A f : Holding(f)' \subseteq Busy'
  BY DEF Holding
<1>4. ASSUME NEW f \in {"registry", "prices", "vault"} \ raced', NEW x \in Holding(f)', NEW y \in Holding(f)'
      PROVE  x = y
  <2>1. \A z \in Holding(f)' : z # q => z \in Holding(f)
    BY <1>2, <1>3
  <2>2. q \in Holding(f)' => q \in Holding(f) \/ Holding(f) \ {q} = {}
    OBVIOUS
  <2> QED BY <2>1, <2>2 DEF Apart
<1>5. ASSUME NEW p \in Providers \ raced', NEW x \in Busy', NEW y \in Busy', P(x)' = p, P(y)' = p
      PROVE  x = y \/ {x, y} \cap Users = {}
  <2>1. P(x) = p /\ P(y) = p /\ x \in Busy /\ y \in Busy
    BY <1>1, <1>2, <1>5
  <2> QED BY <2>1 DEF Apart
<1> QED BY <1>4, <1>5 DEF Apart

LEMMA ApartBegins ==
    ASSUME Apart, NEW q, q \notin Busy, GoesOn(q), proc'[q].copy = NULL, Race(q, proc'[q].arg.p)
    PROVE  Apart'
<1> DEFINE o == proc'[q].arg.p
<1>1. Frame(q) /\ Busy' = Busy \cup {q}
  BY DEF GoesOn
<1>2. ASSUME NEW x \in Busy', x # q
      PROVE  x \in Busy /\ P(x)' = P(x) /\ \A f : x \in Holding(f)' => x \in Holding(f)
  BY <1>1, <1>2, Bystanders
<1>3. \A f : Holding(f)' \subseteq Busy' /\ q \notin Holding(f)'
  BY DEF Holding
<1>4. raced' = raced \cup {o : x \in {b \in Busy : P(b) = o /\ {b, q} \cap Users # {}}} /\ P(q)' = o
  BY DEF Race, P
<1>5. raced \subseteq raced' /\ \A x \in Busy : P(x) = o /\ o \notin raced' => {x, q} \cap Users = {}
  BY <1>4
<1>6. ASSUME NEW f \in {"registry", "prices", "vault"} \ raced', NEW x \in Holding(f)', NEW y \in Holding(f)'
      PROVE  x = y
  BY <1>2, <1>3, <1>5 DEF Apart
<1>7. ASSUME NEW p \in Providers \ raced', NEW x \in Busy', NEW y \in Busy', P(x)' = p, P(y)' = p
      PROVE  x = y \/ {x, y} \cap Users = {}
  <2>1. CASE x # q /\ y # q
    BY <1>2, <1>5, <1>7, <2>1 DEF Apart
  <2>2. CASE x = q /\ y # q
    BY <1>2, <1>4, <1>5, <1>7, <2>2
  <2>3. CASE x # q /\ y = q
    BY <1>2, <1>4, <1>5, <1>7, <2>3
  <2> QED BY <2>1, <2>2, <2>3
<1> QED BY <1>6, <1>7 DEF Apart

\* q holds the file whose copy it has.
LEMMA Held ==
    ASSUME NEW q \in Busy
    PROVE  /\ \A f : q \in Holding(f) <=> proc[q].copy # NULL /\ proc[q].copy.file = f
           /\ q \in Busy' => \A f : q \in Holding(f)' <=> proc'[q].copy # NULL /\ proc'[q].copy.file = f
BY DEF Holding

\* The copy that a step needs.
LEMMA Needed ==
    ASSUME Working, NEW q \in Busy
    PROVE  /\ Step1(q) \in RegistryEdits \cup {"save"} =>
                 q \in Holding("registry") /\ proc[q].copy # NULL /\ proc[q].copy.file = "registry"
           /\ Step1(q) \in {"set_price", "clear_price", "save_prices"} =>
                 q \in Holding("prices") /\ proc[q].copy # NULL /\ proc[q].copy.file = "prices"
           /\ Step1(q) = "save_vault" =>
                 q \in Holding("vault") /\ proc[q].copy # NULL /\ proc[q].copy.file = "vault"
<1>1. FileOf(Step1(q)) # {} => proc[q].copy # NULL /\ proc[q].copy.file \in FileOf(Step1(q))
  BY AtWork DEF Works
<1>2. \A f : q \in Holding(f) <=> proc[q].copy # NULL /\ proc[q].copy.file = f
  BY Held
<1>3. Step1(q) \in RegistryEdits \cup {"save"} => FileOf(Step1(q)) = {"registry"}
  BY Files
<1>4. Step1(q) \in {"set_price", "clear_price", "save_prices"} => FileOf(Step1(q)) = {"prices"}
  BY Files
<1>5. Step1(q) = "save_vault" => FileOf(Step1(q)) = {"vault"}
  BY Files
<1> QED BY <1>1, <1>2, <1>3, <1>4, <1>5

LEMMA NextApart ==
    ASSUME TypeOK, Apart, [Next]_vars
    PROVE  Apart' /\ raced \subseteq raced'
<1>1. ASSUME NEW u \in Users, Begin(u) PROVE Apart' /\ raced \subseteq raced'
  BY <1>1, OfBegin, ApartBegins DEF Race
<1>2. ASSUME NEW u \in Users, LoadRegistry(u) PROVE Apart' /\ raced \subseteq raced'
  <2>1. raced \subseteq raced' /\ u \in Busy'
    BY <1>2, OfLoadRegistry
  <2>2. \A f : u \in Holding(f)' => f = "registry" /\ (Holding(f) \ {u} = {} \/ f \in raced')
    BY <1>2, <2>1, OfLoadRegistry, Held
  <2> QED BY <1>2, <2>1, <2>2, OfLoadRegistry, ApartGoesOn
<1>3. ASSUME NEW u \in Users, LoadPrices(u) PROVE Apart' /\ raced \subseteq raced'
  <2>1. raced \subseteq raced' /\ u \in Busy'
    BY <1>3, OfLoadPrices
  <2>2. \A f : u \in Holding(f)' => f = "prices" /\ (Holding(f) \ {u} = {} \/ f \in raced')
    BY <1>3, <2>1, OfLoadPrices, Held
  <2> QED BY <1>3, <2>1, <2>2, OfLoadPrices, ApartGoesOn
<1>4. ASSUME NEW u \in Users, EditRegistry(u) PROVE Apart' /\ raced \subseteq raced'
  <2>1. raced' = raced
    BY <1>4 DEF EditRegistry
  <2>2. CASE Ends(u)
    BY <2>1, <2>2, ApartEnds
  <2>3. CASE /\ GoesOn(u) /\ Busy' = Busy /\ proc'[u].arg = proc[u].arg
             /\ proc'[u].copy # NULL /\ proc'[u].copy.file = "registry"
    <3>1. u \in Busy /\ proc[u].copy # NULL /\ proc[u].copy.file = "registry"
      BY <1>4, OfEditRegistry, Needed DEF TypeOK
    <3>2. \A f : u \in Holding(f)' => u \in Holding(f)
      BY <2>3, <3>1, Held
    <3> QED BY <2>1, <2>3, <3>1, <3>2, ApartGoesOn
  <2> QED BY <1>4, <2>2, <2>3, OfEditRegistry
<1>5. ASSUME NEW u \in Users, EditPrices(u) PROVE Apart' /\ raced \subseteq raced'
  <2>1. raced' = raced
    BY <1>5 DEF EditPrices
  <2>2. CASE Ends(u)
    BY <2>1, <2>2, ApartEnds
  <2>3. CASE /\ GoesOn(u) /\ Busy' = Busy /\ proc'[u].arg = proc[u].arg
             /\ proc'[u].copy # NULL /\ proc'[u].copy.file = "prices"
    <3>1. u \in Busy /\ proc[u].copy # NULL /\ proc[u].copy.file = "prices"
      BY <1>5, OfEditPrices, Needed DEF TypeOK
    <3>2. \A f : u \in Holding(f)' => u \in Holding(f)
      BY <2>3, <3>1, Held
    <3> QED BY <2>1, <2>3, <3>1, <3>2, ApartGoesOn
  <2> QED BY <1>5, <2>2, <2>3, OfEditPrices
<1>6. ASSUME NEW u \in Users, GiveUp(u) PROVE Apart' /\ raced \subseteq raced'
  BY <1>6, OfGiveUp, ApartEnds DEF GiveUp
\* Whoever goes on with its copy stays apart.
<1>0. ASSUME NEW q \in Busy, raced \subseteq raced', GoesOn(q), Busy' = Busy, proc'[q].arg = proc[q].arg,
             proc'[q].copy = proc[q].copy
      PROVE  Apart'
  <2>1. \A f : q \in Holding(f)' => q \in Holding(f)
    BY <1>0, Held
  <2> QED BY <1>0, <2>1, ApartGoesOn
\* So does one that takes a copy of the vault, which is then raced if another has one.
<1>v. ASSUME NEW q \in Busy, raced' = raced \cup {"vault" : x \in Holding("vault") \ {q}}, GoesOn(q),
             Busy' = Busy, proc'[q].arg = proc[q].arg, NEW g, proc'[q].copy = [file |-> "vault", content |-> g]
      PROVE  Apart'
  <2>1. \A f : q \in Holding(f)' => f = "vault" /\ (Holding(f) \ {q} = {} \/ f \in raced')
    BY <1>v, Held
  <2> QED BY <1>v, <2>1, ApartGoesOn
<1>7. ASSUME NEW u \in Users, SaveEmpties(u) PROVE Apart' /\ raced \subseteq raced'
  BY <1>0, <1>7, OfSaveEmpties DEF SaveEmpties
<1>8. ASSUME NEW u \in Users, SaveFills(u) PROVE Apart' /\ raced \subseteq raced'
  <2>1. raced' = raced
    BY <1>8 DEF SaveFills
  <2> QED BY <1>0, <1>8, <2>1, OfSaveFills, ApartEnds
<1>9. ASSUME NEW u \in Users, StoreKey(u) PROVE Apart' /\ raced \subseteq raced'
  BY <1>0, <1>v, <1>9, OfStoreKey
<1>10. ASSUME NEW u \in Users, DeleteSecret(u) PROVE Apart' /\ raced \subseteq raced'
  BY <1>v, <1>10, OfDeleteSecret
<1>11. ASSUME NEW s \in Sessions, ReadToken(s) PROVE Apart' /\ raced \subseteq raced'
  BY <1>11, OfReadToken, ApartBegins DEF Race
<1>12. ASSUME NEW s \in Sessions, Refresh(s) PROVE Apart' /\ raced \subseteq raced'
  <2>1. raced' = raced
    BY <1>12 DEF Refresh
  <2> QED BY <1>0, <1>12, <2>1, OfRefresh, ApartEnds
<1>13. ASSUME NEW s \in Sessions, StoreToken(s) PROVE Apart' /\ raced \subseteq raced'
  BY <1>v, <1>13, OfStoreToken, ApartEnds
<1>14. ASSUME NEW q \in Procs, SaveVault(q) PROVE Apart' /\ raced \subseteq raced'
  <2>1. raced' = raced
    BY <1>14 DEF SaveVault
  <2> QED BY <1>0, <1>14, <2>1, OfSaveVault, ApartEnds
<1>15. ASSUME NEW q \in Procs, Die(q) PROVE Apart' /\ raced \subseteq raced'
  BY <1>15, OfDie, ApartEnds DEF Die
<1>16. CASE Flip
  BY <1>16 DEF Flip, Apart, Busy, Holding, P
<1>17. CASE UNCHANGED vars
  BY <1>17 DEF vars, Apart, Busy, Holding, P
<1> QED BY <1>1, <1>2, <1>3, <1>4, <1>5, <1>6, <1>7, <1>8, <1>9, <1>10, <1>11, <1>12, <1>13, <1>14, <1>15,
           <1>16, <1>17 DEF Next, Step

-----------------------------------------------------------------------------
(* What the user wished.                                                   *)

RegistrySteps == RegistryEdits \cup {"save", "fill"}

\* The steps that leave the registry and the wishes alone.
LEMMA WishesFrame ==
    ASSUME TypeOK, Wishes, NEW q \in Procs, Frame(q), Busy' \subseteq Busy \cup {q}, Busy \subseteq Busy' \cup {q},
           registry' = registry, wish' = wish, raced \subseteq raced', cut \subseteq cut',
           q \notin Filling \/ "registry" \in cut',
           q \in Busy' => Step1(q)' \notin RegistrySteps \/ q \notin Holding("registry")'
    PROVE  Wishes'
<1> SUFFICES ASSUME "registry" \notin raced' \cup cut'
             PROVE  /\ Filling' = {} => \A p \in Providers : Agrees(registry'[p], wish'[p])
                    /\ \A x \in Holding("registry")' :
                         /\ Step1(x)' \in RegistryEdits => \A p \in Providers : Agrees(Content(x)'[p], wish'[p])
                         /\ Step1(x)' \in {"save", "fill"} =>
                              /\ \A p \in Providers : p # P(x)' => Agrees(Content(x)'[p], wish'[p])
                              /\ Agrees(Content(x)'[P(x)'], Wanted(wish'[P(x)'], proc'[x].arg))
  BY DEF Wishes
<1>1. "registry" \notin raced \cup cut /\ q \notin Filling
  OBVIOUS
<1>2. ASSUME NEW x \in Holding("registry")', Step1(x)' \in RegistrySteps
      PROVE  /\ x \in Holding("registry") /\ Content(x)' = Content(x) /\ Step1(x)' = Step1(x)
             /\ P(x)' = P(x) /\ proc'[x].arg = proc[x].arg
  <2>1. x \in Busy'
    BY DEF Holding
  <2>2. x # q
    BY <1>2, <2>1
  <2> QED BY <2>1, <2>2, Bystanders
<1>3. ASSUME Filling' = {} PROVE Filling = {}
  <2>1. ASSUME NEW x \in Filling PROVE FALSE
    <3>1. x \in Busy /\ x # q /\ x \in Holding("registry") /\ At(x, "fill")
      BY <1>1 DEF Filling, Holding
    <3>2. x \in Busy'
      BY <3>1
    <3>3. x \in Holding("registry")' /\ At(x, "fill")'
      BY <3>1, <3>2, Bystanders
    <3> QED BY <1>3, <3>3 DEF Filling
  <2> QED BY <2>1
<1>4. Filling' = {} => \A p \in Providers : Agrees(registry[p], wish[p])
  BY <1>1, <1>3 DEF Wishes
<1>5. ASSUME NEW x \in Holding("registry")', Step1(x)' \in RegistryEdits
      PROVE  \A p \in Providers : Agrees(Content(x)'[p], wish[p])
  BY <1>1, <1>2, <1>5 DEF Wishes, RegistrySteps
<1>6. ASSUME NEW x \in Holding("registry")', Step1(x)' \in {"save", "fill"}
      PROVE  /\ \A p \in Providers : p # P(x)' => Agrees(Content(x)'[p], wish[p])
             /\ Agrees(Content(x)'[P(x)'], Wanted(wish[P(x)'], proc'[x].arg))
  BY <1>1, <1>2, <1>6 DEF Wishes, RegistrySteps
<1> QED BY <1>4, <1>5, <1>6

\* Only one process has a copy of the registry, with content f, step s and command c.
LEMMA WishesOne ==
    ASSUME NEW q,
           "registry" \notin raced' \cup cut' =>
               /\ Holding("registry")' \subseteq {q}
               /\ q \in Filling' \/ \A p \in Providers : Agrees(registry'[p], wish'[p])
               /\ q \in Holding("registry")' =>
                    /\ Step1(q)' \in RegistryEdits => \A p \in Providers : Agrees(Content(q)'[p], wish'[p])
                    /\ Step1(q)' \in {"save", "fill"} =>
                         /\ \A p \in Providers : p # P(q)' => Agrees(Content(q)'[p], wish'[p])
                         /\ Agrees(Content(q)'[P(q)'], Wanted(wish'[P(q)'], proc'[q].arg))
    PROVE  Wishes'
<1>1. \A x \in Holding("registry")' : "registry" \notin raced' \cup cut' => x = q
  OBVIOUS
<1>2. "registry" \notin raced' \cup cut' /\ Filling' = {} => \A p \in Providers : Agrees(registry'[p], wish'[p])
  OBVIOUS
<1> QED BY <1>1, <1>2 DEF Wishes

\* The only process with a copy of the registry, if it was not raced.
LEMMA Alone ==
    ASSUME Apart, NEW q \in Holding("registry"), "registry" \notin raced
    PROVE  Holding("registry") = {q}
BY DEF Apart

LEMMA StillAlone ==
    ASSUME NEW q, Frame(q), Busy' \subseteq Busy \cup {q}, Holding("registry") \subseteq {q}
    PROVE  Holding("registry")' \subseteq {q}
<1>1. ASSUME NEW x \in Holding("registry")', x # q PROVE FALSE
  <2>1. x \in Busy'
    BY DEF Holding
  <2>2. x \in Holding("registry")
    BY <1>1, <2>1, Bystanders
  <2> QED BY <1>1, <2>2
<1> QED BY <1>1

LEMMA LoadWishes ==
    ASSUME TypeOK, Apart, Wishes, NEW u \in Users, LoadRegistry(u)
    PROVE  Wishes'
<1>1. u \in Busy /\ u \in Busy' /\ Frame(u) /\ Busy' = Busy /\ Step1(u) = "load" /\ Step1(u)' \in RegistryEdits
  BY OfLoadRegistry DEF GoesOn
<1>2. registry' = registry /\ wish' = wish /\ cut' = cut
  BY DEF LoadRegistry, stores
<1>3. proc'[u].copy = [file |-> "registry", content |-> registry] /\ Content(u)' = registry
  BY OfLoadRegistry DEF Content
<1> SUFFICES ASSUME "registry" \notin raced' \cup cut'
             PROVE  /\ Holding("registry")' \subseteq {u}
                    /\ \A p \in Providers : Agrees(registry[p], wish[p])
  BY <1>1, <1>2, <1>3, WishesOne DEF RegistryEdits
<1>4. "registry" \notin raced /\ Holding("registry") \subseteq {u}
  BY OfLoadRegistry
<1>5. Filling = {}
  <2>1. ~At(u, "fill")
    BY <1>1, AtWork DEF TypeOK
  <2> QED BY <1>4, <2>1 DEF Filling
<1>6. \A p \in Providers : Agrees(registry[p], wish[p])
  BY <1>2, <1>4, <1>5 DEF Wishes
<1> QED BY <1>1, <1>4, <1>6, StillAlone

LEMMA EditWishes ==
    ASSUME TypeOK, Apart, Wishes, NEW u \in Users, EditRegistry(u)
    PROVE  Wishes'
<1>1. u \in Busy /\ Step1(u) \in RegistryEdits /\ Working
  BY OfEditRegistry DEF TypeOK
<1>2. u \in Holding("registry")
  BY <1>1, Needed
<1>3. registry' = registry /\ wish' = wish /\ cut' = cut /\ raced' = raced
  BY DEF EditRegistry, stores
<1>4. u \notin Filling /\ u \in Procs
  BY <1>1, AtWork DEF Filling, RegistryEdits
<1>5. CASE Ends(u)
  BY <1>3, <1>4, <1>5, WishesFrame DEF Ends
<1>6. CASE /\ GoesOn(u) /\ Busy' = Busy /\ Step1(u)' = "save"
           /\ proc'[u].arg = proc[u].arg
           /\ Old(u) # NULL \/ Step1(u) = "register"
           /\ \E e \in Edits(u) : Content(u)' = [Content(u) EXCEPT ![P(u)] = e]
  <2>1. PICK e \in Edits(u) : Content(u)' = [Content(u) EXCEPT ![P(u)] = e]
    BY <1>6
  <2> SUFFICES ASSUME "registry" \notin raced \cup cut
               PROVE  /\ Holding("registry")' \subseteq {u}
                      /\ \A p \in Providers : Agrees(registry[p], wish[p])
                      /\ \A p \in Providers : p # P(u) => Agrees(Content(u)'[p], wish[p])
                      /\ Agrees(Content(u)'[P(u)], Wanted(wish[P(u)], proc[u].arg))
    <3>1. P(u)' = P(u) /\ Step1(u)' = "save" /\ "save" \notin RegistryEdits
      BY <1>6 DEF P, RegistryEdits
    <3> QED BY <1>3, <1>6, <3>1, WishesOne
  <2>2. Holding("registry") = {u}
    BY <1>2, Alone
  <2>3. Filling = {}
    BY <1>4, <2>2 DEF Filling
  <2>4. \A p \in Providers : Agrees(registry[p], wish[p]) /\ Agrees(Content(u)[p], wish[p])
    BY <1>1, <1>2, <2>3 DEF Wishes
  <2>5. P(u) \in Providers /\ wish[P(u)] \in WishTypes /\ DOMAIN Content(u) = Providers
    <3>1. proc[u].copy \in Copies /\ proc[u].copy.file = "registry"
      BY <1>1, Needed, AtWork DEF Works
    <3>2. P(u) \in Providers
      BY <1>1, AtWork
    <3> QED BY <3>1, <3>2, OfCopies DEF Content, TypeOK
  <2>6. Old(u) = Content(u)[P(u)]
    BY DEF Old, Content
  <2>7. Agrees(e, Wanted(wish[P(u)], proc[u].arg))
    BY <1>1, <1>6, <2>4, <2>5, <2>6, OfEdits
  <2>8. Content(u)'[P(u)] = e /\ \A p \in Providers : p # P(u) => Content(u)'[p] = Content(u)[p]
    BY <2>1, <2>5
  <2>9. Holding("registry")' \subseteq {u}
    BY <1>6, <2>2, StillAlone DEF GoesOn
  <2> QED BY <2>4, <2>7, <2>8, <2>9
<1> QED BY <1>5, <1>6, OfEditRegistry

LEMMA SaveWishes ==
    ASSUME TypeOK, Apart, Wishes, NEW u \in Users, SaveEmpties(u)
    PROVE  Wishes'
<1>1. /\ u \in Busy /\ GoesOn(u) /\ Frame(u) /\ Busy' = Busy /\ Step1(u)' = "fill" /\ u \in Busy'
      /\ proc'[u].arg = proc[u].arg /\ proc'[u].copy = proc[u].copy /\ proc[u].copy # NULL
  BY OfSaveEmpties DEF GoesOn
<1>2. wish' = wish /\ cut' = cut /\ raced' = raced /\ Working /\ u \in Procs
  BY DEF SaveEmpties, TypeOK, Procs
<1>3. CASE Step1(u) = "save" /\ proc[u].copy.file = "registry"
  <2>1. u \in Holding("registry") /\ P(u)' = P(u) /\ Content(u)' = Content(u)
    BY <1>1, <1>3, Held DEF P, Content
  <2>2. Working'
    BY <1>1, <1>2, StillWorking
  <2>3. u \in Holding("registry")' /\ At(u, "fill")'
    BY <1>1, <1>3, <2>2, Held, AtWork DEF At, Step1, Busy
  <2> SUFFICES ASSUME "registry" \notin raced \cup cut
               PROVE  /\ Holding("registry")' \subseteq {u}
                      /\ u \in Filling'
                      /\ \A p \in Providers : p # P(u) => Agrees(Content(u)[p], wish[p])
                      /\ Agrees(Content(u)[P(u)], Wanted(wish[P(u)], proc[u].arg))
    BY <1>1, <1>2, <2>1, WishesOne DEF RegistryEdits
  <2>4. Holding("registry") = {u}
    BY <2>1, Alone
  <2>5. Holding("registry")' \subseteq {u}
    BY <1>1, <2>4, StillAlone
  <2>6. u \in Filling'
    BY <2>3 DEF Filling
  <2> QED BY <1>3, <2>1, <2>5, <2>6 DEF Wishes
<1>4. CASE Step1(u) = "save_prices" /\ proc[u].copy.file = "prices" /\ registry' = registry
  <2>1. u \notin Holding("registry") /\ u \notin Holding("registry")'
    BY <1>1, <1>4, Held
  <2> QED BY <1>1, <1>2, <1>4, <2>1, WishesFrame DEF Filling
<1> QED BY <1>3, <1>4, OfSaveEmpties

LEMMA FillWishes ==
    ASSUME TypeOK, Apart, Wishes, NEW u \in Users, SaveFills(u)
    PROVE  Wishes'
<1>1. u \in Busy /\ Step1(u) = "fill" /\ proc[u].copy \in Copies /\ proc[u].copy # NULL
  BY OfSaveFills, OfCopies
<1>2. cut' = cut /\ raced' = raced /\ Working /\ u \in Procs
  BY DEF SaveFills, TypeOK, Procs
<1>3. /\ Frame(u) /\ Busy' \subseteq Busy \cup {u} /\ Busy \subseteq Busy' \cup {u}
      /\ u \in Busy' => Step1(u)' \notin RegistrySteps
  BY OfSaveFills DEF GoesOn, Ends, RegistrySteps, RegistryEdits
<1>4. CASE /\ proc[u].copy.file = "registry" /\ registry' = Content(u)
           /\ wish' = [wish EXCEPT ![P(u)] = Wanted(@, proc[u].arg)]
  <2> SUFFICES ASSUME "registry" \notin raced \cup cut
               PROVE  /\ Holding("registry")' \subseteq {u}
                      /\ \A p \in Providers : Agrees(registry'[p], wish'[p])
    <3>1. u \in Holding("registry")' => u \in Busy'
      BY DEF Holding
    <3> QED BY <1>2, <1>3, <3>1, WishesOne DEF RegistrySteps
  <2>1. u \in Holding("registry")
    BY <1>1, <1>4, Held
  <2>2. Holding("registry") = {u}
    BY <2>1, Alone
  <2>3. /\ \A p \in Providers : p # P(u) => Agrees(Content(u)[p], wish[p])
        /\ Agrees(Content(u)[P(u)], Wanted(wish[P(u)], proc[u].arg))
    BY <1>1, <2>1 DEF Wishes
  <2>4. /\ \A p \in Providers : p # P(u) => wish'[p] = wish[p]
        /\ P(u) \in Providers => wish'[P(u)] = Wanted(wish[P(u)], proc[u].arg)
    BY <1>4 DEF TypeOK
  <2> QED BY <1>3, <1>4, <2>2, <2>3, <2>4, StillAlone
<1>5. CASE proc[u].copy.file = "prices" /\ registry' = registry /\ wish' = wish
  <2>1. u \notin Holding("registry")
    BY <1>1, <1>5, Held
  <2> QED BY <1>2, <1>3, <1>5, <2>1, WishesFrame DEF Filling
<1> QED BY <1>4, <1>5, OfSaveFills

LEMMA NextWishes ==
    ASSUME TypeOK, Apart, Wishes, [Next]_vars
    PROVE  Wishes'
<1>a. raced \subseteq raced' /\ Working
  BY NextApart DEF TypeOK
\* Steps that do not fill the registry or take or change a copy of it.
<1>b. ASSUME NEW q \in Procs, Ends(q) \/ GoesOn(q), q \in Busy => Step1(q) # "fill",
             q \in Busy' => Step1(q)' \notin RegistrySteps \/ q \notin Holding("registry")',
             registry' = registry, wish' = wish, cut' = cut
      PROVE  Wishes'
  <2>1. Frame(q) /\ Busy' \subseteq Busy \cup {q} /\ Busy \subseteq Busy' \cup {q}
    BY <1>b DEF GoesOn, Ends
  <2>2. q \notin Filling
    <3>1. q \in Filling => q \in Busy /\ At(q, "fill")
      BY DEF Filling, Holding
    <3> QED BY <1>a, <1>b, <3>1, AtWork
  <2> QED BY <1>a, <1>b, <2>1, <2>2, WishesFrame
<1>c. {"set", "load", "load_prices", "set_price", "clear_price", "save_prices", "save_vault", "refresh",
       "store"} \cap RegistrySteps = {}
  BY DEF RegistrySteps, RegistryEdits
<1>1. ASSUME NEW u \in Users, Begin(u) PROVE Wishes'
  <2>1. registry' = registry /\ wish' = wish /\ cut' = cut
    BY <1>1 DEF Begin, stores
  <2> QED BY <1>b, <1>c, <1>1, <2>1, OfBegin
<1>2. ASSUME NEW u \in Users, LoadRegistry(u) PROVE Wishes'
  BY <1>2, LoadWishes
<1>3. ASSUME NEW u \in Users, LoadPrices(u) PROVE Wishes'
  <2>1. registry' = registry /\ wish' = wish /\ cut' = cut /\ u \in Procs
    BY <1>3 DEF LoadPrices, stores, Procs
  <2> QED BY <1>b, <1>c, <1>3, <2>1, OfLoadPrices
<1>4. ASSUME NEW u \in Users, EditRegistry(u) PROVE Wishes'
  BY <1>4, EditWishes
<1>5. ASSUME NEW u \in Users, EditPrices(u) PROVE Wishes'
  <2>1. registry' = registry /\ wish' = wish /\ cut' = cut /\ u \in Procs
    BY <1>5 DEF EditPrices, stores, Procs
  <2>2. u \notin Busy' \/ Step1(u)' = "save_prices"
    BY <1>5, OfEditPrices DEF Ends
  <2>3. u \in Busy /\ Step1(u) # "fill" /\ (Ends(u) \/ GoesOn(u))
    BY <1>5, OfEditPrices
  <2> QED BY <1>b, <1>c, <2>1, <2>2, <2>3
<1>6. ASSUME NEW u \in Users, GiveUp(u) PROVE Wishes'
  <2>1. registry' = registry /\ wish' = wish /\ cut' = cut /\ u \in Procs
    BY <1>6 DEF GiveUp, stores, Procs
  <2>2. u \in Busy /\ Ends(u) /\ u \notin Busy' /\ Step1(u) # "fill"
    BY <1>a, <1>6, OfGiveUp, AtWork DEF GiveUp, Ends
  <2> QED BY <1>b, <2>1, <2>2
<1>7. ASSUME NEW u \in Users, SaveEmpties(u) PROVE Wishes'
  BY <1>7, SaveWishes
<1>8. ASSUME NEW u \in Users, SaveFills(u) PROVE Wishes'
  BY <1>8, FillWishes
<1>9. ASSUME NEW u \in Users, StoreKey(u) PROVE Wishes'
  <2>1. registry' = registry /\ wish' = wish /\ cut' = cut /\ u \in Procs
    BY <1>9 DEF StoreKey, SetSecret, Procs
  <2>2. GoesOn(u) /\ Step1(u) = "set" /\ Step1(u)' \in {"load", "save_vault"}
    BY <1>9, OfStoreKey
  <2> QED BY <1>b, <1>c, <2>1, <2>2
<1>10. ASSUME NEW u \in Users, DeleteSecret(u) PROVE Wishes'
  <2>1. registry' = registry /\ wish' = wish /\ cut' = cut /\ u \in Procs
    BY <1>10 DEF DeleteSecret, Procs
  <2>2. GoesOn(u) /\ Step1(u) = "delete" /\ Step1(u)' = "save_vault"
    BY <1>10, OfDeleteSecret
  <2> QED BY <1>b, <1>c, <2>1, <2>2
<1>11. ASSUME NEW s \in Sessions, ReadToken(s) PROVE Wishes'
  <2>1. registry' = registry /\ wish' = wish /\ cut' = cut
    BY <1>11 DEF ReadToken, stores
  <2> QED BY <1>b, <1>c, <1>11, <2>1, OfReadToken
<1>12. ASSUME NEW s \in Sessions, Refresh(s) PROVE Wishes'
  <2>1. registry' = registry /\ wish' = wish /\ cut' = cut /\ s \in Procs
    BY <1>12 DEF Refresh, Procs
  <2>2. /\ Step1(s) = "refresh" /\ (Ends(s) \/ GoesOn(s))
        /\ s \notin Busy' \/ Step1(s)' = "store"
    BY <1>12, OfRefresh DEF Ends
  <2> QED BY <1>b, <1>c, <2>1, <2>2
<1>13. ASSUME NEW s \in Sessions, StoreToken(s) PROVE Wishes'
  <2>1. registry' = registry /\ wish' = wish /\ cut' = cut /\ s \in Procs
    BY <1>13 DEF StoreToken, SetSecret, Procs
  <2>2. /\ Step1(s) = "store" /\ (Ends(s) \/ GoesOn(s))
        /\ s \notin Busy' \/ Step1(s)' = "save_vault"
    BY <1>13, OfStoreToken DEF Ends
  <2> QED BY <1>b, <1>c, <2>1, <2>2
<1>14. ASSUME NEW q \in Procs, SaveVault(q) PROVE Wishes'
  <2>1. registry' = registry /\ wish' = wish /\ cut' = cut
    BY <1>14 DEF SaveVault
  <2>2. /\ Step1(q) = "save_vault" /\ (Ends(q) \/ GoesOn(q))
        /\ q \notin Busy' \/ Step1(q)' = "load"
    BY <1>14, OfSaveVault DEF Ends
  <2> QED BY <1>b, <1>c, <2>1, <2>2
<1>15. ASSUME NEW q \in Procs, Die(q) PROVE Wishes'
  <2>1. registry' = registry /\ wish' = wish /\ cut \subseteq cut'
    BY <1>15 DEF Die, stores
  <2>2. q \in Filling => "registry" \in cut'
    BY <1>15 DEF Die, Filling, Holding
  <2>3. Frame(q) /\ Busy' \subseteq Busy \cup {q} /\ Busy \subseteq Busy' \cup {q} /\ q \notin Busy'
    BY <1>15, OfDie DEF Ends
  <2> QED BY <1>a, <2>1, <2>2, <2>3, WishesFrame
<1>16. CASE Flip
  BY <1>16 DEF Flip, Wishes, Busy, Holding, P, Filling, At, Step1, Content
<1>17. CASE UNCHANGED vars
  BY <1>17 DEF vars, stores, Wishes, Busy, Holding, P, Filling, At, Step1, Content
<1> QED BY <1>1, <1>2, <1>3, <1>4, <1>5, <1>6, <1>7, <1>8, <1>9, <1>10, <1>11, <1>12, <1>13, <1>14, <1>15,
           <1>16, <1>17 DEF Next, Step

-----------------------------------------------------------------------------
(* The copies of the vault, and the store that is not used.                *)

LEMMA VaultsFrame ==
    ASSUME Vaults, NEW q, Frame(q), Busy' \subseteq Busy \cup {q}, vault' = vault, raced \subseteq raced',
           "vault" \notin raced' /\ q \in Holding("vault")' =>
              \A p \in Providers : p # P(q)' => Content(q)'[p] = vault[p]
    PROVE  Vaults'
<1>1. ASSUME NEW x \in Holding("vault")', NEW p \in Providers, p # P(x)', "vault" \notin raced'
      PROVE  Content(x)'[p] = vault[p]
  <2>1. x \in Busy' /\ "vault" \notin raced
    BY <1>1 DEF Holding
  <2>2. CASE x # q
    BY <1>1, <2>1, <2>2, Bystanders DEF Vaults
  <2> QED BY <1>1, <2>2
<1> QED BY <1>1 DEF Vaults

LEMMA NextVaults ==
    ASSUME TypeOK, Apart, Vaults, [Next]_vars
    PROVE  Vaults'
<1>a. raced \subseteq raced' /\ Working
  BY NextApart DEF TypeOK
\* Steps that end, that begin, or that keep the copy or take one of another file.
<1>b. ASSUME NEW q \in Procs, vault' = vault,
             \/ Ends(q)
             \/ GoesOn(q) /\ q \notin Holding("vault")'
             \/ GoesOn(q) /\ q \in Busy /\ proc'[q].arg = proc[q].arg /\ proc'[q].copy = proc[q].copy
      PROVE  Vaults'
  <2>1. Frame(q) /\ Busy' \subseteq Busy \cup {q}
    BY <1>b DEF Ends, GoesOn
  <2>2. ASSUME q \in Holding("vault")', NEW p \in Providers, p # P(q)', "vault" \notin raced'
        PROVE  Content(q)'[p] = vault[p]
    <3>1. q \in Busy'
      BY <2>2 DEF Holding
    <3>2. q \in Busy /\ proc'[q].arg = proc[q].arg /\ proc'[q].copy = proc[q].copy
      BY <1>b, <2>2, <3>1 DEF Ends
    <3>3. q \in Holding("vault") /\ P(q)' = P(q) /\ Content(q)' = Content(q)
      BY <2>2, <3>1, <3>2 DEF Holding, P, Content
    <3> QED BY <1>a, <2>2, <3>3 DEF Vaults
  <2> QED BY <1>a, <1>b, <2>1, <2>2, VaultsFrame
\* Steps that take a copy of the vault.
<1>c. ASSUME NEW q \in Busy, NEW v, vault' = vault, GoesOn(q), proc'[q].arg = proc[q].arg,
             proc'[q].copy = [file |-> "vault", content |-> [vault EXCEPT ![P(q)] = v]]
      PROVE  Vaults'
  <2>1. Frame(q) /\ Busy' \subseteq Busy \cup {q} /\ P(q)' = P(q)
    BY <1>c DEF GoesOn, P
  <2>2. \A p \in Providers : p # P(q) => Content(q)'[p] = vault[p]
    BY <1>c DEF Content, TypeOK
  <2> QED BY <1>a, <1>c, <2>1, <2>2, VaultsFrame
<1>1. ASSUME NEW u \in Users, Begin(u) PROVE Vaults'
  <2>1. vault' = vault /\ u \notin Holding("vault")'
    BY <1>1, OfBegin DEF Begin, stores, Holding
  <2> QED BY <1>b, <1>1, <2>1, OfBegin
<1>2. ASSUME NEW u \in Users, LoadRegistry(u) PROVE Vaults'
  <2>1. vault' = vault /\ u \notin Holding("vault")' /\ u \in Procs
    BY <1>2, OfLoadRegistry DEF LoadRegistry, stores, Holding, Procs
  <2> QED BY <1>b, <1>2, <2>1, OfLoadRegistry
<1>3. ASSUME NEW u \in Users, LoadPrices(u) PROVE Vaults'
  <2>1. vault' = vault /\ u \notin Holding("vault")' /\ u \in Procs
    BY <1>3, OfLoadPrices DEF LoadPrices, stores, Holding, Procs
  <2> QED BY <1>b, <1>3, <2>1, OfLoadPrices
<1>4. ASSUME NEW u \in Users, EditRegistry(u) PROVE Vaults'
  <2>1. vault' = vault /\ u \in Procs
    BY <1>4 DEF EditRegistry, stores, Procs
  <2>2. Ends(u) \/ (GoesOn(u) /\ u \notin Holding("vault")')
    BY <1>4, OfEditRegistry DEF Holding
  <2> QED BY <1>b, <2>1, <2>2
<1>5. ASSUME NEW u \in Users, EditPrices(u) PROVE Vaults'
  <2>1. vault' = vault /\ u \in Procs
    BY <1>5 DEF EditPrices, stores, Procs
  <2>2. Ends(u) \/ (GoesOn(u) /\ u \notin Holding("vault")')
    BY <1>5, OfEditPrices DEF Holding
  <2> QED BY <1>b, <2>1, <2>2
<1>6. ASSUME NEW u \in Users, GiveUp(u) PROVE Vaults'
  BY <1>b, <1>6, OfGiveUp DEF GiveUp, stores, Procs
<1>7. ASSUME NEW u \in Users, SaveEmpties(u) PROVE Vaults'
  BY <1>b, <1>7, OfSaveEmpties DEF SaveEmpties, Procs
<1>8. ASSUME NEW u \in Users, SaveFills(u) PROVE Vaults'
  <2>1. vault' = vault /\ u \in Procs
    BY <1>8 DEF SaveFills, Procs
  <2> QED BY <1>b, <1>8, <2>1, OfSaveFills
<1>9. ASSUME NEW u \in Users, StoreKey(u) PROVE Vaults'
  <2>1. vault' = vault /\ u \in Procs
    BY <1>9 DEF StoreKey, SetSecret, Procs
  <2> QED BY <1>b, <1>c, <1>9, <2>1, OfStoreKey
<1>10. ASSUME NEW u \in Users, DeleteSecret(u) PROVE Vaults'
  <2>1. vault' = vault
    BY <1>10 DEF DeleteSecret
  <2> QED BY <1>c, <1>10, <2>1, OfDeleteSecret
<1>11. ASSUME NEW s \in Sessions, ReadToken(s) PROVE Vaults'
  <2>1. vault' = vault /\ s \notin Holding("vault")'
    BY <1>11, OfReadToken DEF ReadToken, stores, Holding
  <2> QED BY <1>b, <1>11, <2>1, OfReadToken
<1>12. ASSUME NEW s \in Sessions, Refresh(s) PROVE Vaults'
  <2>1. vault' = vault /\ s \in Procs
    BY <1>12 DEF Refresh, Procs
  <2> QED BY <1>b, <1>12, <2>1, OfRefresh
<1>13. ASSUME NEW s \in Sessions, StoreToken(s) PROVE Vaults'
  <2>1. vault' = vault /\ s \in Procs
    BY <1>13 DEF StoreToken, SetSecret, Procs
  <2> QED BY <1>b, <1>c, <1>13, <2>1, OfStoreToken
<1>14. ASSUME NEW q \in Procs, SaveVault(q) PROVE Vaults'
  <2>1. /\ q \in Busy /\ q \in Holding("vault") /\ vault' = Content(q) /\ raced' = raced
        /\ Frame(q) /\ Busy' \subseteq Busy
    BY <1>14, OfSaveVault DEF SaveVault, Ends, GoesOn
  <2>2. ASSUME NEW x \in Holding("vault")', "vault" \notin raced PROVE Content(x)' = vault'
    <3>1. Holding("vault") = {q}
      BY <2>1, <2>2 DEF Apart
    <3>2. x \in Busy'
      BY <2>2 DEF Holding
    <3>3. x = q
      BY <2>1, <2>2, <3>1, <3>2, Bystanders
    <3>4. proc'[q].copy = proc[q].copy
      BY <1>14, <3>2, <3>3, OfSaveVault DEF Ends
    <3> QED BY <2>1, <3>3, <3>4 DEF Content
  <2> QED BY <2>1, <2>2 DEF Vaults
<1>15. ASSUME NEW q \in Procs, Die(q) PROVE Vaults'
  BY <1>b, <1>15, OfDie DEF Die, stores
<1>16. CASE Flip
  BY <1>16 DEF Flip, Vaults, Busy, Holding, P, Content
<1>17. CASE UNCHANGED vars
  BY <1>17 DEF vars, stores, Vaults, Busy, Holding, P, Content
<1> QED BY <1>1, <1>2, <1>3, <1>4, <1>5, <1>6, <1>7, <1>8, <1>9, <1>10, <1>11, <1>12, <1>13, <1>14, <1>15,
           <1>16, <1>17 DEF Next, Step

LEMMA NextSteady ==
    ASSUME TypeOK, Steady, [Next]_vars
    PROVE  Steady'
<1>a. Working /\ NULL \notin Secrets
  BY StoresOK DEF TypeOK
\* Steps whose process has no copy of the vault, or has the one it had, or an unused one.
<1>b. ASSUME NEW q \in Procs, Ends(q) \/ GoesOn(q), up' = up, flips' = flips,
             flips = 0 /\ up => vault' = NoEntries, flips = 0 /\ ~up => keychain' = keychain,
             flips = 0 /\ up /\ q \in Holding("vault")' => Content(q)' = NoEntries
      PROVE  Steady'
  <2>1. Frame(q) /\ Busy' \subseteq Busy \cup {q}
    BY <1>b DEF Ends, GoesOn
  <2>2. ASSUME flips = 0, up, NEW x \in Holding("vault")' PROVE Content(x)' = NoEntries
    <3>1. x \in Busy'
      BY <2>2 DEF Holding
    <3>2. CASE x # q
      BY <2>1, <2>2, <3>1, <3>2, Bystanders DEF Steady
    <3> QED BY <1>b, <2>2, <3>2
  <2> QED BY <1>b, <2>2 DEF Steady
\* The copy is the one it had, or one of another file.
<1>c. ASSUME NEW q \in Procs, q \in Busy' => (q \in Busy /\ proc'[q].copy = proc[q].copy) \/ q \notin Holding("vault")',
             flips = 0, up
      PROVE  q \in Holding("vault")' => Content(q)' = NoEntries
  <2>1. SUFFICES ASSUME q \in Holding("vault")' PROVE Content(q)' = NoEntries
    OBVIOUS
  <2>2. q \in Busy' /\ q \in Busy /\ proc'[q].copy = proc[q].copy
    BY <1>c, <2>1 DEF Holding
  <2>3. q \in Holding("vault") /\ Content(q)' = Content(q)
    BY <2>1, <2>2 DEF Holding, Content
  <2> QED BY <1>c, <2>3 DEF Steady
\* Steps that leave the secrets alone.
<1>d. ASSUME NEW q \in Procs, Ends(q) \/ GoesOn(q), up' = up, flips' = flips, vault' = vault, keychain' = keychain,
             q \in Busy' => (q \in Busy /\ proc'[q].copy = proc[q].copy) \/ q \notin Holding("vault")'
      PROVE  Steady'
  <2>1. flips = 0 /\ up => vault' = NoEntries
    BY <1>d DEF Steady
  <2> QED BY <1>b, <1>c, <1>d, <2>1
<1>e. \A q : Ends(q) => q \notin Busy'
  BY DEF Ends
<1>1. ASSUME NEW u \in Users, Begin(u) PROVE Steady'
  <2>1. up' = up /\ flips' = flips /\ vault' = vault /\ keychain' = keychain
    BY <1>1 DEF Begin, stores
  <2>2. u \in Procs /\ GoesOn(u) /\ u \notin Holding("vault")'
    BY <1>1, OfBegin DEF Holding
  <2> QED BY <1>d, <2>1, <2>2
<1>2. ASSUME NEW u \in Users, LoadRegistry(u) PROVE Steady'
  <2>1. up' = up /\ flips' = flips /\ vault' = vault /\ keychain' = keychain
    BY <1>2 DEF LoadRegistry, stores
  <2>2. u \in Procs /\ GoesOn(u) /\ u \notin Holding("vault")'
    BY <1>2, OfLoadRegistry DEF Holding, Procs
  <2> QED BY <1>d, <2>1, <2>2
<1>3. ASSUME NEW u \in Users, LoadPrices(u) PROVE Steady'
  <2>1. up' = up /\ flips' = flips /\ vault' = vault /\ keychain' = keychain
    BY <1>3 DEF LoadPrices, stores
  <2>2. u \in Procs /\ GoesOn(u) /\ u \notin Holding("vault")'
    BY <1>3, OfLoadPrices DEF Holding, Procs
  <2> QED BY <1>d, <2>1, <2>2
<1>4. ASSUME NEW u \in Users, EditRegistry(u) PROVE Steady'
  <2>1. up' = up /\ flips' = flips /\ vault' = vault /\ keychain' = keychain
    BY <1>4 DEF EditRegistry, stores
  <2>2. u \in Procs /\ ((Ends(u) /\ u \notin Busy') \/ (GoesOn(u) /\ u \notin Holding("vault")'))
    BY <1>4, OfEditRegistry DEF Holding, Procs, Ends
  <2> QED BY <1>d, <2>1, <2>2
<1>5. ASSUME NEW u \in Users, EditPrices(u) PROVE Steady'
  <2>1. up' = up /\ flips' = flips /\ vault' = vault /\ keychain' = keychain
    BY <1>5 DEF EditPrices, stores
  <2>2. u \in Procs /\ ((Ends(u) /\ u \notin Busy') \/ (GoesOn(u) /\ u \notin Holding("vault")'))
    BY <1>5, OfEditPrices DEF Holding, Procs, Ends
  <2> QED BY <1>d, <2>1, <2>2
<1>6. ASSUME NEW u \in Users, GiveUp(u) PROVE Steady'
  <2>1. up' = up /\ flips' = flips /\ vault' = vault /\ keychain' = keychain
    BY <1>6 DEF GiveUp, stores
  <2>2. u \in Procs /\ Ends(u) /\ u \notin Busy'
    BY <1>6, OfGiveUp DEF Procs, Ends
  <2> QED BY <1>d, <2>1, <2>2
<1>7. ASSUME NEW u \in Users, SaveEmpties(u) PROVE Steady'
  <2>1. up' = up /\ flips' = flips /\ vault' = vault /\ keychain' = keychain /\ u \in Procs
    BY <1>7 DEF SaveEmpties, Procs
  <2> QED BY <1>d, <1>7, <2>1, OfSaveEmpties
<1>8. ASSUME NEW u \in Users, SaveFills(u) PROVE Steady'
  <2>1. up' = up /\ flips' = flips /\ vault' = vault /\ keychain' = keychain /\ u \in Procs
    BY <1>8 DEF SaveFills, Procs
  <2>2. (Ends(u) /\ u \notin Busy') \/ (GoesOn(u) /\ u \in Busy /\ proc'[u].copy = proc[u].copy)
    BY <1>e, <1>8, OfSaveFills
  <2> QED BY <1>d, <2>1, <2>2
<1>9. ASSUME NEW u \in Users, StoreKey(u) PROVE Steady'
  <2>1. up' = up /\ flips' = flips /\ vault' = vault /\ u \in Procs /\ u \in Busy /\ GoesOn(u)
    BY <1>9, OfStoreKey DEF StoreKey, SetSecret, Procs
  <2>2. flips = 0 /\ up => vault' = NoEntries
    BY <2>1 DEF Steady
  <2>3. up \/ keychain' = keychain
    BY <1>9, OfStoreKey
  <2>4. up => proc'[u].copy = proc[u].copy
    BY <1>9, OfStoreKey
  <2> QED BY <1>b, <1>c, <2>1, <2>2, <2>3, <2>4
<1>10. ASSUME NEW u \in Users, DeleteSecret(u) PROVE Steady'
  <2>1. up' = up /\ flips' = flips /\ vault' = vault /\ u \in Procs /\ GoesOn(u)
    BY <1>10, OfDeleteSecret DEF DeleteSecret, Procs
  <2>2. flips = 0 /\ up => vault = NoEntries
    BY DEF Steady
  <2>3. up \/ keychain' = keychain
    BY <1>10, OfDeleteSecret
  <2>4. Content(u)' = [vault EXCEPT ![P(u)] = NULL]
    <3>1. proc'[u].copy = [file |-> "vault", content |-> [vault EXCEPT ![P(u)] = NULL]]
      BY <1>10, OfDeleteSecret
    <3> QED BY <3>1 DEF Content
  <2>5. [NoEntries EXCEPT ![P(u)] = NULL] = NoEntries
    BY DEF NoEntries
  <2> QED BY <1>b, <2>1, <2>2, <2>3, <2>4, <2>5
<1>11. ASSUME NEW s \in Sessions, ReadToken(s) PROVE Steady'
  <2>1. up' = up /\ flips' = flips /\ vault' = vault /\ keychain' = keychain
    BY <1>11 DEF ReadToken, stores
  <2>2. s \in Procs /\ GoesOn(s) /\ s \notin Holding("vault")'
    BY <1>11, OfReadToken DEF Holding
  <2> QED BY <1>d, <2>1, <2>2
<1>12. ASSUME NEW s \in Sessions, Refresh(s) PROVE Steady'
  <2>1. up' = up /\ flips' = flips /\ vault' = vault /\ keychain' = keychain /\ s \in Procs
    BY <1>12 DEF Refresh, Procs
  <2>2. (Ends(s) /\ s \notin Busy') \/ (GoesOn(s) /\ s \in Busy /\ proc'[s].copy = proc[s].copy)
    BY <1>e, <1>12, OfRefresh
  <2> QED BY <1>d, <2>1, <2>2
<1>13. ASSUME NEW s \in Sessions, StoreToken(s) PROVE Steady'
  <2>1. up' = up /\ flips' = flips /\ vault' = vault /\ s \in Procs
    BY <1>13 DEF StoreToken, SetSecret, Procs
  <2>2. flips = 0 /\ up => vault' = NoEntries
    BY <2>1 DEF Steady
  <2>3. (up /\ Ends(s) /\ s \notin Busy') \/ (~up /\ GoesOn(s) /\ keychain' = keychain)
    BY <1>e, <1>13, OfStoreToken
  <2> QED BY <1>b, <1>c, <2>1, <2>2, <2>3
<1>14. ASSUME NEW q \in Procs, SaveVault(q) PROVE Steady'
  <2>1. up' = up /\ flips' = flips /\ keychain' = keychain
    BY <1>14 DEF SaveVault
  <2>2. flips = 0 /\ up => vault' = NoEntries
    BY <1>14, OfSaveVault DEF Steady
  <2>3. (Ends(q) /\ q \notin Busy') \/ (GoesOn(q) /\ q \in Busy /\ proc'[q].copy = proc[q].copy)
    BY <1>e, <1>14, OfSaveVault
  <2> QED BY <1>b, <1>c, <2>1, <2>2, <2>3
<1>15. ASSUME NEW q \in Procs, Die(q) PROVE Steady'
  <2>1. up' = up /\ flips' = flips /\ vault' = vault /\ keychain' = keychain
    BY <1>15 DEF Die, stores
  <2>2. Ends(q) /\ q \notin Busy'
    BY <1>15, OfDie DEF Ends
  <2> QED BY <1>d, <2>1, <2>2
<1>16. CASE Flip
  <2>1. flips' # 0
    BY <1>16 DEF Flip, TypeOK
  <2> QED BY <2>1 DEF Steady
<1>17. CASE UNCHANGED vars
  BY <1>17 DEF vars, stores, Steady, Busy, Holding, Content
<1> QED BY <1>1, <1>2, <1>3, <1>4, <1>5, <1>6, <1>7, <1>8, <1>9, <1>10, <1>11, <1>12, <1>13, <1>14, <1>15,
           <1>16, <1>17 DEF Next, Step

-----------------------------------------------------------------------------
(* Keys.                                                                   *)

LEMMA Removers ==
    ASSUME Working, NEW q \in Busy, Removing(q)
    PROVE  q \in Users
<1>1. ASSUME q \in Sessions PROVE FALSE
  <2>1. proc[q].arg \in RefreshTokens
    BY <1>1, AtWork
  <2>2. proc[q].arg.key # "none" /\ proc[q].arg.steps # RemoveCommand
    BY <2>1, OfRefreshes, CommandsDiffer
  <2>3. Step1(q) # "delete"
    BY <2>2, AtWork DEF Follows, Step1
  <2> QED BY <2>2, <2>3, AtWork DEF Removing
<1> QED BY <1>1, AtWork DEF Procs

LEMMA KeysStep ==
    ASSUME TypeOK, Apart, NEW q \in Procs, Frame(q), Busy' \subseteq Busy \cup {q}, raced \subseteq raced',
           NEW p \in Providers, KeysOf(p), {p, "registry", "vault"} \cap raced' = {},
           Kept(p) => Kept(p)' \/ (q \in Busy /\ P(q) = p /\ Removing(q)),
           registry'[p] \in {registry[p], NULL} \/ (q \in Holding("registry") /\ registry'[p] = Content(q)[p]),
           q \in Holding("registry")' =>
              \/ Content(q)'[p] = registry[p]
              \/ q \in Holding("registry") /\ Content(q)'[p] = Content(q)[p]
              \/ /\ q \in Busy /\ q \in Users /\ P(q) = p /\ ~Removing(q)
                 /\ Needs(Content(q)'[p]) => Kept(p)',
           q \in Busy' /\ P(q)' = p => Careful(q)'
    PROVE  KeysOf(p)'
<1> DEFINE gone == q \in Busy /\ P(q) = p /\ Removing(q)
<1>1. gone => registry[p] = NULL /\ \A r \in Holding("registry") : Content(r)[p] = NULL
  BY DEF KeysOf, Careful
<1>2. gone => q \in Users
  BY Removers DEF TypeOK
<1>3. \A x \in Busy : x # q /\ P(x) = p /\ q \in Busy /\ q \in Users => P(q) # p
  BY DEF Apart
<1>4. \A f : Holding(f)' \subseteq Busy'
  BY DEF Holding
<1>5. ASSUME NEW x \in Busy', x # q
      PROVE  /\ x \in Busy /\ P(x)' = P(x) /\ Content(x)' = Content(x) /\ Step1(x)' = Step1(x)
             /\ proc'[x].arg = proc[x].arg
             /\ \A f : x \in Holding(f)' <=> x \in Holding(f)
             /\ \A s : At(x, s)' <=> At(x, s)
  BY <1>5, Bystanders
<1>6. ASSUME Needs(registry'[p]) PROVE Kept(p)'
  <2>1. \/ registry'[p] = registry[p]
        \/ q \in Holding("registry") /\ registry'[p] = Content(q)[p]
    BY <1>6 DEF Needs
  <2>2. Kept(p) /\ ~gone
    BY <1>1, <1>6, <2>1 DEF KeysOf, Needs
  <2> QED BY <2>2
<1>7. ASSUME NEW x \in Holding("registry")', Needs(Content(x)'[p]) PROVE Kept(p)'
  <2>1. CASE x # q
    <3>1. x \in Holding("registry") /\ Content(x)' = Content(x)
      BY <1>4, <1>5, <2>1
    <3>2. Kept(p) /\ ~gone
      BY <1>1, <1>7, <3>1 DEF KeysOf, Needs
    <3> QED BY <3>2
  <2>2. CASE x = q /\ Content(q)'[p] = registry[p]
    <3>1. Kept(p) /\ ~gone
      BY <1>1, <1>7, <2>2 DEF KeysOf, Needs
    <3> QED BY <3>1
  <2>3. CASE x = q /\ q \in Holding("registry") /\ Content(q)'[p] = Content(q)[p]
    <3>1. Kept(p) /\ ~gone
      BY <1>1, <1>7, <2>3 DEF KeysOf, Needs
    <3> QED BY <3>1
  <2> QED BY <1>7, <2>1, <2>2, <2>3
<1>8. ASSUME NEW x \in Busy', P(x)' = p, x # q PROVE Careful(x)'
  <2>1. /\ x \in Busy /\ P(x) = p /\ P(x)' = P(x) /\ Content(x)' = Content(x) /\ Step1(x)' = Step1(x)
        /\ proc'[x].arg = proc[x].arg
        /\ \A s : At(x, s)' <=> At(x, s)
    BY <1>5, <1>8
  <2>2. Careful(x)
    BY <2>1 DEF KeysOf
  <2>3. ~gone /\ (q \in Busy /\ q \in Users => P(q) # p)
    BY <1>2, <1>3, <1>8, <2>1
  <2>4. Removing(x)' <=> Removing(x)
    BY <2>1 DEF Removing
  <2>5. ASSUME Removing(x) PROVE registry'[p] = NULL /\ \A r \in Holding("registry")' : Content(r)'[p] = NULL
    <3>1. registry[p] = NULL /\ \A r \in Holding("registry") : Content(r)[p] = NULL
      BY <2>1, <2>2, <2>5 DEF Careful
    <3>2. registry'[p] = NULL
      BY <3>1
    <3>3. ASSUME NEW r \in Holding("registry")' PROVE Content(r)'[p] = NULL
      <4>1. CASE r # q
        BY <1>4, <1>5, <3>1, <4>1
      <4>2. CASE r = q
        BY <2>3, <3>1, <3>3, <4>2
      <4> QED BY <4>1, <4>2
    <3> QED BY <3>2, <3>3
  <2>6. Kept(p) => Kept(p)'
    BY <2>3
  <2> HIDE DEF gone
  <2> QED BY <2>1, <2>2, <2>4, <2>5, <2>6, <1>8 DEF Careful
<1> QED BY <1>6, <1>7, <1>8 DEF KeysOf

LEMMA NextKeys ==
    ASSUME TypeOK, Apart, Vaults, Keys, [Next]_vars
    PROVE  Keys'
<1>a. raced \subseteq raced' /\ Working /\ NULL \notin Secrets
  BY NextApart, StoresOK DEF TypeOK
<1> SUFFICES ASSUME NEW p \in Providers, {p, "registry", "vault"} \cap raced' = {}
             PROVE  KeysOf(p)'
  BY DEF Keys
<1>k. KeysOf(p) /\ {p, "registry", "vault"} \cap raced = {}
  BY <1>a DEF Keys
<1>t. /\ \A x \in Busy' : \A s : At(x, s)' <=> Step1(x)' = s
      /\ \A f : Holding(f)' \subseteq Busy'
  BY DEF At, Step1, Busy, Holding
\* Steps that nothing is asked of.
<1>v. ASSUME NEW q \in Busy', Step1(q)' \in {"set", "load_prices", "set_price", "clear_price", "save_prices",
                                             "refresh", "store"}
      PROVE  Careful(q)'
  BY <1>t, <1>v DEF Careful, Removing
\* Steps that leave the registry alone, and the copy that q has of it.
<1>u. ASSUME NEW q \in Procs, Ends(q) \/ GoesOn(q), registry' = registry,
             Kept(p) => Kept(p)' \/ (q \in Busy /\ P(q) = p /\ Removing(q)),
             q \in Holding("registry")' => q \in Busy /\ proc'[q].copy = proc[q].copy,
             q \in Busy' /\ P(q)' = p => Careful(q)'
      PROVE  KeysOf(p)'
  <2>1. Frame(q) /\ Busy' \subseteq Busy \cup {q}
    BY <1>u DEF Ends, GoesOn
  <2>2. q \in Holding("registry")' => q \in Holding("registry") /\ Content(q)' = Content(q)
    BY <1>u, <1>t DEF Holding, Content
  <2> QED BY <1>a, <1>k, <1>u, <2>1, <2>2, KeysStep
\* Steps that leave the secrets alone as well.
<1>w. ASSUME NEW q \in Procs, Ends(q) \/ GoesOn(q), registry' = registry, keychain' = keychain, vault' = vault,
             q \in Holding("registry")' => q \in Busy /\ proc'[q].copy = proc[q].copy,
             q \in Busy' /\ P(q)' = p => Careful(q)'
      PROVE  KeysOf(p)'
  <2>1. Kept(p) => Kept(p)'
    BY <1>w DEF Kept
  <2> QED BY <1>u, <1>w, <2>1
<1>e. \A q : Ends(q) => q \notin Busy'
  BY DEF Ends
<1>g. \A q : GoesOn(q) => q \in Busy'
  BY DEF GoesOn
<1>1. ASSUME NEW u \in Users, Begin(u) PROVE KeysOf(p)'
  <2>1. registry' = registry /\ keychain' = keychain /\ vault' = vault
    BY <1>1 DEF Begin, stores
  <2>2. /\ u \in Procs /\ GoesOn(u) /\ u \notin Holding("registry")'
        /\ Step1(u)' \in {"set", "load", "load_prices"}
        /\ Step1(u)' = "load" => proc'[u].arg.key = "none"
    BY <1>1, OfBegin DEF Holding
  <2>3. Careful(u)'
    <3>1. CASE Step1(u)' = "load"
      BY <1>t, <1>g, <2>2, <3>1 DEF Careful, Removing
    <3> QED BY <1>v, <1>g, <2>2, <3>1
  <2> QED BY <1>w, <2>1, <2>2, <2>3
<1>2. ASSUME NEW u \in Users, LoadRegistry(u) PROVE KeysOf(p)'
  <2>1. registry' = registry /\ keychain' = keychain /\ vault' = vault /\ u \in Procs
    BY <1>2 DEF LoadRegistry, stores, Procs
  <2>2. /\ u \in Busy /\ GoesOn(u) /\ Frame(u) /\ Busy' = Busy /\ Step1(u) = "load" /\ Step1(u)' \in RegistryEdits
        /\ proc'[u].arg = proc[u].arg /\ P(u)' = P(u)
    BY <1>2, OfLoadRegistry DEF GoesOn, P
  <2>3. Content(u)' = registry
    <3>1. proc'[u].copy = [file |-> "registry", content |-> registry]
      BY <1>2, OfLoadRegistry
    <3> QED BY <3>1 DEF Content
  <2>4. Kept(p)' <=> Kept(p)
    BY <2>1 DEF Kept
  <2>5. P(u) = p => Careful(u)'
    <3>1. /\ Step1(u)' \notin {"save_vault", "delete", "load", "save", "fill"}
          /\ u \in Busy'
      BY <2>2 DEF RegistryEdits
    <3>2. P(u) = p /\ proc[u].arg.key # "none" => Kept(p)
      BY <1>k, <2>2 DEF KeysOf, Careful
    <3> QED BY <1>t, <2>2, <2>4, <3>1, <3>2 DEF Careful, Removing
  <2> QED BY <1>a, <1>k, <2>1, <2>2, <2>3, <2>4, <2>5, KeysStep
<1>3. ASSUME NEW u \in Users, LoadPrices(u) PROVE KeysOf(p)'
  <2>1. registry' = registry /\ keychain' = keychain /\ vault' = vault /\ u \in Procs
    BY <1>3 DEF LoadPrices, stores, Procs
  <2>2. GoesOn(u) /\ u \notin Holding("registry")' /\ Step1(u)' \in {"set_price", "clear_price"}
    BY <1>3, OfLoadPrices DEF Holding
  <2>3. Careful(u)'
    BY <1>v, <1>g, <2>2
  <2> QED BY <1>w, <2>1, <2>2, <2>3
<1>4. ASSUME NEW u \in Users, EditRegistry(u) PROVE KeysOf(p)'
  <2>1. registry' = registry /\ keychain' = keychain /\ vault' = vault /\ u \in Procs
    BY <1>4 DEF EditRegistry, stores, Procs
  <2>2. u \in Busy /\ Step1(u) \in RegistryEdits
    BY <1>4, OfEditRegistry
  <2>3. CASE Ends(u)
    BY <1>e, <1>t, <1>w, <2>1, <2>3
  <2>4. CASE /\ GoesOn(u) /\ Busy' = Busy /\ Step1(u)' = "save"
             /\ proc'[u].arg = proc[u].arg
             /\ Old(u) # NULL \/ Step1(u) = "register"
             /\ \E e \in Edits(u) : Content(u)' = [Content(u) EXCEPT ![P(u)] = e]
    <3>1. PICK e \in Edits(u) : Content(u)' = [Content(u) EXCEPT ![P(u)] = e]
      BY <2>4
    <3>2. /\ e = NULL <=> Step1(u) = "remove"
          /\ Step1(u) = "remove" <=> proc[u].arg.steps = RemoveCommand
          /\ proc[u].arg.key # "none" => Step1(u) = "register"
          /\ \/ e = NULL
             \/ Step1(u) = "register" /\ e.key = proc[u].arg.key
             \/ Old(u) # NULL /\ e.key = Old(u).key
      BY <2>2, <2>4, OfEdits
    <3>3. DOMAIN Content(u) = Providers /\ P(u) \in Providers /\ u \in Holding("registry")
      <4>1. proc[u].copy \in Copies /\ proc[u].copy.file = "registry" /\ u \in Holding("registry")
        BY <1>a, <2>2, Needed, AtWork DEF Works
      <4>2. P(u) \in Providers
        BY <1>a, <2>2, AtWork
      <4> QED BY <4>1, <4>2, OfCopies DEF Content
    <3>4. Content(u)'[P(u)] = e /\ \A x \in Providers : x # P(u) => Content(u)'[x] = Content(u)[x]
      BY <3>1, <3>3
    <3>5. Kept(p)' <=> Kept(p)
      BY <2>1 DEF Kept
    <3>6. ASSUME P(u) = p, proc[u].arg.key # "none", Step1(u) = "register" PROVE Kept(p)
      BY <1>k, <2>2, <3>6 DEF KeysOf, Careful
    <3>7. ASSUME P(u) = p, Needs(e) PROVE Kept(p)
      <4>1. CASE Step1(u) = "register" /\ e.key = proc[u].arg.key
        BY <3>6, <3>7, <4>1 DEF Needs
      <4>2. CASE Old(u) # NULL /\ e.key = Old(u).key
        <5>1. Needs(Old(u)) /\ Old(u) = Content(u)[p]
          BY <3>7, <4>2 DEF Needs, Old, Content
        <5> QED BY <1>k, <3>3, <5>1 DEF KeysOf
      <4> QED BY <3>2, <3>7, <4>1, <4>2 DEF Needs
    <3>8. P(u)' = P(u) /\ Frame(u) /\ u \in Busy'
      BY <2>2, <2>4 DEF P, GoesOn
    <3>9. P(u) = p => Careful(u)'
      <4>1. Step1(u)' \notin {"save_vault", "delete"}
        BY <2>4
      <4>2. P(u) = p /\ proc[u].arg.key # "none" => Kept(p)
        BY <3>2, <3>6
      <4>3. P(u) = p /\ proc[u].arg.steps = RemoveCommand => Content(u)'[p] = NULL
        BY <3>2, <3>4
      <4> QED BY <1>t, <2>4, <3>5, <3>8, <4>1, <4>2, <4>3 DEF Careful, Removing
    <3>10. ~Removing(u)
      <4>1. Step1(u) \notin {"save_vault", "delete"}
        BY <2>2 DEF RegistryEdits
      <4> QED BY <1>a, <2>2, <4>1, AtWork DEF Removing
    <3>11. \/ Content(u)'[p] = Content(u)[p]
           \/ P(u) = p /\ (Needs(Content(u)'[p]) => Kept(p)')
      BY <3>4, <3>5, <3>7
    <3> QED BY <1>a, <1>k, <2>1, <2>2, <2>4, <3>3, <3>5, <3>8, <3>9, <3>10, <3>11, KeysStep
  <2> QED BY <1>4, <2>3, <2>4, OfEditRegistry
<1>5. ASSUME NEW u \in Users, EditPrices(u) PROVE KeysOf(p)'
  <2>1. registry' = registry /\ keychain' = keychain /\ vault' = vault /\ u \in Procs
    BY <1>5 DEF EditPrices, stores, Procs
  <2>2. Ends(u) \/ (GoesOn(u) /\ u \notin Holding("registry")' /\ Step1(u)' = "save_prices")
    BY <1>5, OfEditPrices DEF Holding
  <2>3. u \in Busy' => Careful(u)' /\ u \notin Holding("registry")'
    BY <1>v, <1>e, <2>2
  <2> QED BY <1>t, <1>w, <2>1, <2>2, <2>3
<1>6. ASSUME NEW u \in Users, GiveUp(u) PROVE KeysOf(p)'
  <2>1. registry' = registry /\ keychain' = keychain /\ vault' = vault /\ u \in Procs
    BY <1>6 DEF GiveUp, stores, Procs
  <2> QED BY <1>e, <1>t, <1>w, <1>6, <2>1, OfGiveUp
<1>7. ASSUME NEW u \in Users, SaveEmpties(u) PROVE KeysOf(p)'
  <2>1. keychain' = keychain /\ vault' = vault /\ u \in Procs
    BY <1>7 DEF SaveEmpties, Procs
  <2>2. /\ u \in Busy /\ GoesOn(u) /\ Frame(u) /\ Busy' = Busy /\ Step1(u)' = "fill" /\ u \in Busy'
        /\ proc'[u].arg = proc[u].arg /\ proc'[u].copy = proc[u].copy /\ P(u)' = P(u) /\ Content(u)' = Content(u)
    BY <1>7, OfSaveEmpties DEF GoesOn, P, Content
  <2>3. Kept(p)' <=> Kept(p)
    BY <2>1 DEF Kept
  <2>4. registry'[p] \in {registry[p], NULL}
    BY <1>7, OfSaveEmpties DEF NoEntries
  <2>5. u \in Holding("registry")' => u \in Holding("registry")
    BY <2>2, Held
  <2>6. P(u) = p => Careful(u)'
    <3>1. CASE Step1(u) = "save"
      BY <1>k, <1>t, <2>2, <2>3, <3>1 DEF KeysOf, Careful, Removing
    <3>2. CASE Step1(u) = "save_prices" /\ proc[u].arg.steps \notin {RemoveCommand, Keyed}
      <4>1. proc[u].arg.key = "none"
        BY <1>a, <2>2, <3>2, AtWork, OfCommands
      <4> QED BY <1>t, <2>2, <3>2, <4>1 DEF Careful, Removing
    <3> QED BY <1>7, <3>1, <3>2, OfSaveEmpties
  <2> QED BY <1>a, <1>k, <2>1, <2>2, <2>3, <2>4, <2>5, <2>6, KeysStep
<1>8. ASSUME NEW u \in Users, SaveFills(u) PROVE KeysOf(p)'
  <2>1. keychain' = keychain /\ vault' = vault /\ u \in Procs
    BY <1>8 DEF SaveFills, Procs
  <2>2. Kept(p)' <=> Kept(p)
    BY <2>1 DEF Kept
  <2>3. /\ u \in Busy /\ Step1(u) = "fill" /\ Frame(u) /\ Busy' \subseteq Busy
        /\ u \in Busy' => proc'[u].arg = proc[u].arg /\ proc'[u].copy = proc[u].copy
    BY <1>8, OfSaveFills DEF GoesOn, Ends
  <2>4. u \in Busy' => P(u)' = P(u) /\ Content(u)' = Content(u) /\ \A f : u \in Holding(f)' => u \in Holding(f)
    BY <2>3 DEF P, Content, Holding
  <2>5. \/ registry' = registry
        \/ u \in Holding("registry") /\ registry' = Content(u)
    BY <1>8, <2>3, OfSaveFills, OfCopies, Held
  <2>6. ASSUME u \in Busy', P(u) = p PROVE Careful(u)'
    <3>1. CASE Step1(u)' = "load_prices"
      BY <1>v, <2>6, <3>1
    <3>2. CASE Step1(u)' = "delete" /\ proc[u].arg.steps = RemoveCommand
      <4>1. u \in Holding("registry") /\ registry' = Content(u)
        BY <1>8, <2>3, <3>2, OfSaveFills, OfCopies, Held
      <4>2. Content(u)[p] = NULL
        BY <1>k, <2>3, <2>6, <3>2 DEF KeysOf, Careful
      <4>3. Holding("registry") = {u}
        BY <1>k, <4>1, Alone
      <4>4. Holding("registry")' \subseteq {u}
        BY <2>3, <4>3, StillAlone
      <4>5. registry'[p] = NULL /\ \A r \in Holding("registry")' : Content(r)'[p] = NULL
        BY <2>4, <2>6, <4>1, <4>2, <4>4
      <4> QED BY <1>t, <2>4, <2>6, <3>2, <4>5 DEF Careful, Removing
    <3> QED BY <1>8, <1>e, <2>6, <3>1, <3>2, OfSaveFills
  <2> QED BY <1>a, <1>k, <1>t, <2>1, <2>2, <2>3, <2>4, <2>5, <2>6, KeysStep
<1>11. ASSUME NEW s \in Sessions, ReadToken(s) PROVE KeysOf(p)'
  <2>1. registry' = registry /\ keychain' = keychain /\ vault' = vault
    BY <1>11 DEF ReadToken, stores
  <2>2. s \in Procs /\ GoesOn(s) /\ s \notin Holding("registry")' /\ Step1(s)' = "refresh"
    BY <1>11, OfReadToken DEF Holding
  <2>3. Careful(s)'
    BY <1>v, <1>g, <2>2
  <2> QED BY <1>w, <2>1, <2>2, <2>3
<1>12. ASSUME NEW s \in Sessions, Refresh(s) PROVE KeysOf(p)'
  <2>1. registry' = registry /\ keychain' = keychain /\ vault' = vault /\ s \in Procs
    BY <1>12 DEF Refresh, Procs
  <2>2. /\ s \in Busy /\ (Ends(s) \/ GoesOn(s))
        /\ s \in Busy' => Step1(s)' = "store" /\ proc'[s].copy = proc[s].copy
    BY <1>12, <1>e, OfRefresh
  <2>3. s \in Busy' => Careful(s)'
    BY <1>v, <2>2
  <2> QED BY <1>t, <1>w, <2>1, <2>2, <2>3
<1>15. ASSUME NEW q \in Procs, Die(q) PROVE KeysOf(p)'
  <2>1. registry' = registry /\ keychain' = keychain /\ vault' = vault
    BY <1>15 DEF Die, stores
  <2> QED BY <1>e, <1>t, <1>w, <1>15, <2>1, OfDie
<1>9. ASSUME NEW u \in Users, StoreKey(u) PROVE KeysOf(p)'
  <2>1. /\ registry' = registry /\ vault' = vault /\ u \in Procs /\ u \in Busy /\ GoesOn(u) /\ u \in Busy'
        /\ P(u) \in Providers /\ P(u)' = P(u) /\ proc'[u].arg = proc[u].arg /\ proc[u].arg.key # "none"
    BY <1>a, <1>9, OfStoreKey, AtWork DEF StoreKey, SetSecret, Procs, P
  <2>2. PICK v \in {server[P(u)], TypedKey} :
           \/ /\ up /\ keychain' = [keychain EXCEPT ![P(u)] = v]
              /\ Step1(u)' = "load" /\ proc'[u].copy = proc[u].copy
           \/ /\ ~up /\ keychain' = keychain /\ Step1(u)' = "save_vault"
              /\ proc'[u].copy = [file |-> "vault", content |-> [vault EXCEPT ![P(u)] = v]]
    BY <1>9, OfStoreKey
  <2>3. v # NULL
    BY <1>a, <2>1 DEF TypeOK, Secrets
  <2>4. CASE Step1(u)' = "load" /\ keychain' = [keychain EXCEPT ![P(u)] = v] /\ proc'[u].copy = proc[u].copy
    <3>1. keychain'[P(u)] = v /\ (p # P(u) => keychain'[p] = keychain[p])
      BY <2>1, <2>4 DEF TypeOK
    <3>2. (Kept(p) => Kept(p)') /\ (P(u) = p => Kept(p)')
      BY <2>1, <2>3, <3>1 DEF Kept
    <3>3. P(u)' = p => Careful(u)'
      BY <1>t, <2>1, <2>4, <3>2 DEF Careful, Removing
    <3> QED BY <1>u, <2>1, <2>4, <3>2, <3>3
  <2>5. CASE /\ keychain' = keychain /\ Step1(u)' = "save_vault"
             /\ proc'[u].copy = [file |-> "vault", content |-> [vault EXCEPT ![P(u)] = v]]
    <3>1. Content(u)'[P(u)] = v /\ u \notin Holding("registry")'
      <4>1. Content(u)' = [vault EXCEPT ![P(u)] = v] /\ u \notin Holding("registry")'
        BY <2>5 DEF Content, Holding
      <4> QED BY <2>1, <4>1 DEF TypeOK
    <3>2. Kept(p) => Kept(p)'
      BY <2>1, <2>5 DEF Kept
    <3>3. Careful(u)'
      BY <1>t, <2>1, <2>3, <2>5, <3>1 DEF Careful, Removing
    <3> QED BY <1>u, <2>1, <3>1, <3>2, <3>3
  <2> QED BY <2>2, <2>4, <2>5
<1>10. ASSUME NEW u \in Users, DeleteSecret(u) PROVE KeysOf(p)'
  <2>1. /\ registry' = registry /\ vault' = vault /\ u \in Procs /\ u \in Busy /\ GoesOn(u) /\ u \in Busy'
        /\ P(u) \in Providers /\ P(u)' = P(u) /\ proc'[u].arg = proc[u].arg /\ Step1(u)' = "save_vault"
        /\ Frame(u) /\ Busy' \subseteq Busy \cup {u} /\ Step1(u) = "delete"
        /\ proc[u].arg.steps = RemoveCommand /\ proc[u].arg \in Commands
        /\ keychain' = IF up THEN [keychain EXCEPT ![P(u)] = NULL] ELSE keychain
    BY <1>a, <1>10, OfDeleteSecret, AtWork DEF DeleteSecret, Procs, P, GoesOn
  <2>2. Removing(u) /\ proc[u].arg.key = "none"
    BY <1>a, <2>1, AtWork, OfCommands, CommandsDiffer DEF Removing
  <2>3. u \notin Holding("registry")'
    <3>1. proc'[u].copy = [file |-> "vault", content |-> [vault EXCEPT ![P(u)] = NULL]]
      BY <1>10, OfDeleteSecret
    <3> QED BY <3>1 DEF Holding
  <2>4. ASSUME P(u) # p, Kept(p) PROVE Kept(p)'
    <3>1. keychain'[p] = keychain[p]
      BY <2>1, <2>4 DEF TypeOK
    <3> QED BY <2>1, <2>4, <3>1 DEF Kept
  <2>5. ASSUME P(u) = p PROVE Careful(u)'
    <3>1. registry[p] = NULL /\ \A r \in Holding("registry") : Content(r)[p] = NULL
      BY <1>k, <2>1, <2>2, <2>5 DEF KeysOf, Careful
    <3>2. ASSUME NEW r \in Holding("registry")' PROVE Content(r)'[p] = NULL
      <4>1. r \in Busy' /\ r # u
        BY <1>t, <2>3, <3>2
      <4> QED BY <2>1, <3>1, <3>2, <4>1, Bystanders
    <3>3. Removing(u)'
      BY <1>t, <2>1, <2>2 DEF Removing
    <3> QED BY <2>1, <2>2, <2>5, <3>1, <3>2, <3>3 DEF Careful
  <2> QED BY <1>u, <2>1, <2>2, <2>3, <2>4, <2>5
<1>13. ASSUME NEW s \in Sessions, StoreToken(s) PROVE KeysOf(p)'
  <2>1. /\ registry' = registry /\ vault' = vault /\ s \in Procs /\ s \in Busy
        /\ P(s) \in Providers /\ proc[s].arg.key # "none" /\ proc[s].token \in Nat
    BY <1>a, <1>13, OfStoreToken, AtWork, OfRefreshes DEF StoreToken, SetSecret, Procs, Works
  <2>2. proc[s].token # NULL
    BY <1>a, <2>1 DEF Secrets
  <2>3. CASE keychain' = [keychain EXCEPT ![P(s)] = proc[s].token] /\ Ends(s)
    <3>1. Kept(p) => Kept(p)'
      BY <2>1, <2>2, <2>3 DEF Kept, TypeOK
    <3> QED BY <1>e, <1>t, <1>u, <2>1, <2>3, <3>1
  <2>4. CASE /\ keychain' = keychain /\ GoesOn(s) /\ Step1(s)' = "save_vault" /\ proc'[s].arg = proc[s].arg
             /\ proc'[s].copy = [file |-> "vault", content |-> [vault EXCEPT ![P(s)] = proc[s].token]]
    <3>1. Content(s)'[P(s)] = proc[s].token /\ s \notin Holding("registry")'
      <4>1. Content(s)' = [vault EXCEPT ![P(s)] = proc[s].token] /\ s \notin Holding("registry")'
        BY <2>4 DEF Content, Holding
      <4> QED BY <2>1, <4>1 DEF TypeOK
    <3>2. (Kept(p) => Kept(p)') /\ P(s)' = P(s) /\ s \in Busy'
      BY <1>g, <2>1, <2>4 DEF Kept, P
    <3>3. Careful(s)'
      BY <1>t, <2>1, <2>2, <2>4, <3>1, <3>2 DEF Careful, Removing
    <3> QED BY <1>u, <2>1, <2>4, <3>1, <3>2, <3>3
  <2> QED BY <1>13, <2>3, <2>4, OfStoreToken
<1>14. ASSUME NEW q \in Procs, SaveVault(q) PROVE KeysOf(p)'
  <2>1. /\ registry' = registry /\ keychain' = keychain /\ vault' = Content(q)
        /\ q \in Busy /\ Step1(q) = "save_vault" /\ q \in Holding("vault") /\ (Ends(q) \/ GoesOn(q))
    BY <1>14, OfSaveVault DEF SaveVault
  <2>2. ASSUME P(q) # p PROVE Kept(p)' <=> Kept(p)
    <3>1. vault'[p] = vault[p]
      BY <1>k, <2>1, <2>2 DEF Vaults
    <3> QED BY <2>1, <3>1 DEF Kept
  <2>3. ASSUME P(q) = p, ~Removing(q) PROVE Kept(p)'
    <3>1. Content(q)[p] # NULL
      BY <1>a, <1>k, <2>1, <2>3, AtWork DEF KeysOf, Careful
    <3> QED BY <2>1, <3>1 DEF Kept
  <2>4. /\ q \in Busy' => /\ Step1(q)' = "load" /\ proc[q].arg.steps = Keyed
                          /\ proc'[q].arg = proc[q].arg /\ proc'[q].copy = proc[q].copy
    BY <1>e, <1>14, OfSaveVault
  <2>5. ASSUME q \in Busy', P(q)' = p PROVE Careful(q)'
    <3>1. P(q) = p
      BY <2>4, <2>5 DEF P
    <3>2. ~Removing(q)
      <4>1. proc[q].arg \in Commands \cup RefreshTokens
        BY <1>a, <2>1, AtWork DEF Procs
      <4>2. proc[q].arg.key # "none"
        BY <2>4, <2>5, <4>1, OfCommands, OfRefreshes
      <4> QED BY <1>a, <2>1, <4>2, AtWork DEF Removing
    <3> QED BY <1>t, <2>3, <2>4, <2>5, <3>1, <3>2 DEF Careful, Removing
  <2> QED BY <1>t, <1>u, <2>1, <2>2, <2>3, <2>4, <2>5
<1>16. CASE Flip
  BY <1>k, <1>16 DEF Flip, KeysOf, Kept, Careful, Removing, At, Step1, Busy, Holding, P, Content
<1>17. CASE UNCHANGED vars
  BY <1>k, <1>17 DEF vars, stores, KeysOf, Kept, Careful, Removing, At, Step1, Busy, Holding, P, Content
<1> QED BY <1>1, <1>2, <1>3, <1>4, <1>5, <1>6, <1>7, <1>8, <1>9, <1>10, <1>11, <1>12, <1>13, <1>14, <1>15,
           <1>16, <1>17 DEF Next, Step

-----------------------------------------------------------------------------
(* Tokens.                                                                 *)

\* The others store and refresh what they did before.
LEMMA Same ==
    ASSUME NEW q, Frame(q), NEW x \in Procs, x # q, NEW p
    PROVE  /\ proc'[x] = proc[x] /\ Content(x)' = Content(x) /\ P(x)' = P(x) /\ (x \in Busy' <=> x \in Busy)
           /\ Storing(x, p)' <=> Storing(x, p)
           /\ Refreshing(x, p)' <=> Refreshing(x, p)
           /\ \A s : At(x, s)' <=> At(x, s)
<1>1. proc'[x] = proc[x]
  BY DEF Frame, Others
<1>2. Content(x)' = Content(x) /\ P(x)' = P(x) /\ (x \in Busy' <=> x \in Busy) /\ \A s : At(x, s)' <=> At(x, s)
  BY <1>1 DEF Content, P, Busy, At
<1> QED BY <1>1, <1>2 DEF Storing, Refreshing

\* A step of q that is not about the tokens of p.
LEMMA TokensElsewhere ==
    ASSUME NEW q \in Procs, Frame(q), NEW p, TokensOf(p), server'[p] = server[p], Secret(p)' = Secret(p),
           ~Storing(q, p) \/ q \in Users,
           ~Storing(q, p)', ~Refreshing(q, p)'
    PROVE  TokensOf(p)'
<1>0. Users \cap Sessions = {} /\ Users \subseteq Procs /\ Sessions \subseteq Procs
  BY StoresOK DEF Procs
<1>1. \A x \in Procs : x # q => /\ proc'[x] = proc[x] /\ Content(x)' = Content(x)
                                /\ P(x)' = P(x) /\ (x \in Busy' <=> x \in Busy)
                                /\ Storing(x, p)' <=> Storing(x, p)
                                /\ Refreshing(x, p)' <=> Refreshing(x, p)
                                /\ \A s : At(x, s)' <=> At(x, s)
  BY Same
<1>2. \A s \in Sessions : Storing(s, p)' => s # q
  OBVIOUS
<1>3. \A s \in Sessions : Refreshing(s, p)' => s # q
  OBVIOUS
<1>4. \A s \in Sessions : Storing(s, p) => Storing(s, p)'
  BY <1>0, <1>1
<1>5. \A s \in Sessions : Refreshing(s, p)' => Refreshing(s, p) /\ proc'[s].token = proc[s].token
  BY <1>0, <1>1, <1>3
<1>6. ASSUME NEW s \in Sessions, Storing(s, p)'
      PROVE  /\ Storing(s, p) /\ proc'[s].token = proc[s].token /\ Content(s)' = Content(s)
             /\ At(s, "save_vault")' <=> At(s, "save_vault")
  BY <1>0, <1>1, <1>2, <1>6
<1>7. ASSUME NEW s \in Sessions, Storing(s, p)'
      PROVE  /\ proc'[s].token = server'[p]
             /\ At(s, "save_vault")' => Content(s)'[p] = server'[p]
             /\ Rotates => /\ Secret(p)' \in Nat => Secret(p)' # server'[p]
                           /\ \A r \in Sessions : Refreshing(r, p)' => proc'[r].token # server'[p]
                           /\ \A r \in Sessions : Storing(r, p)' => r = s
  BY <1>5, <1>6, <1>7 DEF TokensOf
<1>8. ASSUME NEW u \in Users, u \in Busy', P(u)' = p, At(u, "save_vault")'
      PROVE  Content(u)'[p] \in {NULL, TypedKey, server'[p]}
  <2>1. u # q
    BY <1>8 DEF Storing
  <2>2. u \in Busy /\ P(u) = p /\ At(u, "save_vault") /\ Content(u)' = Content(u)
    BY <1>0, <1>1, <1>8, <2>1
  <2> QED BY <2>2 DEF TokensOf
<1>9. \A s \in Sessions : Refreshing(s, p)' => proc'[s].token <= server'[p]
  BY <1>5 DEF TokensOf
<1>10. /\ Secret(p)' \in Nat => Secret(p)' <= server'[p]
       /\ (\A s \in Sessions : ~Storing(s, p)') /\ Secret(p)' \in Nat => Secret(p)' = server'[p]
  BY <1>4 DEF TokensOf
<1> QED BY <1>7, <1>8, <1>9, <1>10 DEF TokensOf

\* A step of a user, alone with p, that stores, deletes or saves what it has.
LEMMA TokensOfUser ==
    ASSUME NEW u \in Users, u \in Busy, Frame(u), Busy' \subseteq Busy, NEW p, P(u) = p, TokensOf(p), Apart,
           p \in Providers \ raced, server'[p] = server[p], server[p] \in Nat, TypedKey \notin Nat, NULL \notin Nat,
           Secret(p)' \in {Secret(p), NULL, TypedKey, server[p]},
           At(u, "save_vault")' => Content(u)'[p] \in {NULL, TypedKey, server[p]}
    PROVE  TokensOf(p)'
<1>0. Users \cap Sessions = {} /\ Users \subseteq Procs /\ Sessions \subseteq Procs
  BY StoresOK DEF Procs
<1>1. \A x \in Busy : P(x) = p => x = u
  BY DEF Apart
<1>2. ASSUME NEW x \in Procs, x # u, x \in Busy', P(x)' = p PROVE FALSE
  BY <1>1, <1>2, Same
<1>3. \A s \in Sessions : s # u /\ ~Storing(s, p)' /\ ~Refreshing(s, p)'
  BY <1>0, <1>2 DEF Storing, Refreshing
<1>4. \A s \in Sessions : ~Storing(s, p)
  BY <1>0, <1>1 DEF Storing
<1>5. Secret(p) \in Nat => Secret(p) = server[p]
  BY <1>4 DEF TokensOf
<1>6. Secret(p)' \in Nat => Secret(p)' = server'[p]
  BY <1>5
<1>7. Secret(p)' \in Nat => Secret(p)' <= server'[p]
  BY <1>6
<1>8. \A x \in Users : x \in Busy' /\ P(x)' = p /\ At(x, "save_vault")' =>
         Content(x)'[p] \in {NULL, TypedKey, server'[p]}
  BY <1>0, <1>2
<1> QED BY <1>3, <1>6, <1>7, <1>8 DEF TokensOf

\* A session has stored its token.
LEMMA TokensStored ==
    ASSUME NEW s \in Sessions, NEW p, Storing(s, p), Ends(s), TokensOf(p), server[p] \in Nat,
           server'[p] = server[p], Secret(p)' = server[p], \A u \in Users : ~(u \in Busy' /\ P(u)' = p)
    PROVE  TokensOf(p)'
<1>1. Frame(s) /\ s \notin Busy' /\ Sessions \subseteq Procs
  BY DEF Ends, Procs
<1>2. ~Storing(s, p)' /\ ~Refreshing(s, p)'
  BY <1>1 DEF Storing, Refreshing
<1>3. ASSUME NEW x \in Sessions, x # s
      PROVE  /\ proc'[x] = proc[x] /\ Content(x)' = Content(x)
             /\ Storing(x, p)' <=> Storing(x, p)
             /\ Refreshing(x, p)' <=> Refreshing(x, p)
             /\ \A t : At(x, t)' <=> At(x, t)
  BY <1>1, <1>3, Same
<1>4. \A x \in Sessions : Refreshing(x, p)' => proc'[x].token <= server'[p]
  BY <1>2, <1>3 DEF TokensOf
<1>5. ASSUME NEW x \in Sessions, Storing(x, p)'
      PROVE  /\ proc'[x].token = server'[p] /\ ~Rotates
             /\ At(x, "save_vault")' => Content(x)'[p] = server'[p]
  <2>1. x # s /\ Storing(x, p)
    BY <1>2, <1>3, <1>5
  <2> QED BY <1>3, <2>1 DEF TokensOf
<1> QED BY <1>4, <1>5 DEF TokensOf

LEMMA NextHistory ==
    ASSUME flips \in Nat, [Next]_vars
    PROVE  cut \subseteq cut' /\ (flips' = 0 => flips = 0 /\ up' = up)
<1>1. ASSUME NEW u \in Users, Begin(u) \/ Step(u) PROVE cut' = cut /\ flips' = flips /\ up' = up
  BY <1>1 DEF Step, Begin, LoadRegistry, LoadPrices, EditRegistry, EditPrices, GiveUp, SaveEmpties, SaveFills,
              StoreKey, DeleteSecret, SetSecret, stores
<1>2. ASSUME NEW s \in Sessions, ReadToken(s) \/ Refresh(s) \/ StoreToken(s)
      PROVE  cut' = cut /\ flips' = flips /\ up' = up
  BY <1>2 DEF ReadToken, Refresh, StoreToken, SetSecret, stores
<1>3. ASSUME NEW q \in Procs, SaveVault(q) \/ Die(q) PROVE cut \subseteq cut' /\ flips' = flips /\ up' = up
  BY <1>3 DEF SaveVault, Die, stores
<1>4. ASSUME Flip PROVE cut' = cut /\ flips' # 0
  BY <1>4 DEF Flip
<1>5. ASSUME UNCHANGED vars PROVE cut' = cut /\ flips' = flips /\ up' = up
  BY <1>5 DEF vars, stores
<1> QED BY <1>1, <1>2, <1>3, <1>4, <1>5 DEF Next

LEMMA NextTokens ==
    ASSUME TypeOK, Apart, Vaults, Steady, Tokens, [Next]_vars
    PROVE  Tokens'
<1>a. raced \subseteq raced' /\ Working /\ cut \subseteq cut' /\ (flips' = 0 => flips = 0 /\ up' = up)
  BY NextApart, NextHistory DEF TypeOK
<1> SUFFICES ASSUME NEW p \in OAuthOf, flips' = 0, {p, "vault"} \cap raced' = {}, p \notin cut'
             PROVE  TokensOf(p)'
  BY DEF Tokens
<1>k. TokensOf(p) /\ flips = 0 /\ up' = up /\ "vault" \notin raced /\ p \in Providers \ raced
  BY <1>a, StoresOK DEF Tokens
<1>n. server[p] \in Nat /\ TypedKey \notin Nat /\ NULL \notin Nat /\ NULL # TypedKey
  BY <1>k, StoresOK DEF TypeOK, Secrets
<1>y. /\ up => vault[p] = NULL /\ \A q \in Holding("vault") : Content(q) = NoEntries
      /\ ~up => keychain[p] = NULL
  BY <1>k DEF Steady, NoEntries
<1>x. /\ Secret(p) = IF up /\ keychain[p] # NULL THEN keychain[p] ELSE vault[p]
      /\ Secret(p)' = IF up /\ keychain'[p] # NULL THEN keychain'[p] ELSE vault'[p]
  BY <1>k DEF Secret
<1>t. \A x \in Busy' : \A s : At(x, s)' <=> Step1(x)' = s
  BY DEF At, Step1, Busy
<1>e. \A q : Ends(q) => q \notin Busy'
  BY DEF Ends
<1>g. \A q : GoesOn(q) => q \in Busy'
  BY DEF GoesOn
\* Steps that are not about the tokens of p.
<1>p. ASSUME NEW q \in Procs, Ends(q) \/ GoesOn(q), Secret(p)' = Secret(p), server'[p] = server[p],
             ~Storing(q, p) \/ q \in Users,
             q \in Busy' => P(q)' # p \/ Step1(q)' \notin {"refresh", "store", "save_vault"}
      PROVE  TokensOf(p)'
  <2>1. ~Storing(q, p)' /\ ~Refreshing(q, p)'
    BY <1>t, <1>p DEF Storing, Refreshing
  <2>2. Frame(q)
    BY <1>p DEF Ends, GoesOn
  <2> QED BY <1>k, <1>p, <2>1, <2>2, TokensElsewhere
\* Steps of the user that are not about secrets.
<1>u. ASSUME NEW u \in Users, Ends(u) \/ GoesOn(u), keychain' = keychain, vault' = vault, server' = server,
             u \in Busy' => Step1(u)' \notin {"refresh", "store", "save_vault"}
      PROVE  TokensOf(p)'
  <2>1. Secret(p)' = Secret(p) /\ u \in Procs
    BY <1>u, <1>x DEF Procs
  <2> QED BY <1>u, <1>p, <2>1
<1>1. ASSUME NEW u \in Users, Begin(u) PROVE TokensOf(p)'
  <2>1. keychain' = keychain /\ vault' = vault /\ server' = server
    BY <1>1 DEF Begin, stores
  <2> QED BY <1>u, <1>1, <2>1, OfBegin
<1>2. ASSUME NEW u \in Users, LoadRegistry(u) PROVE TokensOf(p)'
  <2>1. keychain' = keychain /\ vault' = vault /\ server' = server
    BY <1>2 DEF LoadRegistry, stores
  <2> QED BY <1>u, <1>2, <2>1, OfLoadRegistry DEF RegistryEdits
<1>3. ASSUME NEW u \in Users, LoadPrices(u) PROVE TokensOf(p)'
  <2>1. keychain' = keychain /\ vault' = vault /\ server' = server
    BY <1>3 DEF LoadPrices, stores
  <2> QED BY <1>u, <1>3, <2>1, OfLoadPrices
<1>4. ASSUME NEW u \in Users, EditRegistry(u) PROVE TokensOf(p)'
  <2>1. keychain' = keychain /\ vault' = vault /\ server' = server
    BY <1>4 DEF EditRegistry, stores
  <2>2. Ends(u) \/ (GoesOn(u) /\ Step1(u)' = "save")
    BY <1>4, OfEditRegistry
  <2> QED BY <1>e, <1>u, <2>1, <2>2
<1>5. ASSUME NEW u \in Users, EditPrices(u) PROVE TokensOf(p)'
  <2>1. keychain' = keychain /\ vault' = vault /\ server' = server
    BY <1>5 DEF EditPrices, stores
  <2>2. Ends(u) \/ (GoesOn(u) /\ Step1(u)' = "save_prices")
    BY <1>5, OfEditPrices
  <2> QED BY <1>e, <1>u, <2>1, <2>2
<1>6. ASSUME NEW u \in Users, GiveUp(u) PROVE TokensOf(p)'
  <2>1. keychain' = keychain /\ vault' = vault /\ server' = server
    BY <1>6 DEF GiveUp, stores
  <2> QED BY <1>e, <1>u, <1>6, <2>1, OfGiveUp
<1>7. ASSUME NEW u \in Users, SaveEmpties(u) PROVE TokensOf(p)'
  <2>1. keychain' = keychain /\ vault' = vault /\ server' = server
    BY <1>7 DEF SaveEmpties
  <2> QED BY <1>u, <1>7, <2>1, OfSaveEmpties
<1>8. ASSUME NEW u \in Users, SaveFills(u) PROVE TokensOf(p)'
  <2>1. keychain' = keychain /\ vault' = vault /\ server' = server
    BY <1>8 DEF SaveFills
  <2>2. Ends(u) \/ (GoesOn(u) /\ Step1(u)' \in {"load_prices", "delete"})
    BY <1>8, OfSaveFills
  <2> QED BY <1>e, <1>u, <2>1, <2>2
<1>9. ASSUME NEW u \in Users, StoreKey(u) PROVE TokensOf(p)'
  <2>1. /\ vault' = vault /\ server' = server /\ u \in Procs /\ u \in Busy /\ GoesOn(u) /\ Frame(u) /\ Busy' = Busy
        /\ P(u) \in Providers /\ P(u)' = P(u)
    BY <1>a, <1>9, OfStoreKey, AtWork DEF StoreKey, SetSecret, Procs, P, GoesOn
  <2>2. PICK v \in {server[P(u)], TypedKey} :
           \/ /\ up /\ keychain' = [keychain EXCEPT ![P(u)] = v] /\ Step1(u)' = "load"
           \/ /\ ~up /\ keychain' = keychain /\ Step1(u)' = "save_vault"
              /\ proc'[u].copy = [file |-> "vault", content |-> [vault EXCEPT ![P(u)] = v]]
    BY <1>9, OfStoreKey
  <2>3. CASE P(u) # p
    <3>1. keychain'[p] = keychain[p]
      BY <1>k, <2>2, <2>3 DEF TypeOK
    <3>2. Secret(p)' = Secret(p)
      BY <1>x, <2>1, <3>1
    <3> QED BY <1>p, <2>1, <2>3, <3>2
  <2>4. CASE P(u) = p
    <3>1. Secret(p)' \in {Secret(p), v}
      <4>1. keychain'[p] \in {keychain[p], v} /\ (~up => keychain'[p] = keychain[p])
        BY <1>k, <2>2, <2>4 DEF TypeOK
      <4>2. v # NULL
        BY <1>n, <2>4
      <4> QED BY <1>x, <2>1, <4>1, <4>2
    <3>2. At(u, "save_vault")' => Content(u)'[p] = v
      <4>1. Step1(u)' = "load" => ~At(u, "save_vault")'
        BY <1>t, <2>1
      <4>2. Step1(u)' = "load" \/ Content(u)' = [vault EXCEPT ![P(u)] = v]
        <5>1. CASE proc'[u].copy = [file |-> "vault", content |-> [vault EXCEPT ![P(u)] = v]]
          BY <5>1 DEF Content
        <5> QED BY <2>2, <5>1
      <4>3. [vault EXCEPT ![P(u)] = v][p] = v
        BY <1>k, <2>4 DEF TypeOK
      <4> QED BY <4>1, <4>2, <4>3
    <3>3. v \in {server[p], TypedKey}
      BY <2>4
    <3> QED BY <1>k, <1>n, <2>1, <2>4, <3>1, <3>2, <3>3, TokensOfUser
  <2> QED BY <2>3, <2>4
<1>10. ASSUME NEW u \in Users, DeleteSecret(u) PROVE TokensOf(p)'
  <2>1. /\ vault' = vault /\ server' = server /\ u \in Procs /\ u \in Busy /\ GoesOn(u) /\ Frame(u) /\ Busy' = Busy
        /\ P(u) \in Providers /\ P(u)' = P(u)
        /\ keychain' = IF up THEN [keychain EXCEPT ![P(u)] = NULL] ELSE keychain
    BY <1>a, <1>10, OfDeleteSecret, AtWork DEF DeleteSecret, Procs, P, GoesOn
  <2>2. Content(u)' = [vault EXCEPT ![P(u)] = NULL]
    <3>1. proc'[u].copy = [file |-> "vault", content |-> [vault EXCEPT ![P(u)] = NULL]]
      BY <1>10, OfDeleteSecret
    <3> QED BY <3>1 DEF Content
  <2>3. CASE P(u) # p
    <3>1. keychain'[p] = keychain[p]
      BY <1>k, <2>1, <2>3 DEF TypeOK
    <3>2. Secret(p)' = Secret(p)
      BY <1>x, <2>1, <3>1
    <3> QED BY <1>p, <2>1, <2>3, <3>2
  <2>4. CASE P(u) = p
    <3>1. Secret(p)' \in {Secret(p), NULL}
      <4>1. keychain'[p] \in {keychain[p], NULL} /\ (~up => keychain'[p] = keychain[p])
        BY <1>k, <2>1, <2>4 DEF TypeOK
      <4> QED BY <1>x, <1>y, <2>1, <4>1
    <3>2. Content(u)'[p] = NULL
      BY <1>k, <2>2, <2>4 DEF TypeOK
    <3> QED BY <1>k, <1>n, <2>1, <2>4, <3>1, <3>2, TokensOfUser
  <2> QED BY <2>3, <2>4
\* Whose tokens a session is busy with, no user is.
<1>s. ASSUME NEW s \in Sessions, s \in Busy, Frame(s), P(s) = p, NEW u \in Users PROVE ~(u \in Busy' /\ P(u)' = p)
  <2>1. u # s /\ u \in Procs
    BY StoresOK DEF Procs
  <2>2. ~(u \in Busy /\ P(u) = p)
    BY <1>k, <1>s, <2>1 DEF Apart
  <2> QED BY <1>s, <2>1, <2>2, Same
<1>m. \A s \in Sessions : Refreshing(s, p) => proc[s].token \in Nat
  BY <1>a, AtWork DEF Works, Refreshing
<1>11. ASSUME NEW s \in Sessions, ReadToken(s) PROVE TokensOf(p)'
  <2>1. keychain' = keychain /\ vault' = vault /\ server' = server
    BY <1>11 DEF ReadToken, stores
  <2>2. /\ s \in Procs /\ s \notin Busy /\ GoesOn(s) /\ Step1(s)' = "refresh" /\ Frame(s) /\ s \in Busy'
        /\ proc'[s].token = Secret(proc'[s].arg.p) /\ proc'[s].token \in Nat
    BY <1>11, OfReadToken DEF GoesOn
  <2>3. ~Storing(s, p) /\ Secret(p)' = Secret(p) /\ P(s)' = proc'[s].arg.p
    BY <1>x, <2>1, <2>2 DEF Storing, P
  <2>4. CASE P(s)' # p
    BY <1>p, <2>1, <2>2, <2>3, <2>4
  <2>5. CASE P(s)' = p
    <3>1. proc'[s].token = Secret(p) /\ Secret(p) \in Nat
      BY <2>2, <2>3, <2>5
    <3>2. ~Storing(s, p)'
      BY <1>t, <2>2 DEF Storing
    <3>3. \A x \in Procs : x # s => /\ proc'[x] = proc[x] /\ Content(x)' = Content(x)
                                    /\ P(x)' = P(x) /\ (x \in Busy' <=> x \in Busy)
                                    /\ Storing(x, p)' <=> Storing(x, p)
                                    /\ Refreshing(x, p)' <=> Refreshing(x, p)
                                    /\ \A t : At(x, t)' <=> At(x, t)
      BY <2>2, Same
    <3>4. \A x \in Sessions : /\ x \in Procs
                              /\ Storing(x, p)' <=> Storing(x, p)
                              /\ Refreshing(x, p)' => x = s \/ (Refreshing(x, p) /\ proc'[x] = proc[x])
      BY <2>3, <3>2, <3>3 DEF Procs
    <3>5. \A x \in Sessions : Refreshing(x, p)' => proc'[x].token <= server'[p]
      BY <1>k, <2>1, <3>1, <3>4 DEF TokensOf
    <3>6. ASSUME NEW x \in Sessions, Storing(x, p)'
          PROVE  /\ proc'[x].token = server'[p]
                 /\ At(x, "save_vault")' => Content(x)'[p] = server'[p]
                 /\ Rotates => /\ Secret(p)' \in Nat => Secret(p)' # server'[p]
                               /\ \A r \in Sessions : Refreshing(r, p)' => proc'[r].token # server'[p]
                               /\ \A r \in Sessions : Storing(r, p)' => r = x
      <4>1. x # s /\ Storing(x, p) /\ proc'[x] = proc[x] /\ Content(x)' = Content(x)
            /\ (At(x, "save_vault")' <=> At(x, "save_vault"))
        BY <3>2, <3>3, <3>4, <3>6
      <4>2. Rotates => \A r \in Sessions : Refreshing(r, p)' => proc'[r].token # server[p]
        BY <1>k, <3>1, <3>4, <4>1 DEF TokensOf
      <4> QED BY <1>k, <2>1, <2>3, <3>4, <4>1, <4>2 DEF TokensOf
    <3>7. \A u \in Users : u \in Busy' /\ P(u)' = p /\ At(u, "save_vault")' =>
             Content(u)'[p] \in {NULL, TypedKey, server'[p]}
      <4>1. \A u \in Users : u # s /\ u \in Procs
        BY StoresOK DEF Procs
      <4> QED BY <1>k, <2>1, <3>3, <4>1 DEF TokensOf
    <3>8. /\ Secret(p)' \in Nat => Secret(p)' <= server'[p]
          /\ (\A x \in Sessions : ~Storing(x, p)') /\ Secret(p)' \in Nat => Secret(p)' = server'[p]
      BY <1>k, <2>1, <2>3, <3>4 DEF TokensOf
    <3> QED BY <3>5, <3>6, <3>7, <3>8 DEF TokensOf
  <2> QED BY <2>4, <2>5
<1>12. ASSUME NEW s \in Sessions, Refresh(s) PROVE TokensOf(p)'
  <2>1. keychain' = keychain /\ vault' = vault
    BY <1>12 DEF Refresh
  <2>2. Secret(p)' = Secret(p) /\ s \in Procs /\ s \in Busy /\ Step1(s) = "refresh"
    BY <1>x, <1>12, <2>1, OfRefresh DEF Procs
  <2>3. ~Storing(s, p)
    BY <1>a, <2>2, AtWork DEF Storing
  <2>4. CASE Ends(s) /\ server' = server
    BY <1>e, <1>p, <2>2, <2>3, <2>4
  <2>5. CASE /\ proc[s].token = server[P(s)]
             /\ server' = [server EXCEPT ![P(s)] = IF Rotates THEN @ + 1 ELSE @]
             /\ GoesOn(s) /\ Busy' = Busy /\ Step1(s)' = "store"
             /\ proc'[s].arg = proc[s].arg
             /\ proc'[s].token = server'[P(s)]
    <3>1. P(s)' = P(s) /\ Frame(s) /\ s \in Busy'
      BY <2>2, <2>5 DEF P, GoesOn
    <3>2. CASE P(s) # p
      <4>1. server'[p] = server[p]
        BY <1>k, <2>5, <3>2 DEF TypeOK
      <4> QED BY <1>p, <2>2, <2>3, <2>5, <3>1, <3>2, <4>1
    <3>3. CASE P(s) = p
      <4>1. /\ proc[s].token = server[p] /\ proc'[s].token = server'[p]
            /\ server'[p] = IF Rotates THEN server[p] + 1 ELSE server[p]
        BY <1>k, <2>5, <3>3 DEF TypeOK
      <4>2. \A u \in Users : ~(u \in Busy' /\ P(u)' = p)
        BY <1>s, <2>2, <3>1, <3>3
      <4>3. Storing(s, p)' /\ ~Refreshing(s, p)' /\ ~At(s, "save_vault")'
        BY <1>t, <2>5, <3>1, <3>3 DEF Storing, Refreshing
      <4>4. \A x \in Sessions : x # s => /\ proc'[x] = proc[x] /\ Content(x)' = Content(x)
                                         /\ Storing(x, p)' <=> Storing(x, p)
                                         /\ Refreshing(x, p)' <=> Refreshing(x, p)
                                         /\ \A t : At(x, t)' <=> At(x, t)
        BY <3>1, Same DEF Procs
      <4>5. Refreshing(s, p)
        BY <1>a, <2>2, <3>3, AtWork DEF Refreshing
      <4>6. CASE ~Rotates
        <5>1. server'[p] = server[p]
          BY <4>1, <4>6
        <5>2. \A x \in Sessions : Refreshing(x, p)' => proc'[x].token <= server'[p]
          BY <1>k, <4>3, <4>4, <5>1 DEF TokensOf
        <5>3. \A x \in Sessions : Storing(x, p)' => /\ proc'[x].token = server'[p]
                                                    /\ At(x, "save_vault")' => Content(x)'[p] = server'[p]
          BY <1>k, <4>1, <4>3, <4>4, <5>1 DEF TokensOf
        <5>4. Secret(p)' \in Nat => Secret(p)' <= server'[p]
          BY <1>k, <2>2, <5>1 DEF TokensOf
        <5> QED BY <4>2, <4>3, <4>6, <5>2, <5>3, <5>4 DEF TokensOf
      <4>7. CASE Rotates
        <5>1. server'[p] = server[p] + 1
          BY <4>1, <4>7
        <5>2. \A x \in Sessions : ~Storing(x, p)
          BY <1>k, <4>1, <4>5, <4>7 DEF TokensOf
        <5>3. \A x \in Sessions : Storing(x, p)' => x = s
          BY <4>4, <5>2
        <5>4. ASSUME NEW x \in Sessions, Refreshing(x, p)'
              PROVE  proc'[x].token <= server'[p] /\ proc'[x].token # server'[p]
          <6>1. x # s /\ Refreshing(x, p) /\ proc'[x] = proc[x]
            BY <4>3, <4>4, <5>4
          <6>2. proc[x].token \in Nat /\ proc[x].token <= server[p]
            BY <1>k, <1>m, <6>1 DEF TokensOf
          <6> QED BY <1>n, <5>1, <6>1, <6>2
        <5>5. Secret(p)' \in Nat => Secret(p)' <= server'[p] /\ Secret(p)' # server'[p]
          <6>1. Secret(p)' \in Nat => Secret(p)' <= server[p]
            BY <1>k, <2>2 DEF TokensOf
          <6> QED BY <1>n, <5>1, <6>1
        <5>6. ASSUME NEW x \in Sessions, Storing(x, p)'
              PROVE  proc'[x].token = server'[p] /\ ~At(x, "save_vault")'
          BY <4>1, <4>3, <5>3, <5>6
        <5> QED BY <4>2, <4>3, <5>3, <5>4, <5>5, <5>6 DEF TokensOf
      <4> QED BY <4>6, <4>7
    <3> QED BY <3>2, <3>3
  <2> QED BY <1>12, <2>4, <2>5, OfRefresh
<1>13. ASSUME NEW s \in Sessions, StoreToken(s) PROVE TokensOf(p)'
  <2>1. /\ vault' = vault /\ server' = server /\ s \in Procs /\ s \in Busy /\ Step1(s) = "store"
        /\ P(s) \in Providers /\ At(s, "store")
    BY <1>a, <1>13, OfStoreToken, AtWork DEF StoreToken, SetSecret, Procs
  <2>2. CASE up /\ keychain' = [keychain EXCEPT ![P(s)] = proc[s].token] /\ Ends(s)
    <3>1. CASE P(s) # p
      <4>1. keychain'[p] = keychain[p]
        BY <1>k, <2>2, <3>1 DEF TypeOK
      <4>2. Secret(p)' = Secret(p) /\ ~Storing(s, p)
        BY <1>x, <2>1, <3>1, <4>1 DEF Storing
      <4> QED BY <1>e, <1>p, <2>1, <2>2, <4>2
    <3>2. CASE P(s) = p
      <4>1. Storing(s, p)
        BY <2>1, <3>2 DEF Storing
      <4>2. keychain'[p] = server[p]
        <5>1. proc[s].token = server[p]
          BY <1>k, <4>1 DEF TokensOf
        <5> QED BY <1>k, <2>2, <3>2, <5>1 DEF TypeOK
      <4>3. Secret(p)' = server[p]
        BY <1>n, <1>x, <2>2, <4>2
      <4>4. \A u \in Users : ~(u \in Busy' /\ P(u)' = p)
        BY <1>s, <2>1, <2>2, <3>2 DEF Ends
      <4> QED BY <1>k, <1>n, <2>1, <2>2, <4>1, <4>3, <4>4, TokensStored
    <3> QED BY <3>1, <3>2
  <2>3. CASE /\ keychain' = keychain /\ GoesOn(s) /\ Busy' = Busy /\ Step1(s)' = "save_vault"
             /\ proc'[s].arg = proc[s].arg /\ proc'[s].token = proc[s].token
             /\ proc'[s].copy = [file |-> "vault", content |-> [vault EXCEPT ![P(s)] = proc[s].token]]
    <3>1. P(s)' = P(s) /\ Frame(s) /\ s \in Busy' /\ Secret(p)' = Secret(p)
      BY <1>x, <2>1, <2>3 DEF P, GoesOn
    <3>2. CASE P(s) # p
      <4>1. ~Storing(s, p)
        BY <3>2 DEF Storing
      <4> QED BY <1>p, <2>1, <2>3, <3>1, <3>2, <4>1
    <3>3. CASE P(s) = p
      <4>1. Storing(s, p) /\ Storing(s, p)' /\ ~Refreshing(s, p)'
        BY <1>t, <2>1, <2>3, <3>1, <3>3 DEF Storing, Refreshing
      <4>2. proc[s].token = server[p] /\ Content(s)'[p] = proc[s].token
        <5>1. Content(s)' = [vault EXCEPT ![P(s)] = proc[s].token]
          BY <2>3 DEF Content
        <5>2. proc[s].token = server[p]
          BY <1>k, <4>1 DEF TokensOf
        <5> QED BY <1>k, <3>3, <5>1, <5>2 DEF TypeOK
      <4>3. \A u \in Users : ~(u \in Busy' /\ P(u)' = p)
        BY <1>s, <2>1, <3>1, <3>3
      <4>4. \A x \in Sessions : x # s => /\ proc'[x] = proc[x] /\ Content(x)' = Content(x)
                                         /\ Storing(x, p)' <=> Storing(x, p)
                                         /\ Refreshing(x, p)' <=> Refreshing(x, p)
                                         /\ \A t : At(x, t)' <=> At(x, t)
        BY <3>1, Same DEF Procs
      <4>5. \A x \in Sessions : Storing(x, p)' => Storing(x, p) /\ proc'[x].token = proc[x].token
        BY <2>3, <4>1, <4>4
      <4>6. \A x \in Sessions : Refreshing(x, p)' => Refreshing(x, p) /\ proc'[x].token = proc[x].token
        BY <4>1, <4>4
      <4>7. ASSUME NEW x \in Sessions, Storing(x, p)', At(x, "save_vault")'
            PROVE  Content(x)'[p] = server'[p]
        <5>1. CASE x = s
          BY <2>1, <4>2, <5>1
        <5>2. CASE x # s
          BY <1>k, <2>1, <4>4, <4>7, <5>2 DEF TokensOf
        <5> QED BY <5>1, <5>2
      <4> QED BY <1>k, <2>1, <3>1, <4>1, <4>3, <4>5, <4>6, <4>7 DEF TokensOf
    <3> QED BY <3>2, <3>3
  <2> QED BY <1>13, <2>2, <2>3, OfStoreToken
<1>14. ASSUME NEW q \in Procs, SaveVault(q) PROVE TokensOf(p)'
  <2>1. /\ keychain' = keychain /\ vault' = Content(q) /\ server' = server
        /\ q \in Busy /\ Step1(q) = "save_vault" /\ q \in Holding("vault") /\ (Ends(q) \/ GoesOn(q))
        /\ q \in Busy' => Step1(q)' = "load" /\ proc[q].arg.steps = Keyed
        /\ Frame(q) /\ Busy' \subseteq Busy
    BY <1>e, <1>14, OfSaveVault DEF SaveVault, Ends, GoesOn
  <2>2. At(q, "save_vault") /\ ~At(q, "save_vault")'
    <3>1. At(q, "save_vault")' => q \in Busy'
      BY <1>14 DEF At, Busy
    <3> QED BY <1>t, <2>1, <3>1, <1>14 DEF SaveVault
  <2>3. CASE P(q) # p
    <3>1. vault'[p] = vault[p]
      BY <1>k, <2>1, <2>3 DEF Vaults
    <3>2. Secret(p)' = Secret(p) /\ ~Storing(q, p)
      BY <1>x, <2>1, <2>3, <3>1 DEF Storing
    <3> QED BY <1>p, <2>1, <3>2
  <2>4. CASE P(q) = p /\ q \in Users
    <3>1. Content(q)[p] \in {NULL, TypedKey, server[p]}
      BY <1>k, <2>1, <2>2, <2>4 DEF TokensOf
    <3>2. up => Content(q)[p] = NULL
      BY <1>k, <1>y, <2>1 DEF NoEntries
    <3>3. Secret(p)' \in {Secret(p), NULL, TypedKey, server[p]}
      BY <1>x, <1>y, <2>1, <3>1, <3>2
    <3> QED BY <1>k, <1>n, <2>1, <2>2, <2>4, <3>3, TokensOfUser
  <2>5. CASE P(q) = p /\ q \in Sessions
    <3>1. Storing(q, p) /\ proc[q].arg.steps # Keyed
      BY <1>a, <2>1, <2>2, <2>5, AtWork, OfRefreshes, CommandsDiffer DEF Storing
    <3>2. Content(q)[p] = server[p]
      BY <1>k, <2>2, <2>5, <3>1 DEF TokensOf
    <3>3. up => Content(q)[p] = NULL
      BY <1>k, <1>y, <2>1 DEF NoEntries
    <3>4. ~up
      BY <1>n, <3>2, <3>3
    <3>5. Secret(p)' = server[p]
      BY <1>x, <2>1, <3>2, <3>4
    <3>6. Ends(q)
      BY <1>g, <2>1, <3>1
    <3>7. \A u \in Users : ~(u \in Busy' /\ P(u)' = p)
      BY <1>s, <2>1, <2>5
    <3> QED BY <1>k, <1>n, <2>1, <2>5, <3>1, <3>5, <3>6, <3>7, TokensStored
  <2> QED BY <1>14, <2>3, <2>4, <2>5 DEF Procs
<1>15. ASSUME NEW q \in Procs, Die(q) PROVE TokensOf(p)'
  <2>1. keychain' = keychain /\ vault' = vault /\ server' = server /\ P(q) # p
    BY <1>15 DEF Die, stores
  <2>2. Secret(p)' = Secret(p) /\ ~Storing(q, p) /\ Ends(q)
    BY <1>x, <1>15, <2>1, OfDie DEF Storing
  <2> QED BY <1>e, <1>p, <1>15, <2>1, <2>2
<1>16. CASE Flip
  BY <1>16 DEF Flip, TypeOK
<1>17. CASE UNCHANGED vars
  BY <1>k, <1>17 DEF vars, stores, TokensOf, Secret, Storing, Refreshing, Busy, P, Content, At
<1> QED BY <1>1, <1>2, <1>3, <1>4, <1>5, <1>6, <1>7, <1>8, <1>9, <1>10, <1>11, <1>12, <1>13, <1>14, <1>15,
           <1>16, <1>17 DEF Next, Step

-----------------------------------------------------------------------------
LEMMA NextStored == Stored /\ [Next]_vars => Stored'
BY NextTypes, NextApart, NextVaults, NextKeys, NextSteady, NextTokens, NextWishes DEF Stored

LEMMA AlwaysStored == Spec => []Stored
BY InitStored, NextStored, PTL DEF Spec

\* No step of any process leaves a registered provider with a key reference without
\* its secret: add stores it before `save`, remove deletes it after.
THEOREM SpecKeysResolve == Spec => []KeysResolve
<1>1. Stored => KeysResolve
  BY DEF Stored, Keys, KeysOf, Needs, Kept, KeysResolve
<1> QED BY <1>1, AlwaysStored, PTL

\* What fresh_access_token stores is never older than what it replaces: the store
\* holds the server's token whenever nobody is about to store one.
THEOREM SpecTokensAccepted == Spec => []TokensAccepted
<1>1. ASSUME Stored PROVE TokensAccepted
  <2>1. SUFFICES ASSUME NEW p \in OAuthOf, Secret(p) \in Nat, flips = 0, {p, "vault"} \cap raced = {}, p \notin cut,
                        ~\E s \in Sessions : (At(s, "store") \/ At(s, "save_vault")) /\ P(s) = p
                 PROVE  Secret(p) = server[p]
    BY DEF TokensAccepted
  <2>2. \A s \in Sessions : ~Storing(s, p)
    BY <2>1 DEF Storing
  <2> QED BY <1>1, <2>1, <2>2 DEF Stored, Tokens, TokensOf
<1> QED BY <1>1, AlwaysStored, PTL

\* Commands load the whole registry and save it whole, and still each keeps what
\* the others left of a provider.
THEOREM SpecWishesKept == Spec => []WishesKept
<1>1. ASSUME Stored PROVE WishesKept
  <2>1. SUFFICES ASSUME NEW p \in Providers, "registry" \notin raced \cup cut, ~\E u \in Users : At(u, "fill")
                 PROVE  Agrees(registry[p], wish[p])
    BY DEF WishesKept, Agrees
  <2>2. ASSUME NEW q \in Filling PROVE FALSE
    <3>1. q \in Busy /\ At(q, "fill") /\ Working
      BY <1>1, <2>2 DEF Filling, Holding, Stored, TypeOK
    <3>2. q \in Sessions /\ Step1(q) = "fill"
      BY <2>1, <3>1, AtWork DEF Procs
    <3>3. proc[q].arg.steps = RefreshSteps
      BY <3>1, <3>2, AtWork, OfRefreshes
    <3> QED BY <3>1, <3>2, <3>3, AtWork DEF Follows, Step1
  <2> QED BY <1>1, <2>1, <2>2 DEF Stored, Wishes
<1> QED BY <1>1, AlwaysStored, PTL

=============================================================================
