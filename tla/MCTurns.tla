------------------------------ MODULE MCTurns ------------------------------
(* Three providers that are called, one per format, and a wrapped CLI. *)
EXTENDS Turns, TLC

CONSTANTS o, a, l, c

ProviderSet == {o, a, l, c}
ApiOf  == (o :> "openai" @@ a :> "anthropic" @@ l :> "ollama" @@ c :> "cli")
KindOf == (o :> "metered" @@ a :> "metered" @@ l :> "local" @@ c :> "plan")

\* Only the metered two should ever cost something here, the local one has a
\* stray entry.
Rate(input, output, read, five, hour) ==
  [input |-> input, output |-> output, read |-> read, five |-> five, hour |-> hour]
RatesOf == (o :> Rate(2, 3, 1, Absent, Absent) @@ a :> Rate(2, 3, 1, 4, 5)
            @@ l :> Rate(2, 3, Absent, Absent, Absent) @@ c :> Rate(1, 1, Absent, Absent, Absent))

Usage(input, read, written, five, hour) ==
  [input |-> input, read |-> read, written |-> written, five |-> five, hour |-> hour, output |-> 1]

\* More cache hits than prompt tokens; a flat number of writes, or one broken down.
ReportsOf == [openai    |-> {Usage(1, 2, Absent, Absent, Absent)},
              anthropic |-> {Usage(1, 1, 1, Absent, Absent), Usage(0, 1, 2, 1, 1)},
              ollama    |-> {Usage(1, Absent, Absent, Absent, Absent)},
              cli       |-> {}]

Call(named, given, args) == [named |-> named, given |-> given, tool |-> "read_file", args |-> args]
Two == <<Call(TRUE, TRUE, "whole"), Call(TRUE, TRUE, "whole")>>
Odd == <<Call(FALSE, FALSE, "whole"), Call(TRUE, FALSE, "cut"), Call(TRUE, FALSE, "whole")>>

Back(http, garbled, text, calls, usage) ==
  [http |-> http, garbled |-> garbled, text |-> text, calls |-> calls, usage |-> usage]
\* Nothing at all; two calls in a text; calls with, and where the format knows
\* of it without, ids or names.
Fine(api, usage) == {Back("ok", FALSE, <<>>, <<>>, usage),
                     Back("ok", FALSE, <<Word, "read_file", "submit_write">>, <<>>, usage),
                     Back("ok", FALSE, <<Word>>, Two, usage)}
                    \cup IF api = "anthropic" THEN {} ELSE {Back("ok", FALSE, <<>>, Odd, usage)}
Bad(usage) == {Back(http, FALSE, <<>>, <<>>, usage) : http \in {"busy", "refused", "unsent"}}
              \cup {Back("ok", TRUE, <<>>, <<>>, usage)}
RepliesOf == [api \in DOMAIN ReportsOf |-> UNION {Fine(api, u) \cup Bad(u) : u \in ReportsOf[api]}]

\* All write the same two tables, but each rows of its own.
CrowdSet == {{"agent", "probe"}, {"cli", "generate"}, {"chat", "probe"}}
=============================================================================
