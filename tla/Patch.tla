-------------------------------- MODULE Patch --------------------------------
(***************************************************************************)
(* Unified diffs (rolen-core/src/patch.rs) and the paths of tickets        *)
(* (resolve_in, rolen-runtime/src/sink.rs): what the write queue takes for *)
(* Merge and FileOf.                                                       *)
(*                                                                         *)
(* A text is its lines and whether the last of them is ended; a carriage   *)
(* return at the end of a line, which the code takes off, is not part of   *)
(* it.  A line of a diff has a mark and a text; "--" and "++" stand for    *)
(* every text that begins so.                                              *)
(***************************************************************************)
EXTENDS Integers, Sequences, SequencesExt, TLC

CONSTANTS NoMatch, Panics, None

Smaller(m, n) == IF m < n THEN m ELSE n

\* Joining no lines and ending them gives one empty line.
Text(lines, ended) ==
  [lines |-> IF lines = <<>> /\ ended THEN <<"">> ELSE lines, ended |-> ended \/ lines = <<>>]
\* read_to_string(..).unwrap_or_default(): of what cannot be read, nothing.
EmptyText == [lines |-> <<>>, ended |-> TRUE]

\* A removed line that begins with two dashes reads like a file header.
IsHeader(l) == l.mark = "header" \/ <<l.mark, l.text>> \in {<<"-", "--">>, <<"+", "++">>}

Side(body, marks) ==
  LET side == SelectSeq(body, LAMBDA l : l.mark \in marks)
  IN  [i \in DOMAIN side |-> side[i].text]

\* parse_hunks.  Lines of another mark ("\ No newline at end of file") are
\* passed over; an empty one is context.
Hunks(diff) ==
  LET ls == SelectSeq(diff, LAMBDA l : ~IsHeader(l))
      at == SelectSeq([i \in DOMAIN ls |-> i], LAMBDA i : ls[i].mark = "@")
      Body(k) == SubSeq(ls, at[k] + 1, IF k = Len(at) THEN Len(ls) ELSE at[k + 1] - 1)
  IN  [k \in DOMAIN at |-> [start |-> ls[at[k]].text,
                            old |-> Side(Body(k), {" ", "-"}), new |-> Side(Body(k), {" ", "+"})]]

\* Nothing comes before the first hunk, every hunk says where it starts, and
\* there is one.
IsDiff(diff) ==
  LET ls == SelectSeq(diff, LAMBDA l : ~IsHeader(l))
  IN  /\ ls # <<>> /\ ls[1].mark = "@"
      /\ \A i \in DOMAIN ls : ls[i].mark # "@?"

\* locate: how many lines come before the match.  The first slice that is
\* compared ends past the lines when the hunk has more of them.
Locate(lines, h) ==
  LET before == IF h.start = 0 THEN 0 ELSE h.start - 1
      at == {n \in 0 .. Len(lines) - Len(h.old) : SubSeq(lines, n + 1, n + Len(h.old)) = h.old}
  IN  IF h.old = <<>> THEN Smaller(before, Len(lines))
      ELSE IF Len(h.old) > Len(lines) THEN Panics
      ELSE IF before \in at THEN before
      ELSE IF \E n \in at : at = {n} THEN CHOOSE n \in at : TRUE
      ELSE NoMatch

Splice(lines, n, h) ==
  SubSeq(lines, 1, n) \o h.new \o SubSeq(lines, n + Len(h.old) + 1, Len(lines))

\* A hunk that fails is the end.
RECURSIVE ApplyHunks(_, _)
ApplyHunks(lines, hunks) ==
  IF hunks = <<>> THEN lines
  ELSE LET n == Locate(lines, Head(hunks))
       IN  IF n \in {NoMatch, Panics} THEN n
           ELSE ApplyHunks(Splice(lines, n, Head(hunks)), Tail(hunks))

\* Bottom up.
ApplyPatch(old, diff) ==
  LET ordered == SortSeq(Hunks(diff), LAMBDA g, h : g.start > h.start)
      lines   == ApplyHunks(old.lines, ordered)
  IN  IF ~IsDiff(diff) THEN NoMatch
      ELSE IF lines \in {NoMatch, Panics} THEN lines
      ELSE Text(lines, old.ended)

-----------------------------------------------------------------------------
(* Paths are sequences of components.                                      *)

\* sanitize_relative: None when ".." climbs above the root.
RECURSIVE Climb(_, _)
Climb(out, path) ==
  IF path = <<>> THEN out
  ELSE CASE Head(path) = "."  -> Climb(out, Tail(path))
         [] Head(path) = ".." -> IF out = <<>> THEN None ELSE Climb(Front(out), Tail(path))
         [] OTHER             -> Climb(Append(out, Head(path)), Tail(path))
SanitizeRelative(path) == IF path # <<>> /\ Head(path) = "/" THEN None ELSE Climb(<<>>, path)

\* resolve_in: what exists is followed through symbolic links, and refused if
\* it is outside.
ResolveIn(links, path) ==
  LET relative == SanitizeRelative(path)
  IN  IF relative \in DOMAIN links THEN links[relative] ELSE relative
=============================================================================
