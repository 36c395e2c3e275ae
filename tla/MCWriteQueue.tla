---------------------------- MODULE MCWriteQueue ----------------------------
(***************************************************************************)
(* Small instances of WriteQueue.  The keys name the paths "sub/../a",     *)
(* "./b" and "sub/../../a", which leaves the workspace; "A" and "B" are    *)
(* the files, "A.tmp" and "B.tmp" their temporary files.  Contents name    *)
(* texts: the patch replaces the one place where "old" has x before y and  *)
(* adds a line at its end, which makes it "old+p"; "new" has two such      *)
(* places, and a missing file has none and fewer lines.                    *)
(***************************************************************************)
EXTENDS WriteQueueStore, TLC

P == INSTANCE Patch

PathOf == ("a" :> <<"sub", "..", "a">>) @@ ("b" :> <<".", "b">>)
            @@ ("up" :> <<"sub", "..", "..", "a">>)
Links  == <<"b">> :> <<"b">>

MCFiles  == {"A", "B", "A.tmp", "B.tmp"}
FileAt(k) == LET p == P!ResolveIn(Links, PathOf[k])
             IN  CASE p = <<"a">> -> "A" [] p = <<"b">> -> "B" [] OTHER -> None
Resolved == ("a" :> FileAt("a")) @@ ("b" :> FileAt("b")) @@ ("up" :> FileAt("up"))
MCFileOf == [k \in Keys |-> Resolved[k]]

\* a.txt and b.txt.
MCTmpOf == [f \in Files |-> CASE f = "A" -> "A.tmp" [] f = "B" -> "B.tmp"
                              [] f = "A.tmp" -> "A" [] f = "B.tmp" -> "B"]

TextOf == ("old" :> P!Text(<<"x", "y">>, TRUE)) @@ ("new" :> P!Text(<<"x", "y", "x", "y">>, TRUE))
            @@ ("old+p" :> P!Text(<<"p", "y", "q">>, TRUE)) @@ (None :> P!EmptyText)
Named(text) == IF text \in {NoMatch, Panics} THEN text
               ELSE CHOOSE c \in Content : TextOf[c] = text

L(mark, text) == [mark |-> mark, text |-> text]
Diff == <<L("header", "--- a"), L("@", 5), L("-", "x"), L("+", "p"), L(" ", "y"), L("@", 9), L("+", "q")>>

Patched(c) == c :> Named(P!ApplyPatch(TextOf[c], Diff))
Merged == Patched("old") @@ Patched("new") @@ Patched("old+p") @@ Patched(None)

\* Only one ticket of an instance is a patch.
MCMerge(t, c) == IF Req[t].op = "patch" THEN Merged[c] ELSE NoMatch

Ask(k, op, base, text, target) ==
  [key |-> k, op |-> op, base |-> base, text |-> text, target |-> target]

Workspace(a, b) == [f \in Files |-> IF f = "A" THEN a ELSE IF f = "B" THEN b ELSE None]
Old  == {Workspace("old", None)}
Some == {Workspace(None, "old")}

MCReadKey == [r \in Readers |-> "a"]

\* Three writers of one path and one of a path that is refused.  The patch may find
\* the text it is made for, the one that the create wrote once the file was deleted,
\* or no file.
OrderReq ==
  [t1 |-> Ask("a", "create", None, "new", None),
   t2 |-> Ask("a", "patch", None, None, None),
   t3 |-> Ask("a", "delete", "old", None, None),
   t4 |-> Ask("up", "create", None, "new", None)]

\* Two writers of one path, one of which waits behind the other: a create, and a
\* rename to a file that is there.
LiveReq ==
  [t1 |-> Ask("a", "create", None, "new", None),
   t2 |-> Ask("a", "rename", None, None, "B")]
=============================================================================
