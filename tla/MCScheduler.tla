---------------------------- MODULE MCScheduler ----------------------------
(***************************************************************************)
(* Small instances of Scheduler.                                           *)
(***************************************************************************)
EXTENDS Scheduler

A == <<0, "a">>
B == <<0, "b">>
C == <<0, "c">>
OtherA == <<1, "a">>

\* Two projects in one directory.  Tasks a, b, c are a chain; c and the other
\* project's a claim the same file; the two a share their id.
TwoBatches == [p \in {0, 1} |-> IF p = 0 THEN <<A, B, C>> ELSE <<OtherA>>]
TwoDeps    == [t \in {A, B, C, OtherA} |-> CASE t = B -> {A} [] t = C -> {B} [] OTHER -> {}]
TwoClaims  == [t \in {A, B, C, OtherA} |-> IF t = A THEN {"x"} ELSE IF t = B THEN {} ELSE {"z"}]
OneDir     == [p \in {0, 1} |-> "w"]
JustA      == {A}
BothAs     == {A, OtherA}
JustOtherA == {OtherA}

\* One project, b after a.
OneBatch  == [p \in {0} |-> <<A, B>>]
OneClaims == [t \in {A, B} |-> IF t = A THEN {"x"} ELSE {"y"}]

\* One project, two independent tasks.
NoDeps == [t \in {A, B} |-> {}]
=============================================================================
