--------------------------- MODULE WriteQueueStore ---------------------------
(***************************************************************************)
(* The write queue as an implementation of PathStore: the store of a path  *)
(* is what its file holds, and a ticket takes effect when apply_ticket     *)
(* decides it.  It does so only if two paths never name one file, no two   *)
(* files share a temporary name, and no ticket renames a file onto a path  *)
(* it has not queued for.                                                  *)
(***************************************************************************)
EXTENDS WriteQueue

MayAccess(k) == FileOf[k] # None

DisjointPaths ==
  /\ \A j, k \in Keys : FileOf[j] = FileOf[k] /\ MayAccess(j) => j = k
  /\ \A f, g \in Files : TmpOf[f] = TmpOf[g] => f = g
  /\ \A j, k \in Keys : MayAccess(j) /\ MayAccess(k) => TmpOf[FileOf[j]] # FileOf[k]

NoRenames == \A t \in Tickets : Req[t].op # "rename"

Store == INSTANCE PathStore WITH
           store    <- [k \in Keys |-> ContentOf(k)],
           answered <- [r \in Readers |-> reader[r] = "answered"],
           Allowed  <- MayAccess

\* The queue is a store per path with atomic, ordered, read-your-writes
\* operations (queue.rs:1-8, 85-86, 252-253).
ImplementsPathStore == Store!Spec
=============================================================================
