---------------------------- MODULE MCTaskWorker ----------------------------
(***************************************************************************)
(* Instances of TaskWorker for TLC.                                        *)
(***************************************************************************)
EXTENDS TaskWorker, TLC

CONSTANTS s1, s2, s3, p1, p2, t1, c1, c2, w1, w2

\* Two processes, one of them with two slots, all serving the one task.
TrioProcess == s1 :> p1 @@ s2 :> p1 @@ s3 :> p2
ServesAll == [s \in Slots |-> Tasks]
NoChildren == [t \in Tasks |-> {}]

\* Two conversations, each calling a workflow, on one slot of each kind.
KindProcess == s1 :> p1 @@ s2 :> p1
ServesByKind == s1 :> {c1, c2} @@ s2 :> {w1, w2}
Nested == c1 :> {w1} @@ c2 :> {w2} @@ w1 :> {} @@ w2 :> {}
=============================================================================
