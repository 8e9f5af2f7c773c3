---------------------------- MODULE MCExecution ----------------------------
(* Instances of Execution for model checking: who shares a source. *)
EXTENDS Execution, TLC

CONSTANTS m1, m2, r1, r2, s1, s2

\* Two messages; a message and two deliveries of one recovery operation; a
\* message and a recovery operation.
TwoMessages == (m1 :> s1) @@ (m2 :> s2)
SameRetry == (m1 :> s1) @@ (r1 :> s2) @@ (r2 :> s2)
OneRetry == (m1 :> s1) @@ (r1 :> s2)

Symmetry == Permutations(Threads) \cup Permutations(Targets)

=============================================================================
