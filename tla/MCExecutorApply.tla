-------------------------- MODULE MCExecutorApply --------------------------
(* Instances of ExecutorApply for TLC. *)
EXTENDS ExecutorApply, TLC

CONSTANTS s1, s2, p1, p2, w1, w2, v1

\* The two plans carry different commands, so a re-fire can replace the plan
\* under an approved one.
MCSigOf == [p \in Plans |-> IF p = p1 THEN s1 ELSE s2]

\* Workers are interchangeable, and so are the two commands with their plans.
Swapped == (s1 :> s2) @@ (s2 :> s1) @@ (p1 :> p2) @@ (p2 :> p1)

Kept == (s1 :> s1) @@ (s2 :> s2) @@ (p1 :> p1) @@ (p2 :> p2)

Symmetry == {f @@ g : f \in Permutations(Workers), g \in {Swapped, Kept}}
=============================================================================
