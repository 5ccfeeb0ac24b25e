------------------------------ MODULE MCKernels ------------------------------
(* Small instances of the kernels, each with the bounds that let its hard   *)
(* cases happen: session s1 has MaxOfS1 runs, session s2 one.               *)
EXTENDS Kernels

CONSTANTS s1, s2, MaxOfS1

Runs == [s \in {s1, s2} |-> IF s = s1 THEN MaxOfS1 ELSE 1]
RunsOfS1 == [s \in {s1} |-> MaxOfS1]
=============================================================================
