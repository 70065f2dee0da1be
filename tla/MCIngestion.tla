---------------------------- MODULE MCIngestion ----------------------------
(* Small instances of Ingestion: three attempts with one input, as many as    *)
(* the policy allows, and one that reuses the identity with another input.    *)
EXTENDS Ingestion, TLC

CONSTANTS a1, a2, a3, b1, x, y

MCInputOf == [a \in Attempts |-> IF a = b1 THEN y ELSE x]

RetrySymmetry == Permutations({a1, a2, a3})
=============================================================================
