------------------------------ MODULE Counting ------------------------------
(* How often a value occurs in a sequence: the properties of the relay's     *)
(* queues relate such counts.  Facts about them: OperatorTheorems.           *)
EXTENDS Integers, Sequences, FiniteSets

\* How many elements of the sequence s are x.
Count(s, x) == Cardinality({i \in DOMAIN s : s[i] = x})
=============================================================================
