-------------------------- MODULE EvidencePartitionMC --------------------------
(***************************************************************************)
(* Inputs of EvidencePartition for TLC: up to MaxMixed rows over documents *)
(* in any order, and up to MaxRows rows document by document.              *)
(***************************************************************************)
EXTENDS EvidencePartition, TLC

CONSTANTS MaxMixed, MaxRows

\* Documents are numbered in the order in which they first appear.
Mixed(n) ==
    {f \in [1..n -> 1..n] : f[1] = 1 /\ \A i \in 2..n : \E j \in 1..(i - 1) : f[i] \in {f[j], Max({f[k] : k \in 1..(i - 1)}) + 1}}

Grouped(n) ==
    {[i \in 1..n |-> 1 + Cardinality({c \in cuts : c < i})] : cuts \in SUBSET (1..(n - 1))}

MCInputs == UNION {Mixed(n) : n \in 1..MaxMixed} \cup UNION {Grouped(n) : n \in 1..MaxRows}
=============================================================================
