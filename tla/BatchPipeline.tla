---------------------------- MODULE BatchPipeline ----------------------------
(***************************************************************************)
(* What the run workflow promises of a cycle: its batches become durable   *)
(* one after another, each by exactly one run, and what is durable is      *)
(* acknowledged in the cycle before the next batch becomes durable.        *)
(***************************************************************************)
EXTENDS Naturals

CONSTANTS
    N,      \* number of batches
    Runs,   \* runs that may work on a batch
    NoRun

VARIABLES
    publisher,    \* the run that made a batch durable
    acknowledged  \* how many batches the cycle knows to be completed

vars == <<publisher, acknowledged>>

Init ==
    /\ publisher = [b \in 1..N |-> NoRun]
    /\ acknowledged = 0

Publish(b, run) ==
    /\ b = acknowledged + 1
    /\ publisher[b] = NoRun
    /\ \A c \in 1..N : publisher[c] # run
    /\ publisher' = [publisher EXCEPT ![b] = run]
    /\ UNCHANGED acknowledged

Acknowledge ==
    /\ acknowledged < N
    /\ publisher[acknowledged + 1] # NoRun
    /\ acknowledged' = acknowledged + 1
    /\ UNCHANGED publisher

Next ==
    \/ \E b \in 1..N, run \in Runs : Publish(b, run)
    \/ Acknowledge

\* What was made durable is acknowledged in the end.
Spec == Init /\ [][Next]_vars /\ WF_vars(Acknowledge)
=============================================================================
