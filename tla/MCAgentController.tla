-------------------------- MODULE MCAgentController --------------------------
(***************************************************************************)
(* Instances of AgentController for TLC: which specs clients write.        *)
(***************************************************************************)
EXTENDS AgentController, TLC

CONSTANTS A, B

SpecOf(payload, port, paused, healing) ==
    [payload |-> payload, servicePort |-> port, paused |-> paused,
     selfHealingDisabled |-> ~healing]

\* Spec changes and pauses of an Agent without self-healing.
PodSpecs == {SpecOf(A, 0, FALSE, FALSE), SpecOf(A, 0, TRUE, FALSE), SpecOf(B, 0, FALSE, FALSE)}

\* Spec changes of an Agent with self-healing, which may be disabled.
HealingSpecs == {SpecOf(A, 0, FALSE, TRUE), SpecOf(B, 0, FALSE, TRUE), SpecOf(A, 0, FALSE, FALSE)}

\* The same for an Agent that stays paused, so that it needs no Pods.
PausedHealingSpecs ==
    {SpecOf(A, 0, TRUE, TRUE), SpecOf(B, 0, TRUE, TRUE), SpecOf(A, 0, TRUE, FALSE)}

\* Without a Service, with one, with another port, and paused.
StatusSpecs == {SpecOf(A, p, FALSE, FALSE) : p \in 0..2} \cup {SpecOf(A, 0, TRUE, FALSE)}

\* Some of everything.
MixedSpecs == {SpecOf(A, 0, FALSE, TRUE), SpecOf(B, 1, FALSE, FALSE), SpecOf(A, 0, TRUE, TRUE)}

\* Pod names are interchangeable.
PodSymmetry == Permutations(PodNames)

=============================================================================
