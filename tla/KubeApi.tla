------------------------------- MODULE KubeApi -------------------------------
(***************************************************************************)
(* The objects the orchestrator keeps in the Kubernetes API server, and    *)
(* the rules of the API server its code relies on: generations, merge      *)
(* patches computed by the client, finalizers, and watch streams that      *)
(* bring every stored version to the informer caches, in order and late.   *)
(*                                                                         *)
(* The types are those of api/v1alpha1/agent_types.go.  Everything of an   *)
(* AgentSpec the controller only copies into the Pod (image, env, command, *)
(* resources, labels, ...) is one opaque payload.                          *)
(***************************************************************************)
EXTENDS Integers, Sequences, FiniteSets

CONSTANTS
    Payloads,   \* the values of the copied part of an AgentSpec
    Ports,      \* the ports Agents ask a Service for; 0: no Service
    PodNames,   \* the names the API server can generate for Pods
    NoAgent,    \* "there is no such Agent"
    NoPod,      \* "there is no such Pod" (and the empty status.podName)
    NoService   \* "there is no such Service"

AgentPhases == {"", "Pending", "Running", "Failed", "Stopped", "Updating", "Restoring"}

PodPhases == {"Pending", "Running", "Succeeded", "Failed"}

AgentConditionTypes == {"Ready", "Synced", "Failed"}

\* The orchestrator's finalizer, and the one the API server adds to an object
\* that is deleted with foreground cascading.
agentFinalizer == "orchestrator.dev/finalizer"
foregroundFinalizer == "foregroundDeletion"

ASSUME PortsAssumption == Ports \subseteq Nat

\* servicePort stands for the port and its protocol.
AgentSpec ==
    [payload : Payloads, servicePort : Ports,
     paused : BOOLEAN, selfHealingDisabled : BOOLEAN]

AgentStatus ==
    [phase              : AgentPhases,
     podName            : PodNames \cup {NoPod},
     observedGeneration : Nat,
     serviceName        : {"", "service"},
     conditions         : SUBSET AgentConditionTypes]

\* restoredFrom is the annotation orchestrator.dev/resurrection-uid (0: none),
\* deleting says that deletionTimestamp is set.
Agent ==
    [uid          : Nat,
     generation   : Nat,
     spec         : AgentSpec,
     status       : AgentStatus,
     finalizers   : SUBSET {agentFinalizer, foregroundFinalizer},
     deleting     : BOOLEAN,
     restoredFrom : Nat]

\* generation is the annotation orchestrator.dev/generation, owner the uid in
\* the controller reference.
Pod ==
    [name       : PodNames,
     generation : Nat,
     payload    : Payloads,
     owner      : Nat,
     phase      : PodPhases,
     deleting   : BOOLEAN]

\* The ClusterIP Service of the Agent; it has one port, and is named after it.
Service == [port : Nat, owner : Nat]

PodMap == [PodNames -> Pod \cup {NoPod}]

ASSUME NullsAreNoObjects ==
    /\ NoAgent \notin Agent
    /\ NoPod \notin Pod
    /\ NoPod \notin PodNames
    /\ NoService \notin Service

-----------------------------------------------------------------------------
EmptyStatus ==
    [phase |-> "", podName |-> NoPod, observedGeneration |-> 0, serviceName |-> "",
     conditions |-> {}]

\* What the API server stores when an Agent is created.
NewAgent(uid, spec, from) ==
    [uid |-> uid, generation |-> 1, spec |-> spec, status |-> EmptyStatus,
     finalizers |-> {}, deleting |-> FALSE, restoredFrom |-> from]

\* A new spec is a new generation; writing the stored spec again is no write.
WithSpec(a, spec) ==
    [a EXCEPT !.spec = spec,
              !.generation = IF spec = a.spec THEN @ ELSE @ + 1]

\* A field of a JSON merge patch made by client.MergeFrom(base): the patch holds
\* the field only if the client changed it with respect to the copy it read.
Merged(base, modified, current) ==
    IF modified # base THEN modified ELSE current

MergedStatus(base, modified, current) ==
    [phase   |-> Merged(base.phase, modified.phase, current.phase),
     podName |-> Merged(base.podName, modified.podName, current.podName),
     observedGeneration |-> Merged(base.observedGeneration,
                                   modified.observedGeneration,
                                   current.observedGeneration),
     serviceName |-> Merged(base.serviceName, modified.serviceName,
                            current.serviceName),
     conditions |-> Merged(base.conditions, modified.conditions, current.conditions)]

\* A Pod that exists and is not terminating.
Live(p) == p # NoPod /\ ~p.deleting

=============================================================================
