--------------------------- MODULE AgentController ---------------------------
(***************************************************************************)
(* The reconcile loop of internal/controller/agent_controller.go for one   *)
(* Agent name: Reconcile, reconcileService, handleDeletion and the         *)
(* goroutines of resurrectAgentAsync, with the API server, the informer    *)
(* caches they read, and the clients, the kubelet and the garbage          *)
(* collector they race with.                                               *)
(*                                                                         *)
(* Reads are of the informer caches, which lag the API server by at most   *)
(* MaxLag versions.  Each call that writes is a step of its own, so every  *)
(* other actor can act between two calls of one Reconcile.  A call may be  *)
(* rejected, or be applied and its answer lost; the process may restart.   *)
(*                                                                         *)
(* Delays (RequeueAfter, the back-off of a failed Reconcile, the sleeps of *)
(* the goroutines) are not modelled: what is due later may happen at any   *)
(* time.  Events sent to the EventRecorder are left out; what reached the  *)
(* history store is kept as the set of reasons recorded per object (what   *)
(* the store then keeps of it is EventLog).                                *)
(***************************************************************************)
EXTENDS KubeApi

CONSTANTS
    Specs,          \* the specs clients write
    Cascades,       \* how clients delete: a subset of {"background", "foreground"}
    KubeletPhases,  \* the phases the kubelet reports: {"Running", "Succeeded", "Failed"}
    Recorded,       \* the reasons whose entries the history variable keeps
    HealerIds,      \* the resurrection goroutines that may run at one time
    MaxAttempts,    \* the attempts of a resurrection goroutine (15 in the code)
    MaxLag,         \* bound: versions on their way to an informer cache
    MaxOps,         \* bound: operations of clients
    MaxFaults,      \* bound: calls the API server rejects
    MaxTimeouts,    \* bound: calls that are applied and never answered
    MaxCrashes      \* bound: restarts of the orchestrator

ASSUME SpecsAssumption == Specs \subseteq AgentSpec
ASSUME CascadesAssumption == Cascades \subseteq {"background", "foreground"}
ASSUME KubeletAssumption == KubeletPhases \subseteq PodPhases \ {"Pending"}
ASSUME BoundsAssumption ==
    /\ MaxAttempts \in Nat \ {0}
    /\ MaxLag \in Nat \ {0}
    /\ {MaxOps, MaxFaults, MaxTimeouts, MaxCrashes} \subseteq Nat

VARIABLES
    agent,          \* the stored Agent, or NoAgent
    agentEvents,    \* its versions on their way to the informer
    agentCache,     \* the version in the informer's cache
    pods,           \* the stored Pods
    podEvents,      \* versions of the Pods on their way to the informer
    podCache,       \* the Pods in the informer's cache
    service,        \* the stored Service of the Agent, or NoService
    serviceEvents,  \* its versions on their way to the informer
    serviceCache,   \* the version in the informer's cache
    queued,         \* the Agent is in the controller's work queue
    rec,            \* the Reconcile in progress: its next call and what it read
    fresh,          \* rec.agent, due for an Update, is the stored version
    healers,        \* the running resurrection goroutines
    history,        \* what reached the history store: <<reason, uid>>
    lastUID,        \* the last uid given to an Agent
    buried,         \* the Agents that are gone, with their last spec
    healed,         \* the uids some goroutine has recreated an Agent for
    budget          \* how much of each bound is used

caches == <<agentCache, podCache, serviceCache>>
healVars == <<healers, history, lastUID, healed>>
vars == <<agent, agentEvents, agentCache, pods, podEvents, podCache,
          service, serviceEvents, serviceCache, queued, rec, fresh,
          healers, history, lastUID, buried, healed, budget>>

\* The calls a Reconcile stops at; those of Updates end in an Update of the Agent.
Updates == {"addFinalizer", "deletionPod", "removeFinalizer"}

Calls == Updates \cup
    {"pausePod", "pauseStatus", "createPod", "createFailed", "driftStatus", "driftPod",
     "syncStatus", "service", "serviceStatus"}

Reasons == {"Paused", "PodCreated", "PodCreateFailed", "PodRecreated", "Resurrected"}

\* No Reconcile is running.
Idle == [call |-> "none", agent |-> NoAgent, pod |-> NoPod]

Reconciling == [call : Calls, agent : Agent, pod : Pod \cup {NoPod}]

\* A goroutine of resurrectAgentAsync, before its Create, its Get or its entry in
\* the history.
Healer ==
    [gid : HealerIds, uid : Nat, spec : AgentSpec,
     attempt : 1..MaxAttempts, at : {"create", "get", "record"}]

Budget == [ops : Nat, faults : Nat, timeouts : Nat, crashes : Nat]

TypeOK ==
    /\ agent \in Agent \cup {NoAgent}
    /\ agentEvents \in Seq(Agent \cup {NoAgent})
    /\ agentCache \in Agent \cup {NoAgent}
    /\ pods \in PodMap
    /\ podEvents \in Seq(PodMap)
    /\ podCache \in PodMap
    /\ service \in Service \cup {NoService}
    /\ serviceEvents \in Seq(Service \cup {NoService})
    /\ serviceCache \in Service \cup {NoService}
    /\ queued \in BOOLEAN
    /\ rec \in Reconciling \cup {Idle}
    /\ fresh \in BOOLEAN
    /\ healers \in SUBSET Healer
    /\ history \in SUBSET (Reasons \X Nat)
    /\ lastUID \in Nat
    /\ buried \in SUBSET [uid : Nat, spec : AgentSpec]
    /\ healed \in SUBSET Nat
    /\ budget \in Budget

NoPods == [n \in PodNames |-> NoPod]

Init ==
    /\ agent = NoAgent /\ agentEvents = <<>> /\ agentCache = NoAgent
    /\ pods = NoPods /\ podEvents = <<>> /\ podCache = NoPods
    /\ service = NoService /\ serviceEvents = <<>> /\ serviceCache = NoService
    /\ queued = FALSE
    /\ rec = Idle /\ fresh = FALSE
    /\ healers = {} /\ history = {}
    /\ lastUID = 0 /\ buried = {} /\ healed = {}
    /\ budget = [ops |-> 0, faults |-> 0, timeouts |-> 0, crashes |-> 0]

-----------------------------------------------------------------------------
(* The API server and the informers.                                       *)

\* Store a version of the Agent and send it to the watchers.
Publish(version) ==
    /\ Len(agentEvents) < MaxLag
    /\ agent' = version
    /\ agentEvents' = Append(agentEvents, version)

KeepAgent == UNCHANGED <<agent, agentEvents, buried>>

\* Write an existing Agent.  It disappears when it is marked for deletion and no
\* finalizer is left; a write that changes nothing is not a new version.
Put(a) ==
    \/ a = agent /\ KeepAgent
    \/ /\ a # agent /\ ~(a.deleting /\ a.finalizers = {})
       /\ Publish(a)
       /\ UNCHANGED buried
    \/ /\ a.deleting /\ a.finalizers = {}
       /\ Publish(NoAgent)
       /\ buried' = buried \cup {[uid |-> a.uid, spec |-> a.spec]}

\* Create the Agent when there is none of its name.
Create(spec, from) ==
    /\ agent = NoAgent
    /\ lastUID' = lastUID + 1
    /\ Publish(NewAgent(lastUID + 1, spec, from))
    /\ UNCHANGED buried

\* The copy a Reconcile holds is out of date once another version is stored.
Age == fresh' = (fresh /\ agent' = agent)

KeepPods == UNCHANGED <<pods, podEvents>>

\* Store new Pods and send them to the watchers.
PutPods(new) ==
    \/ new = pods /\ KeepPods
    \/ /\ new # pods
       /\ Len(podEvents) < MaxLag
       /\ pods' = new
       /\ podEvents' = Append(podEvents, new)

\* Deletion of a Pod is graceful: it is marked, and goes later.  Deleting a Pod
\* that is gone (IsNotFound) or already marked changes nothing.
MarkPod(n) ==
    PutPods(IF pods[n] = NoPod THEN pods ELSE [pods EXCEPT ![n].deleting = TRUE])

KeepService == UNCHANGED <<service, serviceEvents>>

PutService(new) ==
    \/ new = service /\ KeepService
    \/ /\ new # service
       /\ Len(serviceEvents) < MaxLag
       /\ service' = new
       /\ serviceEvents' = Append(serviceEvents, new)

\* The outcomes of a call: success, rejection by the API server, or the call is
\* applied and the answer is lost.
Answered == UNCHANGED budget
Rejected == /\ budget.faults < MaxFaults
            /\ budget' = [budget EXCEPT !.faults = @ + 1]
Unanswered == /\ budget.timeouts < MaxTimeouts
              /\ budget' = [budget EXCEPT !.timeouts = @ + 1]

\* The next version reaches the informer cache, and its handler enqueues the
\* Agent: SetupWithManager watches Agents, and the Pods and Services they own.
DeliverAgent ==
    /\ agentEvents # <<>>
    /\ agentCache' = Head(agentEvents)
    /\ agentEvents' = Tail(agentEvents)
    /\ queued' = TRUE
    /\ KeepPods /\ KeepService
    /\ UNCHANGED <<agent, podCache, serviceCache, rec, fresh, healVars, buried, budget>>

\* Bug: the controller does not watch Pods.
DeliverPodsUnwatched ==
    /\ podEvents # <<>>
    /\ podCache' = Head(podEvents)
    /\ podEvents' = Tail(podEvents)
    /\ KeepAgent /\ KeepService
    /\ UNCHANGED <<pods, agentCache, serviceCache, queued, rec, fresh, healVars, budget>>

DeliverPods ==
    /\ podEvents # <<>>
    /\ podCache' = Head(podEvents)
    /\ podEvents' = Tail(podEvents)
    /\ queued' = TRUE
    /\ KeepAgent /\ KeepService
    /\ UNCHANGED <<pods, agentCache, serviceCache, rec, fresh, healVars, budget>>

DeliverService ==
    /\ serviceEvents # <<>>
    /\ serviceCache' = Head(serviceEvents)
    /\ serviceEvents' = Tail(serviceEvents)
    /\ queued' = TRUE
    /\ KeepAgent /\ KeepPods
    /\ UNCHANGED <<service, agentCache, podCache, rec, fresh, healVars, budget>>

-----------------------------------------------------------------------------
(* Reconcile.                                                              *)

\* findAgentPod: some cached Pod that is not terminating, in no given order.
findAgentPod ==
    LET found == {podCache[n] : n \in {m \in PodNames : Live(podCache[m])}}
    IN  IF found = {} THEN {NoPod} ELSE found

\* Bug: drift is judged by the status, which may lag behind or run ahead of the Pod.
specChangedSinceStatus(a, pod) == pod.generation # a.status.observedGeneration
specChangedUnobserved(a, pod) == a.generation # a.status.observedGeneration

specChanged(a, pod) == pod.generation # a.generation

\* The first call Reconcile makes, from the Agent and the Pod it has read.
FirstCall(a, pod) ==
    CASE a.deleting /\ pod # NoPod -> "deletionPod"
      [] a.deleting /\ pod = NoPod -> "removeFinalizer"
      [] ~a.deleting /\ agentFinalizer \notin a.finalizers -> "addFinalizer"
      [] ~a.deleting /\ agentFinalizer \in a.finalizers ->
            CASE a.spec.paused /\ pod # NoPod -> "pausePod"
              [] a.spec.paused /\ pod = NoPod -> "pauseStatus"
              [] ~a.spec.paused /\ pod = NoPod -> "createPod"
              [] ~a.spec.paused /\ pod # NoPod ->
                    IF specChanged(a, pod) THEN "driftStatus" ELSE "syncStatus"

\* The worker takes the Agent from the queue and reads both caches.  The two
\* reads follow each other at once; the caches advance independently.
Reconcile ==
    /\ queued /\ rec = Idle
    /\ queued' = FALSE
    /\ \/ /\ agentCache = NoAgent
          /\ UNCHANGED <<rec, fresh>>
       \/ /\ agentCache # NoAgent
          /\ \E pod \in findAgentPod :
                LET first == FirstCall(agentCache, pod)
                IN  /\ rec' = [call |-> first, agent |-> agentCache, pod |-> pod]
                    /\ fresh' = (first \in Updates /\ agentEvents = <<>>)
    /\ KeepAgent /\ KeepPods /\ KeepService
    /\ UNCHANGED <<caches, healVars, budget>>

\* Reconcile returns; with requeue it asks to be called again (Requeue,
\* RequeueAfter, or an error).  An event may have queued the Agent meanwhile.
Return(requeue) ==
    /\ rec' = Idle
    /\ fresh' = FALSE
    /\ queued' = (queued \/ requeue)

Continue(call) ==
    /\ rec' = [rec EXCEPT !.call = call]
    /\ Age
    /\ UNCHANGED queued

Entry(reason, uid) == {<<r, uid>> : r \in {reason} \cap Recorded}

\* appendHistory is best-effort: the store swallows its errors, and the entry is lost.
appendHistory(reason, uid) ==
    \/ history' = history \cup Entry(reason, uid)
    \/ UNCHANGED history

\* An entry for the object of this Reconcile.
Record(reason) == appendHistory(reason, rec.agent.uid)

\* Bug: updateStatus does not set observedGeneration.
WithStatusUnobserved(base, phase, podName) ==
    [agent EXCEPT !.status =
        MergedStatus(base, [base EXCEPT !.phase = phase, !.podName = podName], @)]

\* The Agent after updateStatus, a merge patch of the status subresource without
\* a check of the resourceVersion.
WithStatus(base, phase, podName) ==
    LET modified == [base EXCEPT !.phase = phase, !.podName = podName,
                                 !.observedGeneration = rec.agent.generation]
    IN  [agent EXCEPT !.status = MergedStatus(base, modified, @)]

\* The patch also sets lastUpdated, which has a resolution of a second: when it
\* changes nothing else, there is a new version or there is none.
updateStatus(base, phase, podName) ==
    \/ Put(WithStatus(base, phase, podName))
    \/ /\ WithStatus(base, phase, podName) = agent
       /\ Publish(agent)
       /\ UNCHANGED buried

\* A status patch whose error is dropped; the Agent may be gone (IsNotFound).
TryStatus(base, phase, podName) ==
    \/ agent # NoAgent /\ updateStatus(base, phase, podName) /\ Answered
    \/ agent = NoAgent /\ KeepAgent /\ Answered
    \/ KeepAgent /\ Rejected

\* Bug: the finalizers are written with a patch that does not check the version.
PatchAccepted == agent # NoAgent

\* An Update is accepted only for the stored resourceVersion (else IsConflict, or
\* IsNotFound).
UpdateAccepted == fresh

\* Update with the finalizer; a conflict and any other error requeue.
AddFinalizer ==
    /\ rec.call = "addFinalizer"
    /\ \/ /\ UpdateAccepted
          /\ Put([agent EXCEPT !.finalizers = @ \cup {agentFinalizer}]) /\ Answered
       \/ ~UpdateAccepted /\ KeepAgent /\ Answered
       \/ KeepAgent /\ Rejected
    /\ Return(TRUE)
    /\ KeepPods /\ KeepService
    /\ UNCHANGED <<caches, healVars>>

\* A paused Agent: delete its Pod, then report Stopped and do not come back.
PausePod ==
    /\ rec.call = "pausePod"
    /\ KeepAgent
    /\ \/ /\ MarkPod(rec.pod.name) /\ Answered
          /\ Record("Paused")
          /\ Continue("pauseStatus")
       \/ /\ \/ MarkPod(rec.pod.name) /\ Unanswered
             \/ KeepPods /\ Rejected
          /\ Return(TRUE)
          /\ UNCHANGED history
    /\ KeepService
    /\ UNCHANGED <<caches, healers, lastUID, healed>>

PauseStatus ==
    /\ rec.call = "pauseStatus"
    /\ TryStatus(rec.agent.status, "Stopped", NoPod)
    /\ Return(FALSE)
    /\ KeepPods /\ KeepService
    /\ UNCHANGED <<caches, healVars>>

\* Names no Pod has and nothing still refers to.
FreshNames ==
    {n \in PodNames : /\ pods[n] = NoPod /\ podCache[n] = NoPod
                      /\ \A i \in 1..Len(podEvents) : podEvents[i][n] = NoPod}

\* Bug: the generation is read again when the Pod is built, the spec is not.
buildPodRereading(name, a) ==
    [name |-> name, generation |-> IF agent = NoAgent THEN a.generation ELSE agent.generation,
     payload |-> a.spec.payload, owner |-> a.uid, phase |-> "Pending", deleting |-> FALSE]

\* buildPod and the controller reference.
buildPod(name, a) ==
    [name |-> name, generation |-> a.generation, payload |-> a.spec.payload,
     owner |-> a.uid, phase |-> "Pending", deleting |-> FALSE]

\* createPod; it also fails when no further Pod is admitted (a quota).
CreatePod ==
    /\ rec.call = "createPod"
    /\ KeepAgent
    /\ \/ \E n \in FreshNames :
            /\ PutPods([pods EXCEPT ![n] = buildPod(n, rec.agent)])
            /\ \/ Answered /\ Record("PodCreated") /\ Return(TRUE)
               \/ Unanswered /\ Continue("createFailed") /\ UNCHANGED history
       \/ /\ \/ FreshNames = {} /\ Answered
             \/ Rejected
          /\ KeepPods
          /\ Continue("createFailed")
          /\ UNCHANGED history
    /\ KeepService
    /\ UNCHANGED <<caches, healers, lastUID, healed>>

\* setCondition changes the Agent before updateStatus takes the base of its patch.
setCondition(status, type) == [status EXCEPT !.conditions = @ \cup {type}]

CreateFailed ==
    /\ rec.call = "createFailed"
    /\ TryStatus(setCondition(rec.agent.status, "Failed"), "Failed", NoPod)
    /\ Record("PodCreateFailed")
    /\ Return(TRUE)
    /\ KeepPods /\ KeepService
    /\ UNCHANGED <<caches, healers, lastUID, healed>>

\* Spec drift: report Updating, then delete the Pod.
DriftStatus ==
    /\ rec.call = "driftStatus"
    /\ TryStatus(rec.agent.status, "Updating", rec.pod.name)
    /\ Record("PodRecreated")
    /\ Continue("driftPod")
    /\ KeepPods /\ KeepService
    /\ UNCHANGED <<caches, healers, lastUID, healed>>

DriftPod ==
    /\ rec.call = "driftPod"
    /\ \/ MarkPod(rec.pod.name) /\ Answered
       \/ KeepPods /\ Rejected
    /\ Return(TRUE)
    /\ KeepAgent /\ KeepService
    /\ UNCHANGED <<caches, healVars>>

podPhaseToAgentPhase(phase) == IF phase = "Succeeded" THEN "Stopped" ELSE phase

\* The Pod is up to date: copy its phase.  The answer of the patch replaces the
\* copy of the Agent, so that reconcileService sees the stored spec.
SyncStatus ==
    /\ rec.call = "syncStatus"
    /\ LET base == rec.agent.status
           phase == podPhaseToAgentPhase(rec.pod.phase)
       IN  \/ /\ agent # NoAgent
              /\ updateStatus(base, phase, rec.pod.name) /\ Answered
              /\ rec' = [rec EXCEPT !.call = "service",
                                    !.agent = WithStatus(base, phase, rec.pod.name)]
              /\ UNCHANGED <<queued, fresh>>
           \/ /\ agent # NoAgent
              /\ updateStatus(base, phase, rec.pod.name) /\ Unanswered
              /\ Return(TRUE)
           \/ /\ \/ agent = NoAgent /\ Answered
                 \/ Rejected
              /\ KeepAgent
              /\ Return(TRUE)
    /\ KeepPods /\ KeepService
    /\ UNCHANGED <<caches, healVars>>

-----------------------------------------------------------------------------
(* reconcileService, the last part of a Reconcile.  Its errors are logged, *)
(* and the Reconcile asks to be called again in 30 s either way.           *)

wantedPort == rec.agent.spec.servicePort

\* Bug: a Service that exists is taken to have the right port.
ServiceMissing ==
    IF serviceCache = NoService THEN wantedPort # 0 ELSE wantedPort = 0

\* From the cached Service: is there something to delete, create or patch?
ServiceDrifted ==
    IF serviceCache = NoService THEN wantedPort # 0 ELSE serviceCache.port # wantedPort

\* A Create needs that there is no Service, a Patch that there is one; a Delete
\* of a Service that is gone is no error.
ServiceWriteAccepted ==
    wantedPort # 0 => (serviceCache = NoService <=> service = NoService)

desiredService ==
    IF wantedPort = 0 THEN NoService
    ELSE IF service = NoService THEN [port |-> wantedPort, owner |-> rec.agent.uid]
         ELSE [service EXCEPT !.port = wantedPort]

reconcileService ==
    /\ rec.call = "service"
    /\ KeepAgent
    /\ \/ /\ ~ServiceDrifted
          /\ KeepService /\ Answered
          /\ IF wantedPort = 0 THEN Return(TRUE) ELSE Continue("serviceStatus")
       \/ /\ ServiceDrifted /\ ServiceWriteAccepted
          /\ PutService(desiredService)
          /\ \/ Answered /\ Continue("serviceStatus")
             \/ Unanswered /\ Return(TRUE)
       \/ /\ ServiceDrifted
          /\ \/ ~ServiceWriteAccepted /\ Answered
             \/ Rejected
          /\ KeepService
          /\ Return(TRUE)
    /\ KeepPods
    /\ UNCHANGED <<caches, healVars>>

\* The patch of status.serviceName; its error is dropped.
ServiceStatus ==
    /\ rec.call = "serviceStatus"
    /\ \/ /\ agent # NoAgent
          /\ Put([agent EXCEPT !.status.serviceName =
                    Merged(rec.agent.status.serviceName,
                           IF wantedPort = 0 THEN "" ELSE "service", @)])
          /\ Answered
       \/ /\ \/ agent = NoAgent /\ Answered
             \/ Rejected
          /\ KeepAgent
    /\ Return(TRUE)
    /\ KeepPods /\ KeepService
    /\ UNCHANGED <<caches, healVars>>

-----------------------------------------------------------------------------
(* handleDeletion and resurrectAgentAsync.                                 *)

DeletionPod ==
    /\ rec.call = "deletionPod"
    /\ KeepAgent
    /\ \/ MarkPod(rec.pod.name) /\ Answered /\ Continue("removeFinalizer")
       \/ MarkPod(rec.pod.name) /\ Unanswered /\ Return(TRUE)
       \/ KeepPods /\ Rejected /\ Return(TRUE)
    /\ KeepService
    /\ UNCHANGED <<caches, healVars>>

\* The goroutine is given the spec that was read, before the Update.
Spawn ==
    IF rec.agent.spec.selfHealingDisabled
    THEN UNCHANGED healers
    ELSE \E g \in HealerIds \ {h.gid : h \in healers} :
            healers' = healers \cup {[gid |-> g, uid |-> rec.agent.uid,
                                      spec |-> rec.agent.spec,
                                      attempt |-> 1, at |-> "create"]}

\* Update without the finalizer.  The goroutine starts only after a successful
\* answer; IsNotFound ends the Reconcile, a conflict or another error repeats it.
RemoveFinalizer ==
    /\ rec.call = "removeFinalizer"
    /\ \/ /\ UpdateAccepted
          /\ Put([agent EXCEPT !.finalizers = @ \ {agentFinalizer}])
          /\ \/ Answered /\ Spawn /\ Return(FALSE)
             \/ Unanswered /\ UNCHANGED healers /\ Return(TRUE)
       \/ /\ ~UpdateAccepted
          /\ KeepAgent /\ Answered
          /\ Return(agent # NoAgent)
          /\ UNCHANGED healers
       \/ /\ KeepAgent /\ Rejected
          /\ Return(TRUE)
          /\ UNCHANGED healers
    /\ KeepPods /\ KeepService
    /\ UNCHANGED <<caches, history, lastUID, healed>>

\* Bugs: one attempt too many, one too few.
RetryOnceMore(h) ==
    healers' = (healers \ {h}) \cup
                  IF h.attempt <= MaxAttempts
                  THEN {[h EXCEPT !.attempt = @ + 1, !.at = "create"]}
                  ELSE {}
RetryOnceLess(h) ==
    healers' = (healers \ {h}) \cup
                  IF h.attempt + 1 < MaxAttempts
                  THEN {[h EXCEPT !.attempt = @ + 1, !.at = "create"]}
                  ELSE {}

\* The attempt failed: the next one, or give up after the last.
Retry(h) ==
    healers' = (healers \ {h}) \cup
                  IF h.attempt < MaxAttempts
                  THEN {[h EXCEPT !.attempt = @ + 1, !.at = "create"]}
                  ELSE {}

\* The goroutine goes on to its next call.
Proceed(h, at) == healers' = (healers \ {h}) \cup {[h EXCEPT !.at = at]}

\* Bug: an Agent that already exists counts as success.
HealCreateOrFind(h) ==
    /\ h.at = "create"
    /\ \/ /\ Create(h.spec, h.uid)
          /\ healed' = healed \cup {h.uid}
          /\ Answered
       \/ /\ agent # NoAgent
          /\ KeepAgent /\ Answered
          /\ UNCHANGED <<lastUID, healed>>
    /\ Proceed(h, "record")
    /\ Age
    /\ KeepPods /\ KeepService
    /\ UNCHANGED <<caches, queued, rec, history>>

\* Create the Agent again.  A lost answer is an error like any other: retry.
HealCreate(h) ==
    /\ h.at = "create"
    /\ \/ /\ Create(h.spec, h.uid)
          /\ healed' = healed \cup {h.uid}
          /\ \/ Answered /\ Proceed(h, "record")
             \/ Unanswered /\ Retry(h)
       \/ /\ agent # NoAgent    \* IsAlreadyExists
          /\ Proceed(h, "get")
          /\ KeepAgent /\ Answered
          /\ UNCHANGED <<lastUID, healed>>
       \/ /\ Rejected
          /\ Retry(h)
          /\ KeepAgent
          /\ UNCHANGED <<lastUID, healed>>
    /\ Age
    /\ KeepPods /\ KeepService
    /\ UNCHANGED <<caches, queued, rec, history>>

\* After a successful Create: record it, and return.
HealRecord(h) ==
    /\ h.at = "record"
    /\ appendHistory("Resurrected", h.uid)
    /\ healers' = healers \ {h}
    /\ KeepAgent /\ KeepPods /\ KeepService
    /\ UNCHANGED <<caches, queued, rec, fresh, lastUID, healed, budget>>

\* Is it the old Agent that is in the way (retry) or another one (done)?
HealGet(h) ==
    /\ h.at = "get"
    /\ \/ /\ agentCache # NoAgent => agentCache.uid = h.uid
          /\ Retry(h)
       \/ /\ agentCache # NoAgent /\ agentCache.uid # h.uid
          /\ healers' = healers \ {h}
    /\ KeepAgent /\ KeepPods /\ KeepService
    /\ UNCHANGED <<caches, queued, rec, fresh, history, lastUID, healed, budget>>

-----------------------------------------------------------------------------
(* The process, the cluster and the clients.                               *)

\* The orchestrator restarts: the Reconcile and the goroutines are lost, the
\* caches are filled from a list, and every listed Agent is enqueued.
Restart ==
    /\ budget.crashes < MaxCrashes
    /\ budget' = [budget EXCEPT !.crashes = @ + 1]
    /\ agentCache' = agent /\ agentEvents' = <<>>
    /\ podCache' = pods /\ podEvents' = <<>>
    /\ serviceCache' = service /\ serviceEvents' = <<>>
    /\ queued' = TRUE
    /\ rec' = Idle /\ fresh' = FALSE
    /\ healers' = {}
    /\ UNCHANGED <<agent, pods, service, history, lastUID, buried, healed>>

\* What only the controller and its goroutines change.
ControllerUnchanged == UNCHANGED <<caches, queued, rec, healers, history, healed>>

UseOp == /\ budget.ops < MaxOps
         /\ budget' = [budget EXCEPT !.ops = @ + 1]

\* Create an Agent with the spec s.
CreateAgent(s) ==
    /\ UseOp
    /\ Create(s, 0)
    /\ Age /\ KeepPods /\ KeepService
    /\ ControllerUnchanged

ClientCreate == \E s \in Specs : CreateAgent(s)

\* Write the spec s.
WriteSpec(s) ==
    /\ agent # NoAgent
    /\ UseOp
    /\ s # agent.spec
    /\ Put(WithSpec(agent, s))
    /\ Age /\ KeepPods /\ KeepService
    /\ UNCHANGED lastUID
    /\ ControllerUnchanged

\* Any write of the spec: kubectl, a REST handler or the idle watcher.
ClientPatch == \E s \in Specs : WriteSpec(s)

\* A write of the metadata alone, as of an annotation: a version of the same
\* generation, which an Update that is due conflicts with.
ClientAnnotate ==
    /\ agent # NoAgent
    /\ UseOp
    /\ Publish(agent)
    /\ fresh' = FALSE
    /\ UNCHANGED <<buried, lastUID>>
    /\ KeepPods /\ KeepService
    /\ ControllerUnchanged

\* Delete the Agent; deletionTimestamp counts as a new generation.
DeleteAgent(cascade) ==
    /\ agent # NoAgent
    /\ ~agent.deleting
    /\ UseOp
    /\ Put([agent EXCEPT !.deleting = TRUE,
                         !.generation = @ + 1,
                         !.finalizers = @ \cup (IF cascade = "foreground"
                                                THEN {foregroundFinalizer} ELSE {})])
    /\ Age /\ KeepPods /\ KeepService
    /\ UNCHANGED lastUID
    /\ ControllerUnchanged

ClientDelete == \E c \in Cascades : DeleteAgent(c)

ClientDeletePod(n) ==
    /\ Live(pods[n])
    /\ UseOp
    /\ MarkPod(n)
    /\ KeepAgent /\ KeepService /\ Age
    /\ UNCHANGED lastUID
    /\ ControllerUnchanged

ClientDeleteService ==
    /\ service # NoService
    /\ UseOp
    /\ PutService(NoService)
    /\ KeepAgent /\ KeepPods /\ Age
    /\ UNCHANGED lastUID
    /\ ControllerUnchanged

\* The kubelet starts the containers, sees them end, and removes a deleted Pod.
KubeletPhase(n) ==
    /\ Live(pods[n])
    /\ \E phase \in KubeletPhases :
          /\ pods[n].phase = IF phase = "Running" THEN "Pending" ELSE "Running"
          /\ PutPods([pods EXCEPT ![n].phase = phase])
    /\ KeepAgent /\ KeepService /\ Age
    /\ UNCHANGED <<lastUID, budget>>
    /\ ControllerUnchanged

KubeletRemove(n) ==
    /\ pods[n] # NoPod
    /\ pods[n].deleting
    /\ PutPods([pods EXCEPT ![n] = NoPod])
    /\ KeepAgent /\ KeepService /\ Age
    /\ UNCHANGED <<lastUID, budget>>
    /\ ControllerUnchanged

\* The garbage collector deletes what an Agent owns once it is gone, or is being
\* deleted in the foreground; in that case it lets the Agent go at the end.
ForegroundDeletion ==
    agent # NoAgent /\ agent.deleting /\ foregroundFinalizer \in agent.finalizers

Collectable(owner) ==
    agent # NoAgent => agent.uid # owner \/ ForegroundDeletion

CollectPod(n) ==
    /\ Live(pods[n])
    /\ Collectable(pods[n].owner)
    /\ MarkPod(n)
    /\ KeepAgent /\ KeepService /\ Age
    /\ UNCHANGED <<lastUID, budget>>
    /\ ControllerUnchanged

CollectService ==
    /\ service # NoService
    /\ Collectable(service.owner)
    /\ PutService(NoService)
    /\ KeepAgent /\ KeepPods /\ Age
    /\ UNCHANGED <<lastUID, budget>>
    /\ ControllerUnchanged

CollectAgent ==
    /\ ForegroundDeletion
    /\ \A n \in PodNames : pods[n] # NoPod => pods[n].owner # agent.uid
    /\ service # NoService => service.owner # agent.uid
    /\ Put([agent EXCEPT !.finalizers = @ \ {foregroundFinalizer}])
    /\ Age /\ KeepPods /\ KeepService
    /\ UNCHANGED <<lastUID, budget>>
    /\ ControllerUnchanged

-----------------------------------------------------------------------------
ControllerStep ==
    \/ Reconcile \/ AddFinalizer \/ PausePod \/ PauseStatus \/ CreatePod
    \/ CreateFailed \/ DriftStatus \/ DriftPod \/ SyncStatus
    \/ reconcileService \/ ServiceStatus
    \/ DeletionPod \/ RemoveFinalizer

HealerStep == \E h \in healers : HealCreate(h) \/ HealGet(h) \/ HealRecord(h)

ClientStep ==
    \/ ClientCreate \/ ClientPatch \/ ClientAnnotate \/ ClientDelete \/ ClientDeleteService
    \/ \E n \in PodNames : ClientDeletePod(n)

ClusterStep ==
    \/ DeliverAgent \/ DeliverPods \/ DeliverService
    \/ CollectAgent \/ CollectService
    \/ \E n \in PodNames : KubeletPhase(n) \/ KubeletRemove(n) \/ CollectPod(n)

Next == ControllerStep \/ HealerStep \/ ClientStep \/ ClusterStep \/ Restart

Spec == Init /\ [][Next]_vars

\* Watch streams, the worker, the goroutines, the kubelet and the garbage
\* collector keep running; clients, faults and restarts need never happen.
Fairness ==
    /\ WF_vars(DeliverAgent) /\ WF_vars(DeliverPods) /\ WF_vars(DeliverService)
    /\ WF_vars(ControllerStep)
    /\ WF_vars(HealerStep)
    /\ \A n \in PodNames : WF_vars(KubeletRemove(n)) /\ WF_vars(CollectPod(n))
    /\ WF_vars(CollectAgent) /\ WF_vars(CollectService)

FairSpec == Spec /\ Fairness

-----------------------------------------------------------------------------
(* Safety.                                                                 *)

\* The annotation orchestrator.dev/generation identifies the spec a Pod was built
\* from: a Pod of this Agent that carries its current generation runs its current
\* payload, and the Agent is not paused.  specChanged relies on it, although the
\* generation and the spec are read from a cache long before the Pod is created.
PodRunsItsGeneration ==
    agent # NoAgent =>
        \A n \in PodNames :
            (pods[n] # NoPod /\ pods[n].owner = agent.uid
                             /\ pods[n].generation = agent.generation)
                => pods[n].payload = agent.spec.payload /\ ~agent.spec.paused

\* A Pod is deleted for spec drift only if it is out of date: it is never one that
\* was built from the stored generation of the stored Agent, however stale the
\* caches were when Reconcile compared the two.
DriftDeletesOnlyOutdated ==
    [][\A n \in PodNames :
          (rec.call = "driftPod" /\ rec # rec' /\ pods'[n] # pods[n] /\ agent # NoAgent)
              => ~(pods[n].owner = agent.uid /\ pods[n].generation = agent.generation)]_vars

\* Nothing will call Reconcile: none is running or queued, and no version is on its
\* way that would queue one.
AtRest ==
    /\ ~queued /\ rec = Idle
    /\ agentEvents = <<>> /\ podEvents = <<>> /\ serviceEvents = <<>>

\* No work is forgotten: Reconcile asks to be called again unless the Agent is paused
\* or on its way out, and then it leaves everything else to events, those of Pods it
\* did not find in its cache included.  When nothing will call it any more, an Agent
\* that is up is paused, with the finalizer on and no Pod left, and one that is being
\* deleted does not wait for the controller, whatever failed before.
NothingForgotten ==
    AtRest /\ agent # NoAgent =>
        IF agent.deleting THEN agentFinalizer \notin agent.finalizers
        ELSE /\ agent.spec.paused /\ agentFinalizer \in agent.finalizers
             /\ \A n \in PodNames : ~Live(pods[n])

\* An Agent that appears with the annotation of a resurrection.
Resurrection == agent = NoAgent /\ agent' # NoAgent /\ agent'.restoredFrom # 0

\* Self-healing recreates what was deleted: a resurrected Agent has the last spec of
\* the Agent it stands for, which is gone and had self-healing enabled to the end,
\* although the goroutine took the spec from a cached copy before it was gone.
ResurrectsWhatWasDeleted ==
    [][Resurrection =>
          \E b \in buried : /\ b.uid = agent'.restoredFrom
                            /\ b.spec = agent'.spec
                            /\ ~b.spec.selfHealingDisabled]_vars

\* handleDeletion may run several times for one deletion (conflicts, events, stale
\* caches), yet no deleted Agent is resurrected twice.
ResurrectedOnce ==
    [][Resurrection => agent'.restoredFrom \notin healed]_vars

\* The history tells no tales: it says Resurrected only of an Agent that is gone, had
\* self-healing enabled to the end and has been recreated.  The converse does not hold,
\* as an append may fail, the process may stop before it, and a goroutine that misses
\* the answer of its own Create takes the Agent for another one and appends nothing.
HistoryIsTrue ==
    \A e \in history : e[1] = "Resurrected" =>
        /\ e[2] \in healed
        /\ \E b \in buried : b.uid = e[2] /\ ~b.spec.selfHealingDisabled

-----------------------------------------------------------------------------
(* Liveness.                                                               *)

Up == agent # NoAgent /\ ~agent.deleting

\* A Pod the Agent wants: built from its current generation.
Wanted(p) == Live(p) /\ p.owner = agent.uid /\ p.generation = agent.generation

\* If the Agent stays up and unpaused, some Pod of its current generation stays in
\* place: drift is always detected and repaired, and what was repaired is left alone.
RunningConverges ==
    <>[](Up /\ ~agent.spec.paused) => <>[](Up /\ \E n \in PodNames : Wanted(pods[n]))

\* If the Agent stays paused, all of its Pods go, those that were created from a
\* stale cache included, although Reconcile deletes one at a time and does not
\* ask to be called again.
PausedDrains ==
    <>[](Up /\ agent.spec.paused) => <>[](\A n \in PodNames : ~Live(pods[n]))

AtMostOneLivePod == \A m, n \in PodNames : Live(pods[m]) /\ Live(pods[n]) => m = n

\* A running Agent is reported with the phase of the Pod that it wants, a paused one
\* as Stopped without a Pod.
Running ==
    /\ agent.status.observedGeneration = agent.generation
    /\ \E n \in PodNames :
          /\ Wanted(pods[n])
          /\ agent.status.podName = n
          /\ agent.status.phase = podPhaseToAgentPhase(pods[n].phase)

Stopped ==
    /\ agent.status.observedGeneration = agent.generation
    /\ agent.status.phase = "Stopped" /\ agent.status.podName = NoPod

\* The status catches up with the spec.  That of a running Agent does so whatever was
\* rejected, for every Reconcile asks to be called again; while two Pods are live, each
\* Reconcile may report another one of them.  That of a paused Agent does so if no call
\* is rejected: the error of its only patch is dropped, nothing repeats it, and the
\* status may then stay wrong for as long as the Agent is left alone.
StatusConverges ==
    /\ <>[](Up /\ ~agent.spec.paused /\ AtMostOneLivePod) => <>[](Up /\ Running)
    /\ <>[](Up /\ agent.spec.paused) /\ [](budget.faults = 0) => <>[](Up /\ Stopped)

\* If the Agent stays up and unpaused, its Service ends up as the spec asks: none for
\* port 0, else one of its own with that port, reported in the status, although Get
\* reads a stale cache and an old Service may still wait for the garbage collector.
ServiceConverges ==
    <>[](Up /\ ~agent.spec.paused)
        => <>[](/\ Up
                /\ IF agent.spec.servicePort = 0
                   THEN service = NoService
                   ELSE /\ service = [port |-> agent.spec.servicePort, owner |-> agent.uid]
                        /\ agent.status.serviceName = "service")

\* The deletion of an Agent with self-healing and the finalizer leads to an Agent
\* that is up, unless self-healing was disabled before the last one was gone.
Healable ==
    /\ agent # NoAgent /\ agent.deleting /\ agentFinalizer \in agent.finalizers
    /\ ~agent.spec.selfHealingDisabled

OptedOut == \E b \in buried : b.uid = lastUID /\ b.spec.selfHealingDisabled

HealingCompletes == Healable ~> (Up \/ OptedOut)

-----------------------------------------------------------------------------
(* What the documentation says and the code does not keep.                 *)

\* README.md: "each Agent maps 1-to-1 to a Pod".  A second live Pod, created from
\* a stale list, would have to go again.
OneToOne == ~AtMostOneLivePod ~> AtMostOneLivePod

===============================================================================
