------------------------ MODULE AgentControllerProofs ------------------------
(***************************************************************************)
(* The type invariant of AgentController, for all values of its constants. *)
(*                                                                         *)
(* Most actions do one of a few things to the stored Agent, to the Pods    *)
(* and to the Reconcile in progress.  The lemmas of the first half say so, *)
(* action by action (Step); the invariants, here and in the modules that   *)
(* extend this one, are proved for that shape, and for the five actions    *)
(* that have another one: the deliveries, Restart and Reconcile.           *)
(***************************************************************************)
EXTENDS AgentController, TLAPS

-----------------------------------------------------------------------------
(* The inductive invariant.                                                *)

\* An Update is accepted only for the version that was read.
FreshIsStored == fresh => rec.agent = agent /\ rec.call \in Updates

\* The last version on its way to the cache is the stored one.
CacheCurrent ==
    IF agentEvents = <<>> THEN agentCache = agent
                          ELSE agentEvents[Len(agentEvents)] = agent

\* What Reconcile knows when it makes a call, from what it has read.
RecCalls ==
    /\ rec.call \in {"pausePod", "driftStatus", "driftPod", "syncStatus", "deletionPod"}
          => rec.pod # NoPod
    /\ rec.call \in {"driftStatus", "driftPod"} => specChanged(rec.agent, rec.pod)
    /\ rec.call = "createPod" => rec.pod = NoPod /\ ~rec.agent.spec.paused
    /\ rec.call \in {"deletionPod", "removeFinalizer"} => rec.agent.deleting

\* TypeOK is not inductive alone: Put writes what is stored, so the Update needs
\* FreshIsStored, which needs CacheCurrent when a Reconcile begins, and the Pod that
\* a call deletes exists by RecCalls.
BaseInv == TypeOK /\ FreshIsStored /\ CacheCurrent /\ RecCalls

-----------------------------------------------------------------------------
(* What a step may do to the stored Agent, to the Pods and to the Reconcile *)
(* in progress.                                                             *)

\* Two versions of one generation.
SameSpec(a, b) == a.uid = b.uid /\ a.generation = b.generation /\ a.spec = b.spec

\* A write keeps the uid, and the generation or the next one.
NextVersion(a, b) ==
    SameSpec(a, b) \/ (a.uid = b.uid /\ a.generation = b.generation + 1)

\* The Agent stays, is written, goes, or is created.
AgentStep ==
    \/ KeepAgent /\ UNCHANGED lastUID
    \/ /\ agent # NoAgent
       /\ UNCHANGED lastUID
       /\ \E a \in Agent :
             /\ NextVersion(a, agent)
             /\ \/ Publish(a) /\ UNCHANGED buried
                \/ /\ Publish(NoAgent)
                   /\ buried' = buried \cup {[uid |-> a.uid, spec |-> a.spec]}
    \/ \E s \in AgentSpec, f \in Nat : Create(s, f)

\* Two versions of one Pod: neither the kubelet nor a deletion changes these fields.
SamePod(p, q) ==
    p.name = q.name /\ p.owner = q.owner /\ p.generation = q.generation /\ p.payload = q.payload

\* The Pods stay, change or go, or a Reconcile creates one from what it has read.
PodStep ==
    \/ KeepPods
    \/ \E new \in PodMap :
          /\ PutPods(new)
          /\ \A n \in PodNames : new[n] # NoPod => pods[n] # NoPod /\ SamePod(new[n], pods[n])
    \/ /\ rec.call = "createPod"
       /\ \E n \in FreshNames : PutPods([pods EXCEPT ![n] = buildPod(n, rec.agent)])

\* The calls of one Reconcile that follow each other.
Succession ==
    {<<"pausePod", "pauseStatus">>, <<"createPod", "createFailed">>,
     <<"driftStatus", "driftPod">>, <<"deletionPod", "removeFinalizer">>,
     <<"service", "serviceStatus">>}

\* The Reconcile waits, ends, makes its next call, or goes on with the answer of the
\* status patch.
RecStep ==
    \/ UNCHANGED rec /\ (Age \/ fresh' = FALSE)
    \/ rec' = Idle /\ fresh' = FALSE
    \/ \E c \in Calls : /\ <<rec.call, c>> \in Succession
                        /\ rec' = [rec EXCEPT !.call = c]
                        /\ Age
    \/ /\ rec.call = "syncStatus"
       /\ agent # NoAgent
       /\ \E w \in Agent : /\ SameSpec(w, agent)
                           /\ rec' = [rec EXCEPT !.call = "service", !.agent = w]
       /\ UNCHANGED fresh

\* The types of the variables that the invariants do not relate to others.
RestTypes ==
    /\ service \in Service \cup {NoService}
    /\ serviceEvents \in Seq(Service \cup {NoService})
    /\ queued \in BOOLEAN
    /\ healers \in SUBSET Healer
    /\ history \in SUBSET (Reasons \X Nat)
    /\ healed \in SUBSET Nat
    /\ budget \in Budget

\* The shape of all actions but the deliveries, Restart and Reconcile.
Step == AgentStep /\ PodStep /\ RecStep /\ UNCHANGED caches /\ RestTypes'

-----------------------------------------------------------------------------

\* A Reconcile in progress has read an Agent.
LEMMA RecBusy ==
    ASSUME TypeOK, rec.call # "none"
    PROVE  rec \in Reconciling /\ rec.agent \in Agent /\ rec.pod \in Pod \cup {NoPod}
BY DEF TypeOK, Reconciling, Idle

\* A created Agent is an Agent.
LEMMA NewAgentType ==
    ASSUME NEW u \in Nat, NEW s \in AgentSpec, NEW f \in Nat
    PROVE  NewAgent(u, s, f) \in Agent
BY DEF NewAgent, Agent, EmptyStatus, AgentStatus, AgentPhases, AgentConditionTypes

\* An Agent with another spec is an Agent.
LEMMA WithSpecType ==
    ASSUME NEW a \in Agent, NEW s \in AgentSpec
    PROVE  WithSpec(a, s) \in Agent
<1>1. CASE s = a.spec
  <2>1. WithSpec(a, s) = a
    BY <1>1 DEF WithSpec, Agent
  <2> QED BY <2>1
<1>2. CASE s # a.spec
  <2>1. WithSpec(a, s) = [a EXCEPT !.spec = s, !.generation = @ + 1]
    BY <1>2 DEF WithSpec
  <2>2. a.generation + 1 \in Nat
    BY DEF Agent
  <2>3. [a EXCEPT !.spec = s, !.generation = a.generation + 1] \in Agent
    BY <2>2 DEF Agent
  <2> QED BY <2>1, <2>3
<1> QED BY <1>1, <1>2

\* Merging statuses gives a status.
LEMMA MergedStatusType ==
    ASSUME NEW b \in AgentStatus, NEW m \in AgentStatus, NEW c \in AgentStatus
    PROVE  MergedStatus(b, m, c) \in AgentStatus
BY DEF MergedStatus, Merged, AgentStatus

\* updateStatus stores an Agent.
LEMMA WithStatusType ==
    ASSUME TypeOK, agent # NoAgent, rec.agent \in Agent,
           NEW b \in AgentStatus, NEW p \in AgentPhases, NEW n \in PodNames \cup {NoPod}
    PROVE  WithStatus(b, p, n) \in Agent
<1> DEFINE modified == [b EXCEPT !.phase = p, !.podName = n,
                                 !.observedGeneration = rec.agent.generation]
<1>1. agent \in Agent /\ agent.status \in AgentStatus /\ rec.agent.generation \in Nat
  BY DEF TypeOK, Agent
<1>2. modified \in AgentStatus
  BY <1>1 DEF AgentStatus
<1>3. MergedStatus(b, modified, agent.status) \in AgentStatus
  BY <1>1, <1>2, MergedStatusType
<1> HIDE DEF modified
<1>4. [agent EXCEPT !.status = MergedStatus(b, modified, agent.status)] \in Agent
  BY <1>1, <1>3 DEF Agent
<1> QED BY <1>4 DEF WithStatus, modified

\* FirstCall is one of the calls.
LEMMA FirstCallType ==
    ASSUME NEW a \in Agent, NEW p \in Pod \cup {NoPod}
    PROVE  FirstCall(a, p) \in Calls
BY DEF FirstCall, Calls, Updates, Agent, AgentSpec

\* A history entry keeps the type of the history.
LEMMA EntryType ==
    ASSUME TypeOK, NEW r \in Reasons, NEW u \in Nat, appendHistory(r, u)
    PROVE  history' \in SUBSET (Reasons \X Nat)
BY DEF TypeOK, Entry, appendHistory

-----------------------------------------------------------------------------
(* The actions, by what they do.                                           *)

\* A write of an existing Agent has the shape AgentStep.
LEMMA PutStep ==
    ASSUME TypeOK, agent # NoAgent, UNCHANGED lastUID,
           NEW a \in Agent, NextVersion(a, agent), Put(a)
    PROVE  AgentStep
BY DEF Put, AgentStep, KeepAgent

\* A status patch has the shape AgentStep.
LEMMA StatusStep ==
    ASSUME TypeOK, rec.agent \in Agent, UNCHANGED lastUID, agent # NoAgent,
           NEW b \in AgentStatus, NEW p \in AgentPhases, NEW n \in PodNames \cup {NoPod},
           updateStatus(b, p, n)
    PROVE  AgentStep
<1>1. WithStatus(b, p, n) \in Agent
  BY WithStatusType
<1>2. agent \in Agent /\ SameSpec(WithStatus(b, p, n), agent) /\ SameSpec(agent, agent)
  BY DEF WithStatus, SameSpec, TypeOK, Agent
<1>3. CASE Put(WithStatus(b, p, n))
  BY <1>1, <1>2, <1>3, PutStep DEF NextVersion
<1>4. CASE Publish(agent) /\ UNCHANGED buried
  BY <1>2, <1>4 DEF AgentStep, NextVersion
<1> QED BY <1>3, <1>4 DEF updateStatus

\* So has one whose error is dropped.
LEMMA TryStatusStep ==
    ASSUME TypeOK, rec.agent \in Agent, UNCHANGED lastUID,
           NEW b \in AgentStatus, NEW p \in AgentPhases, NEW n \in PodNames \cup {NoPod},
           TryStatus(b, p, n)
    PROVE  AgentStep /\ budget' \in Budget
<1>1. CASE agent # NoAgent /\ updateStatus(b, p, n) /\ Answered
  BY <1>1, StatusStep DEF TypeOK, Answered
<1>2. CASE KeepAgent /\ Answered
  BY <1>2 DEF TypeOK, Answered, AgentStep
<1>3. CASE KeepAgent /\ Rejected
  BY <1>3 DEF TypeOK, Rejected, AgentStep, Budget
<1> QED BY <1>1, <1>2, <1>3 DEF TryStatus

\* Marking a Pod has the shape PodStep.
LEMMA MarkPodStep ==
    ASSUME TypeOK, NEW n \in PodNames, MarkPod(n)
    PROVE  PodStep
<1> DEFINE new == IF pods[n] = NoPod THEN pods ELSE [pods EXCEPT ![n].deleting = TRUE]
<1>1. new \in PodMap
  BY DEF TypeOK, PodMap, Pod
<1>2. \A m \in PodNames : new[m] # NoPod => pods[m] # NoPod /\ SamePod(new[m], pods[m])
  BY DEF TypeOK, PodMap, Pod, SamePod
<1>3. PutPods(new)
  BY DEF MarkPod
<1> QED BY <1>1, <1>2, <1>3 DEF PodStep

\* The outcomes of a call keep the type of the budget.
LEMMA CallOutcomes ==
    ASSUME TypeOK, Answered \/ Rejected \/ Unanswered \/ UseOp
    PROVE  budget' \in Budget
<1>1. CASE Answered
  BY <1>1 DEF TypeOK, Answered
<1>2. CASE Rejected
  <2>1. budget.faults + 1 \in Nat
    BY DEF TypeOK, Budget
  <2> QED BY <1>2, <2>1 DEF TypeOK, Budget, Rejected
<1>3. CASE Unanswered
  <2>1. budget.timeouts + 1 \in Nat
    BY DEF TypeOK, Budget
  <2> QED BY <1>3, <2>1 DEF TypeOK, Budget, Unanswered
<1>4. CASE UseOp
  <2>1. budget.ops + 1 \in Nat
    BY DEF TypeOK, Budget
  <2> QED BY <1>4, <2>1 DEF TypeOK, Budget, UseOp
<1> QED BY <1>1, <1>2, <1>3, <1>4

\* Storing a Service keeps the types.
LEMMA PutServiceType ==
    ASSUME TypeOK, NEW v \in Service \cup {NoService}, PutService(v)
    PROVE  service' \in Service \cup {NoService} /\ serviceEvents' \in Seq(Service \cup {NoService})
<1>1. CASE KeepService
  BY <1>1 DEF TypeOK, KeepService
<1>2. CASE service' = v /\ serviceEvents' = Append(serviceEvents, v)
  BY <1>2 DEF TypeOK
<1> QED BY <1>1, <1>2 DEF PutService

\* AddFinalizer has the shape Step.
LEMMA AddFinalizerStep ==
    ASSUME BaseInv, AddFinalizer
    PROVE  Step
<1>1. rec.agent \in Agent /\ agent \in Agent \cup {NoAgent}
  BY RecBusy DEF BaseInv, TypeOK, AddFinalizer
<1>2. AgentStep
  <2>1. CASE fresh /\ Put([agent EXCEPT !.finalizers = @ \cup {agentFinalizer}])
    <3> DEFINE a == [agent EXCEPT !.finalizers = @ \cup {agentFinalizer}]
    <3>1. agent \in Agent
      BY <1>1, <2>1 DEF BaseInv, FreshIsStored
    <3>2. agent # NoAgent
      BY <3>1, NullsAreNoObjects
    <3>3. a \in Agent /\ SameSpec(a, agent)
      BY <3>1 DEF Agent, SameSpec, agentFinalizer, foregroundFinalizer
    <3> QED BY <2>1, <3>2, <3>3, PutStep DEF BaseInv, NextVersion, AddFinalizer, healVars
  <2>2. CASE KeepAgent
    BY <2>2 DEF AgentStep, AddFinalizer, healVars
  <2> QED BY <2>1, <2>2 DEF AddFinalizer, UpdateAccepted
<1>3. PodStep /\ RecStep /\ UNCHANGED caches
  BY DEF AddFinalizer, PodStep, RecStep, Return
<1>4. RestTypes'
  BY CallOutcomes DEF BaseInv, TypeOK, RestTypes, AddFinalizer, Return, KeepService, healVars
<1> QED BY <1>2, <1>3, <1>4 DEF Step

\* PausePod has the shape Step.
LEMMA PausePodStep ==
    ASSUME BaseInv, PausePod
    PROVE  Step
<1>1. rec \in Reconciling /\ rec.agent \in Agent /\ rec.pod \in Pod /\ rec.pod.name \in PodNames
  BY RecBusy DEF BaseInv, PausePod, RecCalls, Pod
<1>2. AgentStep
  BY DEF PausePod, AgentStep
<1>3. PodStep
  BY <1>1, MarkPodStep DEF BaseInv, PausePod, PodStep
<1>4. RecStep
  BY DEF PausePod, RecStep, Return, Continue, Succession, Calls
<1>5. RestTypes'
  <2>1. history' \in SUBSET (Reasons \X Nat)
    BY <1>1, EntryType DEF BaseInv, TypeOK, PausePod, Record, Reasons, Agent
  <2> QED BY <2>1, CallOutcomes
          DEF BaseInv, TypeOK, RestTypes, PausePod, Return, Continue, KeepService
<1> QED BY <1>2, <1>3, <1>4, <1>5 DEF Step, PausePod

\* PauseStatus has the shape Step.
LEMMA PauseStatusStep ==
    ASSUME BaseInv, PauseStatus
    PROVE  Step
<1>1. rec.agent \in Agent /\ rec.agent.status \in AgentStatus
  BY RecBusy DEF BaseInv, PauseStatus, Agent
<1>2. AgentStep /\ budget' \in Budget
  BY <1>1, TryStatusStep DEF BaseInv, PauseStatus, AgentPhases, healVars
<1>3. PodStep /\ RecStep /\ UNCHANGED caches
  BY DEF PauseStatus, PodStep, RecStep, Return
<1>4. RestTypes'
  BY <1>2 DEF BaseInv, TypeOK, RestTypes, PauseStatus, Return, KeepService, healVars
<1> QED BY <1>2, <1>3, <1>4 DEF Step

\* CreatePod has the shape Step.
LEMMA CreatePodStep ==
    ASSUME BaseInv, CreatePod
    PROVE  Step
<1>1. rec \in Reconciling /\ rec.agent \in Agent
  BY RecBusy DEF BaseInv, CreatePod
<1>2. AgentStep
  BY DEF CreatePod, AgentStep
<1>3. PodStep
  BY DEF CreatePod, PodStep
<1>4. RecStep
  BY DEF CreatePod, RecStep, Return, Continue, Succession, Calls
<1>5. RestTypes'
  <2>1. history' \in SUBSET (Reasons \X Nat)
    BY <1>1, EntryType DEF BaseInv, TypeOK, CreatePod, Record, Reasons, Agent
  <2>2. budget' \in Budget /\ queued' \in BOOLEAN
    BY CallOutcomes DEF BaseInv, TypeOK, CreatePod, Return, Continue
  <2> QED BY <2>1, <2>2 DEF BaseInv, TypeOK, RestTypes, CreatePod, KeepService
<1> QED BY <1>2, <1>3, <1>4, <1>5 DEF Step, CreatePod

\* CreateFailed has the shape Step.
LEMMA CreateFailedStep ==
    ASSUME BaseInv, CreateFailed
    PROVE  Step
<1>1. rec.agent \in Agent /\ rec.agent.status \in AgentStatus /\ rec.agent.uid \in Nat
  BY RecBusy DEF BaseInv, CreateFailed, Agent
<1>2. setCondition(rec.agent.status, "Failed") \in AgentStatus
  BY <1>1 DEF setCondition, AgentStatus, AgentConditionTypes
<1>3. AgentStep /\ budget' \in Budget
  BY <1>1, <1>2, TryStatusStep DEF BaseInv, CreateFailed, AgentPhases
<1>4. PodStep /\ RecStep /\ UNCHANGED caches
  BY DEF CreateFailed, PodStep, RecStep, Return
<1>5. history' \in SUBSET (Reasons \X Nat)
  BY <1>1, EntryType DEF BaseInv, CreateFailed, Record, Reasons
<1>6. RestTypes'
  BY <1>3, <1>5 DEF BaseInv, TypeOK, RestTypes, CreateFailed, Return, KeepService
<1> QED BY <1>3, <1>4, <1>6 DEF Step

\* DriftStatus has the shape Step.
LEMMA DriftStatusStep ==
    ASSUME BaseInv, DriftStatus
    PROVE  Step
<1>1. /\ rec.agent \in Agent /\ rec.agent.status \in AgentStatus /\ rec.agent.uid \in Nat
      /\ rec.pod \in Pod /\ rec.pod.name \in PodNames
  BY RecBusy DEF BaseInv, DriftStatus, RecCalls, Agent, Pod
<1>2. AgentStep /\ budget' \in Budget
  BY <1>1, TryStatusStep DEF BaseInv, DriftStatus, AgentPhases
<1>3. PodStep /\ RecStep /\ UNCHANGED caches
  BY DEF DriftStatus, PodStep, RecStep, Continue, Succession, Calls
<1>4. history' \in SUBSET (Reasons \X Nat)
  BY <1>1, EntryType DEF BaseInv, DriftStatus, Record, Reasons
<1>5. RestTypes'
  BY <1>2, <1>4 DEF BaseInv, TypeOK, RestTypes, DriftStatus, Continue, KeepService
<1> QED BY <1>2, <1>3, <1>5 DEF Step

\* DriftPod has the shape Step.
LEMMA DriftPodStep ==
    ASSUME BaseInv, DriftPod
    PROVE  Step
<1>1. rec.pod \in Pod /\ rec.pod.name \in PodNames
  BY RecBusy DEF BaseInv, DriftPod, RecCalls, Pod
<1>2. AgentStep /\ RecStep /\ UNCHANGED caches
  BY DEF DriftPod, AgentStep, RecStep, Return, healVars
<1>3. PodStep
  BY <1>1, MarkPodStep DEF BaseInv, DriftPod, PodStep
<1>4. RestTypes'
  BY CallOutcomes DEF BaseInv, TypeOK, RestTypes, DriftPod, Return, KeepService, healVars
<1> QED BY <1>2, <1>3, <1>4 DEF Step

\* SyncStatus has the shape Step.
LEMMA SyncStatusStep ==
    ASSUME BaseInv, SyncStatus
    PROVE  Step
<1> DEFINE base == rec.agent.status
           phase == podPhaseToAgentPhase(rec.pod.phase)
           w == WithStatus(base, phase, rec.pod.name)
<1>1. /\ rec \in Reconciling /\ rec.agent \in Agent /\ base \in AgentStatus
      /\ rec.pod \in Pod /\ rec.pod.name \in PodNames
  BY RecBusy DEF BaseInv, SyncStatus, RecCalls, Agent, Pod
<1>2. phase \in AgentPhases
  BY <1>1 DEF podPhaseToAgentPhase, Pod, PodPhases, AgentPhases
<1>3. agent # NoAgent => w \in Agent /\ SameSpec(w, agent)
  <2> SUFFICES ASSUME agent # NoAgent PROVE w \in Agent /\ SameSpec(w, agent)
    OBVIOUS
  <2>1. w \in Agent
    BY <1>1, <1>2, WithStatusType DEF BaseInv
  <2>2. agent \in Agent
    BY DEF BaseInv, TypeOK
  <2>3. SameSpec(w, agent)
    BY <2>2 DEF WithStatus, SameSpec, Agent
  <2> QED BY <2>1, <2>3
<1> HIDE DEF base, phase, w
<1>4. CASE /\ agent # NoAgent
           /\ updateStatus(base, phase, rec.pod.name)
           /\ \/ /\ Answered
                 /\ rec' = [rec EXCEPT !.call = "service", !.agent = w]
                 /\ UNCHANGED <<queued, fresh>>
              \/ Unanswered /\ Return(TRUE)
  <2>1. AgentStep
    BY <1>1, <1>2, <1>4, StatusStep DEF BaseInv, SyncStatus, healVars
  <2>2. RecStep
    BY <1>3, <1>4 DEF RecStep, SyncStatus, Return
  <2>3. budget' \in Budget /\ queued' \in BOOLEAN
    BY <1>4, CallOutcomes DEF BaseInv, TypeOK, Return
  <2>4. RestTypes'
    BY <2>3 DEF BaseInv, TypeOK, RestTypes, SyncStatus, KeepService, healVars
  <2> QED BY <2>1, <2>2, <2>4 DEF Step, SyncStatus, PodStep
<1>5. CASE KeepAgent /\ (Answered \/ Rejected) /\ Return(TRUE)
  <2>1. AgentStep /\ RecStep
    BY <1>5 DEF AgentStep, RecStep, Return, SyncStatus, healVars
  <2>2. RestTypes'
    BY <1>5, CallOutcomes DEF BaseInv, TypeOK, RestTypes, SyncStatus, Return, KeepService, healVars
  <2> QED BY <2>1, <2>2 DEF Step, SyncStatus, PodStep
<1> QED BY <1>4, <1>5 DEF SyncStatus, base, phase, w

\* reconcileService has the shape Step.
LEMMA ReconcileServiceStep ==
    ASSUME BaseInv, reconcileService
    PROVE  Step
<1>1. /\ rec \in Reconciling /\ rec.agent \in Agent
      /\ wantedPort \in Nat /\ rec.agent.uid \in Nat
  BY RecBusy, PortsAssumption DEF BaseInv, reconcileService, wantedPort, Agent, AgentSpec
<1>2. desiredService \in Service \cup {NoService}
  BY <1>1 DEF BaseInv, TypeOK, desiredService, Service
<1>3. AgentStep /\ PodStep
  BY DEF reconcileService, AgentStep, PodStep, healVars
<1>4. RecStep
  BY DEF reconcileService, RecStep, Return, Continue, Succession, Calls
<1>5. service' \in Service \cup {NoService} /\ serviceEvents' \in Seq(Service \cup {NoService})
  BY <1>2, PutServiceType DEF BaseInv, TypeOK, reconcileService, KeepService
<1>6. budget' \in Budget /\ queued' \in BOOLEAN
  BY CallOutcomes DEF BaseInv, TypeOK, reconcileService, Return, Continue
<1>7. RestTypes'
  BY <1>5, <1>6 DEF BaseInv, TypeOK, RestTypes, reconcileService, healVars
<1> QED BY <1>3, <1>4, <1>7 DEF Step, reconcileService

\* ServiceStatus has the shape Step.
LEMMA ServiceStatusStep ==
    ASSUME BaseInv, ServiceStatus
    PROVE  Step
<1>1. AgentStep
  <2> DEFINE name == IF wantedPort = 0 THEN "" ELSE "service"
             a == [agent EXCEPT !.status.serviceName =
                      Merged(rec.agent.status.serviceName, name, @)]
  <2>1. CASE agent # NoAgent /\ Put(a)
    <3>1. agent \in Agent /\ agent.status \in AgentStatus
      BY <2>1 DEF BaseInv, TypeOK, Agent
    <3>2. Merged(rec.agent.status.serviceName, name, agent.status.serviceName) \in {"", "service"}
      BY <3>1 DEF Merged, AgentStatus
    <3> HIDE DEF name
    <3>3. a \in Agent /\ SameSpec(a, agent)
      BY <3>1, <3>2 DEF Agent, AgentStatus, SameSpec
    <3> QED BY <2>1, <3>3, PutStep DEF BaseInv, NextVersion, ServiceStatus, healVars
  <2>2. CASE KeepAgent
    BY <2>2 DEF AgentStep, ServiceStatus, healVars
  <2> QED BY <2>1, <2>2 DEF ServiceStatus
<1>2. PodStep /\ RecStep /\ UNCHANGED caches
  BY DEF ServiceStatus, PodStep, RecStep, Return
<1>3. RestTypes'
  BY CallOutcomes DEF BaseInv, TypeOK, RestTypes, ServiceStatus, Return, KeepService, healVars
<1> QED BY <1>1, <1>2, <1>3 DEF Step

\* DeletionPod has the shape Step.
LEMMA DeletionPodStep ==
    ASSUME BaseInv, DeletionPod
    PROVE  Step
<1>1. rec \in Reconciling /\ rec.pod \in Pod /\ rec.pod.name \in PodNames
  BY RecBusy DEF BaseInv, DeletionPod, RecCalls, Pod
<1>2. AgentStep
  BY DEF DeletionPod, AgentStep, healVars
<1>3. PodStep
  BY <1>1, MarkPodStep DEF BaseInv, DeletionPod, PodStep
<1>4. RecStep
  BY DEF DeletionPod, RecStep, Return, Continue, Succession, Calls, Updates
<1>5. RestTypes'
  BY CallOutcomes DEF BaseInv, TypeOK, RestTypes, DeletionPod, Return, Continue, KeepService, healVars
<1> QED BY <1>2, <1>3, <1>4, <1>5 DEF Step, DeletionPod

\* A new goroutine is at its first attempt.
LEMMA SpawnType ==
    ASSUME TypeOK, rec.agent \in Agent, Spawn
    PROVE  healers' \in SUBSET Healer
<1>1. CASE UNCHANGED healers
  BY <1>1 DEF TypeOK
<1>2. ASSUME NEW g \in HealerIds,
             healers' = healers \cup {[gid |-> g, uid |-> rec.agent.uid,
                                       spec |-> rec.agent.spec,
                                       attempt |-> 1, at |-> "create"]}
      PROVE  healers' \in SUBSET Healer
  BY <1>2, BoundsAssumption DEF TypeOK, Healer, Agent
<1> QED BY <1>1, <1>2 DEF Spawn

\* A goroutine makes at most MaxAttempts attempts.
LEMMA RetryType ==
    ASSUME TypeOK, NEW h \in healers, Retry(h)
    PROVE  healers' \in SUBSET Healer
<1>1. h \in Healer
  BY DEF TypeOK
<1>2. h.attempt < MaxAttempts => [h EXCEPT !.attempt = @ + 1, !.at = "create"] \in Healer
  <2> SUFFICES ASSUME h.attempt < MaxAttempts
               PROVE  [h EXCEPT !.attempt = @ + 1, !.at = "create"] \in Healer
    OBVIOUS
  <2>1. h.attempt + 1 \in 1..MaxAttempts
    BY <1>1, BoundsAssumption DEF Healer
  <2> QED BY <1>1, <2>1 DEF Healer
<1> QED BY <1>2 DEF TypeOK, Retry

\* RemoveFinalizer has the shape Step.
LEMMA RemoveFinalizerStep ==
    ASSUME BaseInv, RemoveFinalizer
    PROVE  Step
<1>1. rec.agent \in Agent /\ agent \in Agent \cup {NoAgent}
  BY RecBusy DEF BaseInv, TypeOK, RemoveFinalizer
<1>2. AgentStep
  <2>1. CASE fresh /\ Put([agent EXCEPT !.finalizers = @ \ {agentFinalizer}])
    <3> DEFINE a == [agent EXCEPT !.finalizers = @ \ {agentFinalizer}]
    <3>1. agent \in Agent
      BY <1>1, <2>1 DEF BaseInv, FreshIsStored
    <3>2. agent # NoAgent
      BY <3>1, NullsAreNoObjects
    <3>3. a \in Agent /\ SameSpec(a, agent)
      BY <3>1 DEF Agent, SameSpec
    <3> QED BY <2>1, <3>2, <3>3, PutStep DEF BaseInv, NextVersion, RemoveFinalizer
  <2>2. CASE KeepAgent
    BY <2>2 DEF AgentStep, RemoveFinalizer
  <2> QED BY <2>1, <2>2 DEF RemoveFinalizer, UpdateAccepted
<1>3. PodStep /\ RecStep /\ UNCHANGED caches
  BY DEF RemoveFinalizer, PodStep, RecStep, Return
<1>4. healers' \in SUBSET Healer
  BY <1>1, SpawnType DEF BaseInv, TypeOK, RemoveFinalizer
<1>5. budget' \in Budget /\ queued' \in BOOLEAN
  BY CallOutcomes DEF BaseInv, TypeOK, RemoveFinalizer, Return
<1>6. RestTypes'
  BY <1>4, <1>5 DEF BaseInv, TypeOK, RestTypes, RemoveFinalizer, KeepService
<1> QED BY <1>2, <1>3, <1>6 DEF Step

\* HealCreate has the shape Step.
LEMMA HealCreateStep ==
    ASSUME BaseInv, NEW h \in healers, HealCreate(h)
    PROVE  Step
<1>1. h \in Healer /\ h.spec \in AgentSpec /\ h.uid \in Nat
  BY DEF BaseInv, TypeOK, Healer
<1>2. PodStep /\ RecStep /\ UNCHANGED caches
  BY DEF HealCreate, PodStep, RecStep
<1>3. AgentStep
  BY <1>1 DEF HealCreate, AgentStep
<1>4. healers' \in SUBSET Healer
  <2>1. [h EXCEPT !.at = "get"] \in Healer /\ [h EXCEPT !.at = "record"] \in Healer
    BY <1>1 DEF Healer
  <2>2. CASE Retry(h)
    BY <2>2, RetryType DEF BaseInv
  <2>3. CASE Proceed(h, "get") \/ Proceed(h, "record")
    BY <2>1, <2>3 DEF BaseInv, TypeOK, Proceed
  <2> QED BY <2>2, <2>3 DEF HealCreate
<1>5. history' \in SUBSET (Reasons \X Nat) /\ healed' \in SUBSET Nat
  BY <1>1 DEF BaseInv, TypeOK, HealCreate
<1>6. budget' \in Budget
  BY CallOutcomes DEF BaseInv, HealCreate
<1>7. RestTypes'
  BY <1>4, <1>5, <1>6 DEF BaseInv, TypeOK, RestTypes, HealCreate, KeepService
<1> QED BY <1>2, <1>3, <1>7 DEF Step

\* HealGet has the shape Step.
LEMMA HealGetStep ==
    ASSUME BaseInv, NEW h \in healers, HealGet(h)
    PROVE  Step
<1>1. healers' \in SUBSET Healer
  BY RetryType DEF BaseInv, TypeOK, HealGet
<1>2. AgentStep /\ PodStep
  BY DEF HealGet, AgentStep, PodStep
<1>3. RecStep
  BY DEF HealGet, RecStep, Age, KeepAgent, BaseInv, TypeOK
<1>4. RestTypes'
  BY <1>1 DEF BaseInv, TypeOK, RestTypes, HealGet, KeepService
<1> QED BY <1>2, <1>3, <1>4 DEF Step, HealGet

\* HealRecord has the shape Step.
LEMMA HealRecordStep ==
    ASSUME BaseInv, NEW h \in healers, HealRecord(h)
    PROVE  Step
<1>1. healers' \in SUBSET Healer /\ h.uid \in Nat
  BY DEF BaseInv, TypeOK, HealRecord, Healer
<1>2. AgentStep /\ PodStep
  BY DEF HealRecord, AgentStep, PodStep
<1>3. RecStep
  BY DEF HealRecord, RecStep, Age, KeepAgent, BaseInv, TypeOK
<1>4. history' \in SUBSET (Reasons \X Nat)
  BY <1>1, EntryType DEF BaseInv, HealRecord, Reasons
<1>5. RestTypes'
  BY <1>1, <1>4 DEF BaseInv, TypeOK, RestTypes, HealRecord, KeepService
<1> QED BY <1>2, <1>3, <1>5 DEF Step, HealRecord

\* ClientCreate has the shape Step.
LEMMA ClientCreateStep ==
    ASSUME BaseInv, ClientCreate
    PROVE  Step
<1>1. AgentStep
  BY SpecsAssumption DEF ClientCreate, CreateAgent, AgentStep
<1>2. PodStep /\ RecStep
  BY DEF ClientCreate, CreateAgent, ControllerUnchanged, PodStep, RecStep
<1>3. RestTypes'
  BY CallOutcomes DEF BaseInv, TypeOK, RestTypes, ClientCreate, CreateAgent, ControllerUnchanged, KeepService
<1> QED BY <1>1, <1>2, <1>3 DEF Step, ClientCreate, CreateAgent, ControllerUnchanged

\* ClientPatch has the shape Step.
LEMMA ClientPatchStep ==
    ASSUME BaseInv, ClientPatch
    PROVE  Step
<1>1. AgentStep
  <2>1. agent \in Agent
    BY DEF BaseInv, TypeOK, ClientPatch, WriteSpec
  <2>2. PICK s \in Specs \ {agent.spec} : Put(WithSpec(agent, s))
    BY DEF ClientPatch, WriteSpec
  <2>3. WithSpec(agent, s) \in Agent
    BY <2>1, SpecsAssumption, WithSpecType
  <2>4. NextVersion(WithSpec(agent, s), agent)
    BY <2>1, <2>2 DEF NextVersion, WithSpec, Agent
  <2> QED BY <2>2, <2>3, <2>4, PutStep DEF BaseInv, ClientPatch, WriteSpec
<1>2. PodStep /\ RecStep
  BY DEF ClientPatch, WriteSpec, ControllerUnchanged, PodStep, RecStep
<1>3. RestTypes'
  BY CallOutcomes DEF BaseInv, TypeOK, RestTypes, ClientPatch, WriteSpec, ControllerUnchanged, KeepService
<1> QED BY <1>1, <1>2, <1>3 DEF Step, ClientPatch, WriteSpec, ControllerUnchanged

\* ClientAnnotate has the shape Step.
LEMMA ClientAnnotateStep ==
    ASSUME BaseInv, ClientAnnotate
    PROVE  Step
<1>1. AgentStep
  BY DEF BaseInv, TypeOK, ClientAnnotate, AgentStep, NextVersion, SameSpec
<1>2. PodStep /\ RecStep
  BY DEF ClientAnnotate, ControllerUnchanged, PodStep, RecStep
<1>3. RestTypes'
  BY CallOutcomes DEF BaseInv, TypeOK, RestTypes, ClientAnnotate, ControllerUnchanged, KeepService
<1> QED BY <1>1, <1>2, <1>3 DEF Step, ClientAnnotate, ControllerUnchanged

\* ClientDelete has the shape Step.
LEMMA ClientDeleteStep ==
    ASSUME BaseInv, ClientDelete
    PROVE  Step
<1>1. AgentStep
  <2>1. agent \in Agent
    BY DEF BaseInv, TypeOK, ClientDelete, DeleteAgent
  <2>2. PICK f \in SUBSET {foregroundFinalizer} :
            Put([agent EXCEPT !.deleting = TRUE, !.generation = @ + 1,
                              !.finalizers = @ \cup f])
    BY DEF ClientDelete, DeleteAgent
  <2> DEFINE a == [agent EXCEPT !.deleting = TRUE, !.generation = @ + 1,
                                !.finalizers = @ \cup f]
  <2>3. agent.generation + 1 \in Nat /\ agent.finalizers \cup f \in SUBSET {agentFinalizer, foregroundFinalizer}
    BY <2>1 DEF Agent
  <2>4. a \in Agent
    BY <2>1, <2>3 DEF Agent
  <2>5. NextVersion(a, agent)
    BY <2>1 DEF NextVersion, Agent
  <2> QED BY <2>2, <2>4, <2>5, PutStep DEF BaseInv, ClientDelete, DeleteAgent
<1>2. PodStep /\ RecStep
  BY DEF ClientDelete, DeleteAgent, ControllerUnchanged, PodStep, RecStep
<1>3. RestTypes'
  BY CallOutcomes DEF BaseInv, TypeOK, RestTypes, ClientDelete, DeleteAgent, ControllerUnchanged, KeepService
<1> QED BY <1>1, <1>2, <1>3 DEF Step, ClientDelete, DeleteAgent, ControllerUnchanged

\* CollectAgent has the shape Step.
LEMMA CollectAgentStep ==
    ASSUME BaseInv, CollectAgent
    PROVE  Step
<1>1. AgentStep
  <2> DEFINE a == [agent EXCEPT !.finalizers = @ \ {foregroundFinalizer}]
  <2>1. agent # NoAgent /\ agent \in Agent
    BY DEF BaseInv, TypeOK, CollectAgent, ForegroundDeletion
  <2>2. a \in Agent /\ SameSpec(a, agent)
    BY <2>1 DEF Agent, SameSpec
  <2> QED BY <2>1, <2>2, PutStep DEF BaseInv, NextVersion, CollectAgent
<1>2. PodStep /\ RecStep
  BY DEF CollectAgent, ControllerUnchanged, PodStep, RecStep
<1>3. RestTypes'
  BY DEF BaseInv, TypeOK, RestTypes, CollectAgent, ControllerUnchanged, KeepService
<1> QED BY <1>1, <1>2, <1>3 DEF Step, CollectAgent, ControllerUnchanged

\* ClientDeletePod has the shape Step.
LEMMA ClientDeletePodStep ==
    ASSUME BaseInv, NEW n \in PodNames, ClientDeletePod(n)
    PROVE  Step
<1>1. AgentStep /\ PodStep /\ RecStep
  BY MarkPodStep DEF BaseInv, ClientDeletePod, ControllerUnchanged, AgentStep, RecStep
<1>2. RestTypes'
  BY CallOutcomes DEF BaseInv, TypeOK, RestTypes, ClientDeletePod, ControllerUnchanged, KeepService
<1> QED BY <1>1, <1>2 DEF Step, ClientDeletePod, ControllerUnchanged

\* ClientDeleteService has the shape Step.
LEMMA ClientDeleteServiceStep ==
    ASSUME BaseInv, ClientDeleteService
    PROVE  Step
<1>1. AgentStep /\ PodStep /\ RecStep
  BY DEF ClientDeleteService, ControllerUnchanged, AgentStep, PodStep, RecStep
<1>2. service' \in Service \cup {NoService} /\ serviceEvents' \in Seq(Service \cup {NoService})
  BY PutServiceType DEF BaseInv, ClientDeleteService
<1>3. RestTypes'
  BY <1>2, CallOutcomes DEF BaseInv, TypeOK, RestTypes, ClientDeleteService, ControllerUnchanged
<1> QED BY <1>1, <1>3 DEF Step, ClientDeleteService, ControllerUnchanged

\* CollectService has the shape Step.
LEMMA CollectServiceStep ==
    ASSUME BaseInv, CollectService
    PROVE  Step
<1>1. AgentStep /\ PodStep /\ RecStep
  BY DEF CollectService, ControllerUnchanged, AgentStep, PodStep, RecStep
<1>2. service' \in Service \cup {NoService} /\ serviceEvents' \in Seq(Service \cup {NoService})
  BY PutServiceType DEF BaseInv, CollectService
<1>3. RestTypes'
  BY <1>2 DEF BaseInv, TypeOK, RestTypes, CollectService, ControllerUnchanged
<1> QED BY <1>1, <1>3 DEF Step, CollectService, ControllerUnchanged

\* KubeletPhase has the shape Step.
LEMMA KubeletPhaseStep ==
    ASSUME BaseInv, NEW n \in PodNames, KubeletPhase(n)
    PROVE  Step
<1>1. PodStep
  <2>1. PICK phase \in KubeletPhases : PutPods([pods EXCEPT ![n].phase = phase])
    BY DEF KubeletPhase
  <2> DEFINE new == [pods EXCEPT ![n].phase = phase]
  <2>2. pods \in PodMap /\ pods[n] \in Pod /\ phase \in PodPhases
    BY KubeletAssumption DEF BaseInv, TypeOK, PodMap, KubeletPhase, Live
  <2>3. new \in PodMap
    BY <2>2 DEF PodMap, Pod
  <2>4. \A m \in PodNames : new[m] # NoPod => pods[m] # NoPod /\ SamePod(new[m], pods[m])
    BY <2>2, NullsAreNoObjects DEF PodMap, Pod, SamePod
  <2> QED BY <2>1, <2>3, <2>4 DEF PodStep
<1>2. AgentStep /\ RecStep
  BY DEF KubeletPhase, ControllerUnchanged, AgentStep, RecStep
<1>3. RestTypes'
  BY DEF BaseInv, TypeOK, RestTypes, KubeletPhase, ControllerUnchanged, KeepService
<1> QED BY <1>1, <1>2, <1>3 DEF Step, KubeletPhase, ControllerUnchanged

\* KubeletRemove has the shape Step.
LEMMA KubeletRemoveStep ==
    ASSUME BaseInv, NEW n \in PodNames, KubeletRemove(n)
    PROVE  Step
<1>1. PodStep
  <2> DEFINE new == [pods EXCEPT ![n] = NoPod]
  <2>1. new \in PodMap
    BY DEF BaseInv, TypeOK, PodMap
  <2>2. \A m \in PodNames : new[m] # NoPod => pods[m] # NoPod /\ SamePod(new[m], pods[m])
    BY DEF BaseInv, TypeOK, PodMap, SamePod
  <2> QED BY <2>1, <2>2 DEF PodStep, KubeletRemove
<1>2. AgentStep /\ RecStep
  BY DEF KubeletRemove, ControllerUnchanged, AgentStep, RecStep
<1>3. RestTypes'
  BY DEF BaseInv, TypeOK, RestTypes, KubeletRemove, ControllerUnchanged, KeepService
<1> QED BY <1>1, <1>2, <1>3 DEF Step, KubeletRemove, ControllerUnchanged

\* CollectPod has the shape Step.
LEMMA CollectPodStep ==
    ASSUME BaseInv, NEW n \in PodNames, CollectPod(n)
    PROVE  Step
<1>1. AgentStep /\ PodStep /\ RecStep
  BY MarkPodStep DEF BaseInv, CollectPod, ControllerUnchanged, AgentStep, RecStep
<1>2. RestTypes'
  BY DEF BaseInv, TypeOK, RestTypes, CollectPod, ControllerUnchanged, KeepService
<1> QED BY <1>1, <1>2 DEF Step, CollectPod, ControllerUnchanged

\* A step of a version on its way, a restart, the beginning of a Reconcile, or any
\* other step, which has the shape Step.
LEMMA NextShape ==
    ASSUME BaseInv, Next
    PROVE  Step \/ DeliverAgent \/ DeliverPods \/ DeliverService \/ Restart \/ Reconcile
BY AddFinalizerStep, PausePodStep, PauseStatusStep, CreatePodStep, CreateFailedStep,
   DriftStatusStep, DriftPodStep, SyncStatusStep, ReconcileServiceStep, ServiceStatusStep,
   DeletionPodStep, RemoveFinalizerStep, HealCreateStep, HealGetStep, HealRecordStep, ClientCreateStep,
   ClientPatchStep, ClientAnnotateStep, ClientDeleteStep, ClientDeletePodStep, ClientDeleteServiceStep,
   KubeletPhaseStep, KubeletRemoveStep, CollectPodStep, CollectServiceStep, CollectAgentStep
   DEF Next, ControllerStep, HealerStep, ClientStep, ClusterStep

-----------------------------------------------------------------------------
(* BaseInv is inductive.                                                   *)

\* A sequence that is not empty has a positive length.
LEMMA NonEmptyLen ==
    ASSUME NEW S, NEW q \in Seq(S), q # <<>>
    PROVE  Len(q) \in Nat \ {0}
OBVIOUS

\* Head and Tail of a sequence that is not empty.
LEMMA TailFacts ==
    ASSUME NEW S, NEW q \in Seq(S), q # <<>>
    PROVE  /\ Len(q) \in Nat \ {0}
           /\ Head(q) = q[1] /\ Head(q) \in S
           /\ Tail(q) \in Seq(S)
           /\ Len(Tail(q)) = Len(q) - 1
           /\ \A i \in 1..Len(Tail(q)) : Tail(q)[i] = q[i + 1]
           /\ Tail(q) = <<>> <=> Len(q) = 1
<1>1. Len(q) \in Nat \ {0}
  BY NonEmptyLen
<1>2. Head(q) = q[1] /\ Head(q) \in S
  BY <1>1
<1>3. Tail(q) \in Seq(S) /\ Len(Tail(q)) = Len(q) - 1
  BY <1>1
<1>4. \A i \in 1..Len(Tail(q)) : Tail(q)[i] = q[i + 1]
  BY <1>1, <1>3
<1>5. Tail(q) # <<>> => Len(Tail(q)) # 0
  BY <1>3, NonEmptyLen
<1>6. Tail(q) = <<>> => Len(Tail(q)) = 0
  <2>1. Len(<<>>) = 0
    OBVIOUS
  <2> QED BY <2>1, Zenon
<1>7. Tail(q) = <<>> <=> Len(q) = 1
  BY <1>1, <1>3, <1>5, <1>6
<1> QED BY <1>1, <1>2, <1>3, <1>4, <1>7

\* A stored version is the last one on its way.
LEMMA PublishFacts ==
    ASSUME TypeOK, NEW v \in Agent \cup {NoAgent}, Publish(v)
    PROVE  /\ agent' = v
           /\ agentEvents' = Append(agentEvents, v)
           /\ agentEvents' \in Seq(Agent \cup {NoAgent})
           /\ Len(agentEvents') = Len(agentEvents) + 1
           /\ agentEvents'[Len(agentEvents')] = v
           /\ agentEvents' # <<>>
           /\ \A i \in 1..Len(agentEvents) : agentEvents'[i] = agentEvents[i]
BY DEF TypeOK, Publish

\* AgentStep keeps the types, and the last version on its way is the stored one.
LEMMA AgentStepTypes ==
    ASSUME TypeOK, CacheCurrent, AgentStep, UNCHANGED agentCache
    PROVE  /\ agent' \in Agent \cup {NoAgent}
           /\ agentEvents' \in Seq(Agent \cup {NoAgent})
           /\ lastUID' \in Nat
           /\ buried' \in SUBSET [uid : Nat, spec : AgentSpec]
           /\ CacheCurrent'
<1>1. CASE KeepAgent /\ UNCHANGED lastUID
  BY <1>1 DEF TypeOK, CacheCurrent, KeepAgent
<1>2. CASE /\ agent # NoAgent
           /\ UNCHANGED lastUID
           /\ \E a \in Agent :
                 /\ NextVersion(a, agent)
                 /\ \/ Publish(a) /\ UNCHANGED buried
                    \/ /\ Publish(NoAgent)
                       /\ buried' = buried \cup {[uid |-> a.uid, spec |-> a.spec]}
  <2>1. PICK a \in Agent : \/ Publish(a) /\ UNCHANGED buried
                           \/ /\ Publish(NoAgent)
                              /\ buried' = buried \cup {[uid |-> a.uid, spec |-> a.spec]}
    BY <1>2
  <2>2. [uid |-> a.uid, spec |-> a.spec] \in [uid : Nat, spec : AgentSpec]
    BY DEF Agent
  <2> QED BY <1>2, <2>1, <2>2, PublishFacts DEF TypeOK, CacheCurrent
<1>3. ASSUME NEW s \in AgentSpec, NEW f \in Nat, Create(s, f)
      PROVE  /\ agent' \in Agent \cup {NoAgent}
             /\ agentEvents' \in Seq(Agent \cup {NoAgent})
             /\ lastUID' \in Nat
             /\ buried' \in SUBSET [uid : Nat, spec : AgentSpec]
             /\ CacheCurrent'
  <2>1. lastUID + 1 \in Nat /\ NewAgent(lastUID + 1, s, f) \in Agent
    BY NewAgentType DEF TypeOK
  <2> QED BY <1>3, <2>1, PublishFacts DEF TypeOK, CacheCurrent, Create
<1> QED BY <1>1, <1>2, <1>3 DEF AgentStep

\* Storing Pods keeps the types.
LEMMA PutPodsFacts ==
    ASSUME TypeOK, NEW new \in PodMap, PutPods(new)
    PROVE  /\ pods' = new
           /\ podEvents' \in Seq(PodMap)
           /\ podEvents' = podEvents \/ podEvents' = Append(podEvents, new)
<1>1. CASE new = pods /\ KeepPods
  BY <1>1 DEF TypeOK, KeepPods
<1>2. CASE pods' = new /\ podEvents' = Append(podEvents, new)
  BY <1>2 DEF TypeOK
<1> QED BY <1>1, <1>2 DEF PutPods

\* A Pod that was built is a Pod.
LEMMA NewPodMap ==
    ASSUME TypeOK, rec.agent \in Agent, NEW n \in PodNames
    PROVE  [pods EXCEPT ![n] = buildPod(n, rec.agent)] \in PodMap
<1>1. buildPod(n, rec.agent) \in Pod
  BY DEF buildPod, Pod, PodPhases, Agent, AgentSpec
<1> QED BY <1>1 DEF TypeOK, PodMap

\* PodStep keeps the types.
LEMMA PodStepTypes ==
    ASSUME TypeOK, PodStep
    PROVE  pods' \in PodMap /\ podEvents' \in Seq(PodMap)
<1>1. CASE KeepPods
  BY <1>1 DEF TypeOK, KeepPods
<1>2. ASSUME NEW new \in PodMap, PutPods(new)
      PROVE  pods' \in PodMap /\ podEvents' \in Seq(PodMap)
  BY <1>2, PutPodsFacts
<1>3. ASSUME rec.call = "createPod", NEW n \in FreshNames,
             PutPods([pods EXCEPT ![n] = buildPod(n, rec.agent)])
      PROVE  pods' \in PodMap /\ podEvents' \in Seq(PodMap)
  BY <1>2, <1>3, RecBusy, NewPodMap DEF FreshNames
<1> QED BY <1>1, <1>2, <1>3 DEF PodStep

\* RecStep keeps the types, and what is known at each call of a Reconcile.
LEMMA RecStepFacts ==
    ASSUME BaseInv, RecStep
    PROVE  /\ rec' \in Reconciling \cup {Idle}
           /\ fresh' \in BOOLEAN
           /\ FreshIsStored'
           /\ RecCalls'
<1>1. CASE UNCHANGED rec /\ (Age \/ fresh' = FALSE)
  BY <1>1 DEF BaseInv, TypeOK, FreshIsStored, RecCalls, Age, specChanged
<1>2. CASE rec' = Idle /\ fresh' = FALSE
  BY <1>2 DEF FreshIsStored, RecCalls, Idle
<1>3. ASSUME NEW c \in Calls, <<rec.call, c>> \in Succession,
             rec' = [rec EXCEPT !.call = c], Age
      PROVE  /\ rec' \in Reconciling \cup {Idle}
             /\ fresh' \in BOOLEAN
             /\ FreshIsStored'
             /\ RecCalls'
  <2>1. rec \in Reconciling
    BY <1>3, RecBusy DEF BaseInv, Succession
  <2>2. rec' \in Reconciling /\ rec'.call = c /\ rec'.agent = rec.agent /\ rec'.pod = rec.pod
    BY <1>3, <2>1 DEF Reconciling
  <2>3. FreshIsStored' /\ fresh' \in BOOLEAN
    BY <1>3, <2>2 DEF BaseInv, FreshIsStored, Age, Succession, Updates
  <2>4. RecCalls'
    BY <1>3, <2>2 DEF BaseInv, RecCalls, Succession, specChanged
  <2> QED BY <2>2, <2>3, <2>4
<1>4. ASSUME rec.call = "syncStatus", NEW w \in Agent,
             rec' = [rec EXCEPT !.call = "service", !.agent = w], UNCHANGED fresh
      PROVE  /\ rec' \in Reconciling \cup {Idle}
             /\ fresh' \in BOOLEAN
             /\ FreshIsStored'
             /\ RecCalls'
  <2>1. rec \in Reconciling
    BY <1>4, RecBusy DEF BaseInv
  <2>2. rec' \in Reconciling /\ rec'.call = "service"
    BY <1>4, <2>1 DEF Reconciling, Calls
  <2>3. fresh = FALSE
    BY <1>4 DEF BaseInv, TypeOK, FreshIsStored, Updates
  <2> QED BY <1>4, <2>2, <2>3 DEF FreshIsStored, RecCalls
<1> QED BY <1>1, <1>2, <1>3, <1>4 DEF RecStep

\* The steps of the shape Step preserve BaseInv.
LEMMA BaseStep ==
    ASSUME BaseInv, Step
    PROVE  BaseInv'
<1>1. UNCHANGED <<agentCache, podCache, serviceCache>>
  BY DEF Step, caches
<1>2. CacheCurrent' /\ FreshIsStored' /\ RecCalls'
  BY <1>1, AgentStepTypes, RecStepFacts DEF BaseInv, Step
<1>3. TypeOK'
  BY <1>1, AgentStepTypes, PodStepTypes, RecStepFacts DEF BaseInv, Step, TypeOK, RestTypes
<1> QED BY <1>2, <1>3 DEF BaseInv

\* A version that arrives leaves the last one the stored one.
LEMMA BaseDeliverAgent ==
    ASSUME BaseInv, DeliverAgent
    PROVE  BaseInv'
<1>1. agentCache' \in Agent \cup {NoAgent} /\ agentEvents' \in Seq(Agent \cup {NoAgent})
  BY DEF BaseInv, TypeOK, DeliverAgent
<1>2. CacheCurrent'
  <2>1. /\ agentEvents \in Seq(Agent \cup {NoAgent}) /\ agentEvents # <<>>
        /\ agentCache' = Head(agentEvents) /\ agentEvents' = Tail(agentEvents)
        /\ agent' = agent /\ agentEvents[Len(agentEvents)] = agent
    BY DEF BaseInv, TypeOK, CacheCurrent, DeliverAgent
  <2>2. CASE Len(agentEvents) = 1
    BY <2>1, <2>2, TailFacts DEF CacheCurrent
  <2>3. CASE Len(agentEvents) # 1
    <3>1. /\ Tail(agentEvents) # <<>>
          /\ Len(Tail(agentEvents)) \in 1..Len(Tail(agentEvents))
          /\ Len(Tail(agentEvents)) + 1 = Len(agentEvents)
      BY <2>1, <2>3, TailFacts
    <3>2. Tail(agentEvents)[Len(Tail(agentEvents))] = agentEvents[Len(agentEvents)]
      BY <2>1, <3>1, TailFacts
    <3> QED BY <2>1, <3>1, <3>2 DEF CacheCurrent
  <2> QED BY <2>2, <2>3
<1>3. TypeOK'
  BY <1>1 DEF BaseInv, TypeOK, DeliverAgent, KeepPods, KeepService, healVars
<1>4. FreshIsStored' /\ RecCalls'
  BY DEF BaseInv, DeliverAgent, FreshIsStored, RecCalls, specChanged
<1> QED BY <1>2, <1>3, <1>4 DEF BaseInv

\* Versions of Pods that arrive keep their type.
LEMMA BaseDeliverPods ==
    ASSUME BaseInv, DeliverPods
    PROVE  BaseInv'
<1>1. podCache' \in PodMap /\ podEvents' \in Seq(PodMap)
  BY DEF BaseInv, TypeOK, DeliverPods
<1>2. TypeOK'
  BY <1>1 DEF BaseInv, TypeOK, DeliverPods, KeepAgent, KeepService, healVars
<1> QED BY <1>2
    DEF BaseInv, DeliverPods, KeepAgent, FreshIsStored, CacheCurrent, RecCalls, specChanged

\* Versions of the Service that arrive keep their type.
LEMMA BaseDeliverService ==
    ASSUME BaseInv, DeliverService
    PROVE  BaseInv'
<1>1. /\ serviceCache' \in Service \cup {NoService}
      /\ serviceEvents' \in Seq(Service \cup {NoService})
  BY DEF BaseInv, TypeOK, DeliverService
<1>2. TypeOK'
  BY <1>1 DEF BaseInv, TypeOK, DeliverService, KeepAgent, KeepPods, healVars
<1> QED BY <1>2
    DEF BaseInv, DeliverService, KeepAgent, FreshIsStored, CacheCurrent, RecCalls, specChanged

\* After a restart the cache is current and no Reconcile runs.
LEMMA BaseRestart ==
    ASSUME BaseInv, Restart
    PROVE  BaseInv'
<1>1. budget.crashes + 1 \in Nat
  BY DEF BaseInv, TypeOK, Budget
<1>2. budget' \in Budget
  BY <1>1 DEF BaseInv, TypeOK, Budget, Restart
<1>3. TypeOK'
  <2>1. <<>> \in Seq(Agent \cup {NoAgent}) /\ <<>> \in Seq(PodMap)
        /\ <<>> \in Seq(Service \cup {NoService})
    OBVIOUS
  <2>2. {} \in SUBSET Healer
    OBVIOUS
  <2> QED BY <1>2, <2>1, <2>2 DEF BaseInv, TypeOK, Restart
<1> QED BY <1>3 DEF BaseInv, Restart, FreshIsStored, CacheCurrent, RecCalls, Idle

\* What FirstCall has found out of the Agent and the Pod.
LEMMA FirstCallFacts ==
    ASSUME NEW a \in Agent, NEW p \in Pod \cup {NoPod}
    PROVE  LET c == FirstCall(a, p)
           IN  /\ c \in {"pausePod", "driftStatus", "syncStatus", "deletionPod"} => p # NoPod
               /\ c = "driftStatus" => specChanged(a, p)
               /\ c = "createPod" => p = NoPod /\ ~a.spec.paused
               /\ c \in {"deletionPod", "removeFinalizer"} => a.deleting
               /\ c # "driftPod"
<1>1. a.deleting \in BOOLEAN /\ a.spec.paused \in BOOLEAN
  BY DEF Agent, AgentSpec
<1> QED BY <1>1 DEF FirstCall

\* A Reconcile begins with what its first call needs.
LEMMA BaseReconcile ==
    ASSUME BaseInv, Reconcile
    PROVE  BaseInv'
<1>1. CASE agentCache = NoAgent /\ UNCHANGED <<rec, fresh>>
  BY <1>1 DEF BaseInv, TypeOK, Reconcile, KeepAgent, KeepPods, KeepService, caches, healVars,
              FreshIsStored, CacheCurrent, RecCalls, specChanged
<1>2. CASE /\ agentCache # NoAgent
           /\ \E pod \in findAgentPod :
                LET first == FirstCall(agentCache, pod)
                IN  /\ rec' = [call |-> first, agent |-> agentCache, pod |-> pod]
                    /\ fresh' = (first \in Updates /\ agentEvents = <<>>)
  <2>1. PICK pod \in findAgentPod :
            /\ rec' = [call |-> FirstCall(agentCache, pod), agent |-> agentCache, pod |-> pod]
            /\ fresh' = (FirstCall(agentCache, pod) \in Updates /\ agentEvents = <<>>)
    BY <1>2
  <2>2. pod \in Pod \cup {NoPod} /\ agentCache \in Agent
    BY <1>2 DEF BaseInv, findAgentPod, TypeOK, PodMap
  <2>3. rec' \in Reconciling
    BY <2>1, <2>2, FirstCallType DEF Reconciling
  <2>4. TypeOK'
    BY <2>1, <2>3 DEF BaseInv, TypeOK, Reconcile, KeepAgent, KeepPods, KeepService, caches, healVars
  <2>5. FreshIsStored' /\ CacheCurrent'
    BY <2>1 DEF BaseInv, FreshIsStored, CacheCurrent, Reconcile, KeepAgent, caches
  <2>6. RecCalls'
    BY <2>1, <2>2, FirstCallFacts DEF RecCalls, specChanged
  <2> QED BY <2>4, <2>5, <2>6 DEF BaseInv
<1> QED BY <1>1, <1>2 DEF Reconcile

\* Every step preserves BaseInv.
LEMMA BaseInductive ==
    ASSUME BaseInv, [Next]_vars
    PROVE  BaseInv'
<1>1. CASE Next
  BY <1>1, NextShape, BaseStep, BaseDeliverAgent, BaseDeliverPods, BaseDeliverService,
     BaseRestart, BaseReconcile
<1>2. CASE UNCHANGED vars
  BY <1>2 DEF vars, BaseInv, TypeOK, FreshIsStored, CacheCurrent, RecCalls, specChanged
<1> QED BY <1>1, <1>2

\* BaseInv holds at the beginning.
LEMMA BaseInit == Init => BaseInv
<1>1. NoPods \in PodMap
  BY DEF NoPods, PodMap
<1>2. <<>> \in Seq(Agent \cup {NoAgent}) /\ <<>> \in Seq(PodMap)
      /\ <<>> \in Seq(Service \cup {NoService})
  OBVIOUS
<1>3. [ops |-> 0, faults |-> 0, timeouts |-> 0, crashes |-> 0] \in Budget
  BY DEF Budget
<1>4. Init => TypeOK
  <2> SUFFICES ASSUME Init PROVE TypeOK
    OBVIOUS
  <2>1. /\ agent \in Agent \cup {NoAgent} /\ agentCache \in Agent \cup {NoAgent}
        /\ agentEvents \in Seq(Agent \cup {NoAgent})
        /\ pods \in PodMap /\ podEvents \in Seq(PodMap) /\ podCache \in PodMap
    BY <1>1, <1>2 DEF Init
  <2>2. /\ service \in Service \cup {NoService} /\ serviceCache \in Service \cup {NoService}
        /\ serviceEvents \in Seq(Service \cup {NoService})
        /\ rec \in Reconciling \cup {Idle} /\ fresh \in BOOLEAN /\ queued \in BOOLEAN
    BY <1>2 DEF Init
  <2>3. /\ healers \in SUBSET Healer
        /\ history \in SUBSET (Reasons \X Nat)
        /\ buried \in SUBSET [uid : Nat, spec : AgentSpec]
        /\ healed \in SUBSET Nat /\ lastUID \in Nat /\ budget \in Budget
    BY <1>3 DEF Init
  <2> QED BY <2>1, <2>2, <2>3 DEF TypeOK
<1>5. Init => FreshIsStored /\ CacheCurrent /\ RecCalls
  BY DEF Init, FreshIsStored, CacheCurrent, RecCalls, Idle
<1> QED BY <1>4, <1>5 DEF BaseInv

\* Every value stays in its type: in particular no Update or patch is applied to an
\* Agent that is gone, and no goroutine makes more than MaxAttempts attempts.
THEOREM TypeCorrect == Spec => []TypeOK
<1>1. BaseInv => TypeOK
  BY DEF BaseInv
<1> QED BY <1>1, BaseInit, BaseInductive, PTL DEF Spec

=============================================================================
