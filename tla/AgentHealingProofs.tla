-------------------------- MODULE AgentHealingProofs --------------------------
(***************************************************************************)
(* Self-healing recreates what was deleted, and once.  handleDeletion      *)
(* starts the goroutine after its Update has let the Agent go: the Update  *)
(* is checked against the version that was read, so the copy the goroutine *)
(* holds is the last version of an Agent that is gone for good.            *)
(*                                                                         *)
(* This needs that the orchestrator's finalizer is the only one: with      *)
(* foreground cascading the Agent outlives the Update.  That an Agent is   *)
(* resurrected only once also needs that no answer is lost, as a goroutine *)
(* that misses the answer to its Create may create the Agent again.        *)
(***************************************************************************)
EXTENDS AgentControllerProofs

\* The orchestrator's finalizer is what keeps a deleted Agent.
OneFinalizer ==
    agent # NoAgent =>
        /\ foregroundFinalizer \notin agent.finalizers
        /\ agent.deleting => agentFinalizer \in agent.finalizers

\* The stored Agent is not one that is gone, and no uid is given twice.
GoneForGood ==
    /\ \A b \in buried : b.uid <= lastUID /\ (agent # NoAgent => b.uid # agent.uid)
    /\ agent # NoAgent => agent.uid <= lastUID
    /\ \A u \in healed : \E b \in buried : b.uid = u

\* A goroutine stands for an Agent that is gone, whose last spec it holds.
HealersOfBuried ==
    \A h \in healers : /\ [uid |-> h.uid, spec |-> h.spec] \in buried
                       /\ ~h.spec.selfHealingDisabled

\* Without lost answers, a deletion has one goroutine, and unless this only has to put
\* the resurrection on record, there was none.
HealersUnique ==
    MaxTimeouts = 0 =>
        /\ \A g, h \in healers : g.uid = h.uid => g = h
        /\ \A h \in healers : h.at # "record" => h.uid \notin healed

HealInv == OneFinalizer /\ GoneForGood /\ HealersOfBuried /\ HealersUnique

-----------------------------------------------------------------------------
(* What the steps that are not about resurrection do to the Agent.         *)

\* The stored Agent is written, or it goes.
Edit ==
    /\ agent # NoAgent
    /\ UNCHANGED lastUID
    /\ \/ UNCHANGED <<agent, buried>>
       \/ agent' \in Agent /\ agent'.uid = agent.uid /\ OneFinalizer' /\ UNCHANGED buried
       \/ agent' = NoAgent /\ \E s : buried' = buried \cup {[uid |-> agent.uid, spec |-> s]}

\* The stored Agent stays as it is.
Calm == UNCHANGED <<agent, buried, lastUID>>

\* The step leaves the spec as it is, of an Agent that goes too.
SpecKept ==
    agent # NoAgent =>
        /\ agent' # NoAgent => agent'.uid = agent.uid /\ agent'.spec = agent.spec
        /\ buried' \subseteq buried \cup {[uid |-> agent.uid, spec |-> agent.spec]}

\* A write of the Agent without foreground finalizer edits it or lets it go.
LEMMA PutEdit ==
    ASSUME agent # NoAgent, UNCHANGED lastUID, NEW a \in Agent, a.uid = agent.uid,
           foregroundFinalizer \notin a.finalizers, Put(a)
    PROVE  Edit /\ (a.spec = agent.spec => SpecKept)
<1>0. a.spec = agent.spec => SpecKept
  BY DEF Put, KeepAgent, Publish, SpecKept
<1>1. CASE KeepAgent
  BY <1>0, <1>1 DEF Edit, KeepAgent
<1>2. CASE ~(a.deleting /\ a.finalizers = {}) /\ Publish(a) /\ UNCHANGED buried
  <2>1. a.deleting => agentFinalizer \in a.finalizers
    BY <1>2 DEF Agent
  <2> QED BY <1>0, <1>2, <2>1 DEF Edit, OneFinalizer, Publish
<1>3. CASE Publish(NoAgent) /\ buried' = buried \cup {[uid |-> a.uid, spec |-> a.spec]}
  BY <1>0, <1>3 DEF Edit, Publish
<1> QED BY <1>1, <1>2, <1>3 DEF Put

\* A status patch leaves the uid, the spec and the finalizers as they are.
LEMMA StatusEdit ==
    ASSUME TypeOK, HealInv, rec.agent \in Agent, UNCHANGED lastUID, agent # NoAgent,
           NEW b \in AgentStatus, NEW p \in AgentPhases, NEW n \in PodNames \cup {NoPod},
           updateStatus(b, p, n)
    PROVE  Edit /\ SpecKept
<1>1. WithStatus(b, p, n) \in Agent
  BY WithStatusType
<1>2. /\ agent \in Agent
      /\ WithStatus(b, p, n).uid = agent.uid /\ WithStatus(b, p, n).finalizers = agent.finalizers
      /\ WithStatus(b, p, n).spec = agent.spec
  BY DEF WithStatus, TypeOK, Agent
<1>3. CASE Put(WithStatus(b, p, n))
  BY <1>1, <1>2, <1>3, PutEdit DEF HealInv, OneFinalizer
<1>4. CASE Publish(agent) /\ UNCHANGED buried
  BY <1>4 DEF Edit, Publish, SpecKept
<1> QED BY <1>3, <1>4 DEF updateStatus

\* So does one whose error is dropped, or it does nothing.
LEMMA TryStatusEdit ==
    ASSUME TypeOK, HealInv, rec.agent \in Agent, UNCHANGED lastUID,
           NEW b \in AgentStatus, NEW p \in AgentPhases, NEW n \in PodNames \cup {NoPod},
           TryStatus(b, p, n)
    PROVE  (Edit \/ Calm) /\ SpecKept
BY StatusEdit DEF TryStatus, KeepAgent, Calm, SpecKept

\* Apart from the Update of handleDeletion, the calls of a Reconcile only edit the
\* Agent, and none edits its spec.
LEMMA ControllerEdits ==
    ASSUME BaseInv, HealInv, ControllerStep, ~RemoveFinalizer
    PROVE  (Edit \/ Calm) /\ SpecKept /\ UNCHANGED <<healers, healed>>
<1>0. TypeOK
  BY DEF BaseInv
<1>1. CASE Reconcile
  BY <1>1 DEF Reconcile, KeepAgent, healVars, Calm, SpecKept
<1>2. CASE AddFinalizer
  <2>1. CASE KeepAgent
    BY <1>2, <2>1 DEF AddFinalizer, KeepAgent, healVars, Calm, SpecKept
  <2>2. CASE fresh /\ Put([agent EXCEPT !.finalizers = @ \cup {agentFinalizer}])
    <3> DEFINE a == [agent EXCEPT !.finalizers = @ \cup {agentFinalizer}]
    <3>1. agent \in Agent /\ agent # NoAgent
      BY <1>0, <1>2, <2>2, RecBusy, NullsAreNoObjects DEF BaseInv, FreshIsStored, AddFinalizer
    <3>2. /\ a \in Agent /\ a.uid = agent.uid /\ a.spec = agent.spec
          /\ foregroundFinalizer \notin a.finalizers
      BY <3>1 DEF Agent, HealInv, OneFinalizer, agentFinalizer, foregroundFinalizer
    <3>3. Edit /\ SpecKept
      BY <1>2, <2>2, <3>1, <3>2, PutEdit DEF AddFinalizer, healVars
    <3> QED BY <1>2, <3>3 DEF AddFinalizer, healVars
  <2> QED BY <1>2, <2>1, <2>2 DEF AddFinalizer, UpdateAccepted
<1>3. CASE PausePod
  BY <1>3 DEF PausePod, KeepAgent, Calm, SpecKept
<1>4. CASE PauseStatus
  <2>1. rec.agent \in Agent /\ rec.agent.status \in AgentStatus
    BY <1>0, <1>4, RecBusy DEF PauseStatus, Agent
  <2> QED BY <1>0, <1>4, <2>1, TryStatusEdit DEF PauseStatus, AgentPhases, healVars
<1>5. CASE CreatePod
  BY <1>5 DEF CreatePod, KeepAgent, Calm, SpecKept
<1>6. CASE CreateFailed
  <2>1. rec.agent \in Agent /\ rec.agent.status \in AgentStatus
    BY <1>0, <1>6, RecBusy DEF CreateFailed, Agent
  <2>2. setCondition(rec.agent.status, "Failed") \in AgentStatus
    BY <2>1 DEF setCondition, AgentStatus, AgentConditionTypes
  <2> QED BY <1>0, <1>6, <2>1, <2>2, TryStatusEdit DEF CreateFailed, AgentPhases
<1>7. CASE DriftStatus
  <2>1. rec.agent \in Agent /\ rec.agent.status \in AgentStatus /\ rec.pod.name \in PodNames
    BY <1>0, <1>7, RecBusy DEF DriftStatus, Agent, BaseInv, RecCalls, Pod
  <2> QED BY <1>0, <1>7, <2>1, TryStatusEdit DEF DriftStatus, AgentPhases
<1>8. CASE DriftPod
  BY <1>8 DEF DriftPod, KeepAgent, healVars, Calm, SpecKept
<1>9. CASE SyncStatus
  <2>1. /\ rec.agent \in Agent /\ rec.agent.status \in AgentStatus
        /\ rec.pod \in Pod /\ rec.pod.name \in PodNames
    BY <1>0, <1>9, RecBusy DEF SyncStatus, Agent, BaseInv, RecCalls, Pod
  <2>2. podPhaseToAgentPhase(rec.pod.phase) \in AgentPhases
    BY <2>1 DEF podPhaseToAgentPhase, Pod, PodPhases, AgentPhases
  <2> QED BY <1>0, <1>9, <2>1, <2>2, StatusEdit DEF SyncStatus, KeepAgent, healVars, Calm, SpecKept
<1>10. CASE reconcileService
  BY <1>10 DEF reconcileService, KeepAgent, healVars, Calm, SpecKept
<1>11. CASE ServiceStatus
  <2> DEFINE name == IF wantedPort = 0 THEN "" ELSE "service"
             a == [agent EXCEPT !.status.serviceName =
                      Merged(rec.agent.status.serviceName, name, @)]
  <2>1. CASE KeepAgent
    BY <1>11, <2>1 DEF ServiceStatus, KeepAgent, healVars, Calm, SpecKept
  <2>2. CASE agent # NoAgent /\ Put(a)
    <3>1. agent \in Agent /\ agent.status \in AgentStatus
      BY <2>2 DEF BaseInv, TypeOK, Agent
    <3>2. Merged(rec.agent.status.serviceName, name, agent.status.serviceName) \in {"", "service"}
      BY <3>1 DEF Merged, AgentStatus
    <3> HIDE DEF name
    <3>3. /\ a \in Agent /\ a.uid = agent.uid /\ a.finalizers = agent.finalizers
          /\ a.spec = agent.spec
      BY <3>1, <3>2 DEF Agent, AgentStatus
    <3>4. Edit /\ SpecKept
      BY <1>11, <2>2, <3>3, PutEdit DEF ServiceStatus, healVars, HealInv, OneFinalizer
    <3> QED BY <1>11, <3>4 DEF ServiceStatus, healVars
  <2> QED BY <1>11, <2>1, <2>2 DEF ServiceStatus
<1>12. CASE DeletionPod
  BY <1>12 DEF DeletionPod, KeepAgent, healVars, Calm, SpecKept
<1> QED BY <1>1, <1>2, <1>3, <1>4, <1>5, <1>6, <1>7, <1>8, <1>9, <1>10, <1>11, <1>12
    DEF ControllerStep

\* So do clients and the cluster, as long as none deletes in the foreground.
LEMMA OtherEdits ==
    ASSUME BaseInv, HealInv, "foreground" \notin Cascades,
           ClientStep \/ ClusterStep, ~ClientCreate
    PROVE  (Edit \/ Calm) /\ UNCHANGED <<healers, healed>>
<1>1. CASE ClientPatch
  <2>1. agent \in Agent
    BY <1>1 DEF BaseInv, TypeOK, ClientPatch, WriteSpec
  <2>2. PICK s \in Specs \ {agent.spec} : Put(WithSpec(agent, s))
    BY <1>1 DEF ClientPatch, WriteSpec
  <2>3. WithSpec(agent, s) \in Agent
    BY <2>1, SpecsAssumption, WithSpecType
  <2>4. WithSpec(agent, s).uid = agent.uid /\ WithSpec(agent, s).finalizers = agent.finalizers
    BY <2>1 DEF WithSpec, Agent
  <2>5. Edit
    BY <1>1, <2>2, <2>3, <2>4, PutEdit DEF ClientPatch, WriteSpec, HealInv, OneFinalizer
  <2> QED BY <1>1, <2>5 DEF ClientPatch, WriteSpec, ControllerUnchanged
<1>7. CASE ClientAnnotate
  BY <1>7 DEF ClientAnnotate, ControllerUnchanged, Publish, Edit
<1>2. CASE ClientDelete
  <2>1. agent \in Agent
    BY <1>2 DEF BaseInv, TypeOK, ClientDelete, DeleteAgent
  <2> DEFINE a == [agent EXCEPT !.deleting = TRUE, !.generation = @ + 1,
                                !.finalizers = @ \cup {}]
  <2>2. Put(a)
    BY <1>2, CascadesAssumption DEF ClientDelete, DeleteAgent
  <2>3. agent.generation + 1 \in Nat /\ agent.finalizers \cup {} = agent.finalizers
    BY <2>1 DEF Agent
  <2>4. a \in Agent /\ a.uid = agent.uid /\ a.finalizers = agent.finalizers
    BY <2>1, <2>3 DEF Agent
  <2>5. Edit
    BY <1>2, <2>2, <2>4, PutEdit DEF ClientDelete, DeleteAgent, HealInv, OneFinalizer
  <2> QED BY <1>2, <2>5 DEF ClientDelete, DeleteAgent, ControllerUnchanged
<1>3. CASE ClientDeleteService \/ \E n \in PodNames : ClientDeletePod(n)
  BY <1>3 DEF ClientDeleteService, ClientDeletePod, KeepAgent, ControllerUnchanged, Calm
<1>4. CASE DeliverAgent \/ DeliverPods \/ DeliverService
  BY <1>4 DEF DeliverAgent, DeliverPods, DeliverService, KeepAgent, healVars, Calm
<1>5. ~CollectAgent
  BY DEF CollectAgent, ForegroundDeletion, HealInv, OneFinalizer
<1>6. CASE CollectService \/ \E n \in PodNames : KubeletPhase(n) \/ KubeletRemove(n) \/ CollectPod(n)
  BY <1>6 DEF CollectService, KubeletPhase, KubeletRemove, CollectPod, KeepAgent,
              ControllerUnchanged, Calm
<1> QED BY <1>1, <1>2, <1>3, <1>4, <1>5, <1>6, <1>7 DEF ClientStep, ClusterStep

-----------------------------------------------------------------------------
(* HealInv is inductive.                                                   *)

\* Fewer goroutines, or the same ones, and an Agent that is written or goes.
LEMMA EditHealInv ==
    ASSUME BaseInv, HealInv, Edit \/ Calm, UNCHANGED healed, healers' \subseteq healers
    PROVE  HealInv'
<1>1. OneFinalizer'
  BY DEF HealInv, OneFinalizer, Edit, Calm
<1>2. GoneForGood'
  BY DEF HealInv, GoneForGood, Edit, Calm
<1>3. HealersOfBuried'
  BY DEF HealInv, HealersOfBuried, Edit, Calm
<1>4. HealersUnique'
  BY DEF HealInv, HealersUnique
<1> QED BY <1>1, <1>2, <1>3, <1>4 DEF HealInv

\* A new Agent has a uid no other has had.
LEMMA CreateHealInv ==
    ASSUME BaseInv, HealInv, NEW s \in AgentSpec, NEW f \in Nat, Create(s, f)
    PROVE  /\ OneFinalizer'
           /\ \A b \in buried' : b.uid <= lastUID' /\ (agent' # NoAgent => b.uid # agent'.uid)
           /\ agent' # NoAgent => agent'.uid <= lastUID'
           /\ buried' = buried
<1>1. /\ agent' = NewAgent(lastUID + 1, s, f) /\ lastUID' = lastUID + 1 /\ buried' = buried
      /\ lastUID \in Nat /\ \A b \in buried : b.uid \in Nat
  BY DEF Create, Publish, BaseInv, TypeOK
<1>2. agent'.uid = lastUID + 1 /\ agent'.finalizers = {} /\ ~agent'.deleting
  BY <1>1 DEF NewAgent
<1> QED BY <1>1, <1>2 DEF HealInv, OneFinalizer, GoneForGood

\* A goroutine that goes on stands for the same Agent.
LEMMA RetryKeeps ==
    ASSUME TypeOK, NEW h \in healers, Retry(h)
    PROVE  \E k : /\ k.uid = h.uid /\ k.spec = h.spec
                  /\ healers' \subseteq (healers \ {h}) \cup {k}
<1>1. h \in Healer
  BY DEF TypeOK
<1> DEFINE k == [h EXCEPT !.attempt = @ + 1, !.at = "create"]
<1>2. k.uid = h.uid /\ k.spec = h.spec
  BY <1>1 DEF Healer
<1>3. healers' \subseteq (healers \ {h}) \cup {k}
  BY DEF Retry
<1> QED BY <1>2, <1>3

\* One goroutine in place of another that stands for the same Agent.
LEMMA ReplaceHealer ==
    ASSUME HealInv, UNCHANGED <<healed, buried>>, NEW h \in healers, NEW k,
           k.uid = h.uid, k.spec = h.spec, h.at # "record",
           healers' \subseteq (healers \ {h}) \cup {k}
    PROVE  HealersOfBuried' /\ HealersUnique'
<1>1. HealersOfBuried'
  BY DEF HealInv, HealersOfBuried
<1>2. HealersUnique'
  BY DEF HealInv, HealersUnique
<1> QED BY <1>1, <1>2

\* A goroutine that creates the Agent goes on to its entry, unless the answer is lost.
LEMMA HealCreateHealInv ==
    ASSUME BaseInv, HealInv, NEW h \in healers, HealCreate(h)
    PROVE  HealInv'
<1>0. TypeOK /\ h \in Healer /\ h.spec \in AgentSpec /\ h.uid \in Nat
  BY DEF BaseInv, TypeOK, Healer
<1>1. CASE Create(h.spec, h.uid) /\ healed' = healed \cup {h.uid}
           /\ ((Unanswered /\ Retry(h)) \/ Proceed(h, "record"))
  <2>1. OneFinalizer' /\ buried' = buried
    BY <1>0, <1>1, CreateHealInv
  <2>2. [uid |-> h.uid, spec |-> h.spec] \in buried
    BY DEF HealInv, HealersOfBuried
  <2>3. GoneForGood'
    BY <1>0, <1>1, <2>1, <2>2, CreateHealInv DEF HealInv, GoneForGood
  <2>4. CASE Proceed(h, "record")
    <3> DEFINE k == [h EXCEPT !.at = "record"]
    <3>0. k.uid = h.uid /\ k.spec = h.spec /\ k.at = "record" /\ healers' = (healers \ {h}) \cup {k}
      BY <1>0, <2>4 DEF Healer, Proceed
    <3> HIDE DEF k
    <3>1. HealersOfBuried'
      BY <2>1, <3>0 DEF HealInv, HealersOfBuried
    <3>2. HealersUnique'
      BY <1>1, <3>0 DEF HealInv, HealersUnique
    <3> QED BY <2>1, <2>3, <3>1, <3>2 DEF HealInv
  <2>5. CASE Unanswered /\ Retry(h)
    <3>1. MaxTimeouts # 0
      BY <1>0, <2>5 DEF Unanswered, TypeOK, Budget
    <3>2. HealersUnique'
      BY <3>1 DEF HealersUnique
    <3>3. HealersOfBuried'
      <4>1. PICK k : k.uid = h.uid /\ k.spec = h.spec /\ healers' \subseteq (healers \ {h}) \cup {k}
        BY <1>0, <2>5, RetryKeeps
      <4> QED BY <2>1, <4>1 DEF HealInv, HealersOfBuried
    <3> QED BY <2>1, <2>3, <3>2, <3>3 DEF HealInv
  <2> QED BY <1>1, <2>4, <2>5
<1>2. CASE KeepAgent /\ UNCHANGED <<lastUID, healed>>
           /\ (Retry(h) \/ Proceed(h, "get"))
  <2>1. \E k : k.uid = h.uid /\ k.spec = h.spec /\ healers' \subseteq (healers \ {h}) \cup {k}
    <3>1. [h EXCEPT !.at = "get"].uid = h.uid /\ [h EXCEPT !.at = "get"].spec = h.spec
      BY <1>0 DEF Healer
    <3> QED BY <1>0, <1>2, <3>1, RetryKeeps DEF Proceed
  <2>2. HealersOfBuried' /\ HealersUnique'
    <3>1. h.at # "record" /\ UNCHANGED <<healed, buried>>
      BY <1>2 DEF HealCreate, KeepAgent
    <3> QED BY <2>1, <3>1, ReplaceHealer
  <2>3. OneFinalizer' /\ GoneForGood'
    BY <1>2 DEF KeepAgent, HealInv, OneFinalizer, GoneForGood
  <2> QED BY <2>2, <2>3 DEF HealInv
<1> QED BY <1>1, <1>2 DEF HealCreate

\* A goroutine that finds an Agent in its way stops or tries again.
LEMMA HealGetHealInv ==
    ASSUME BaseInv, HealInv, NEW h \in healers, HealGet(h)
    PROVE  HealInv'
<1>1. UNCHANGED <<agent, buried, lastUID, healed>>
  BY DEF HealGet, KeepAgent
<1>2. CASE healers' = healers \ {h}
  BY <1>1, <1>2, EditHealInv DEF Calm
<1>3. CASE Retry(h)
  <2>0. h.at # "record"
    BY DEF HealGet
  <2>1. HealersOfBuried' /\ HealersUnique'
    BY <1>1, <1>3, <2>0, RetryKeeps, ReplaceHealer DEF BaseInv
  <2>2. OneFinalizer' /\ GoneForGood'
    BY <1>1 DEF HealInv, OneFinalizer, GoneForGood
  <2> QED BY <2>1, <2>2 DEF HealInv
<1> QED BY <1>2, <1>3 DEF HealGet

\* A goroutine that has put the resurrection on record is done.
LEMMA HealRecordHealInv ==
    ASSUME BaseInv, HealInv, NEW h \in healers, HealRecord(h)
    PROVE  HealInv'
BY EditHealInv DEF HealRecord, KeepAgent, Calm

\* The Update of handleDeletion lets the Agent go in the version that was read.
LEMMA RemoveFinalizerHealInv ==
    ASSUME BaseInv, HealInv, RemoveFinalizer
    PROVE  HealInv'
<1>1. CASE KeepAgent /\ UNCHANGED healers
  BY <1>1, EditHealInv DEF RemoveFinalizer, KeepAgent, Calm
<1>2. CASE /\ fresh /\ Put([agent EXCEPT !.finalizers = @ \ {agentFinalizer}])
           /\ (Spawn \/ UNCHANGED healers)
  <2> DEFINE a == [agent EXCEPT !.finalizers = @ \ {agentFinalizer}]
             grave == [uid |-> agent.uid, spec |-> agent.spec]
  <2>1. /\ rec.agent = agent /\ agent \in Agent /\ agent # NoAgent /\ agent.deleting
        /\ UNCHANGED <<lastUID, healed>>
    BY <1>2, RecBusy, NullsAreNoObjects DEF BaseInv, FreshIsStored, RecCalls, RemoveFinalizer
  <2>2. a.finalizers = {} /\ a.deleting /\ a # agent /\ a.uid = agent.uid /\ a.spec = agent.spec
    BY <2>1 DEF HealInv, OneFinalizer, Agent
  <2>3. agent' = NoAgent /\ buried' = buried \cup {grave}
    BY <1>2, <2>2 DEF Put, Publish
  <2>4. OneFinalizer' /\ GoneForGood'
    BY <2>1, <2>3 DEF HealInv, OneFinalizer, GoneForGood
  <2>5. CASE UNCHANGED healers
    <3>1. HealersOfBuried' /\ HealersUnique'
      BY <2>1, <2>3, <2>5 DEF HealInv, HealersOfBuried, HealersUnique
    <3> QED BY <2>4, <3>1 DEF HealInv
  <2>6. ASSUME NEW g \in HealerIds, ~agent.spec.selfHealingDisabled,
               healers' = healers \cup {[gid |-> g, uid |-> agent.uid, spec |-> agent.spec,
                                         attempt |-> 1, at |-> "create"]}
        PROVE  HealInv'
    <3> DEFINE k == [gid |-> g, uid |-> agent.uid, spec |-> agent.spec,
                     attempt |-> 1, at |-> "create"]
    <3>0. k.uid = agent.uid /\ k.spec = agent.spec /\ healers' = healers \cup {k}
      BY <2>6
    <3> HIDE DEF k
    <3>1. HealersOfBuried'
      BY <2>3, <2>6, <3>0 DEF HealInv, HealersOfBuried
    <3>2. \A h \in healers : h.uid # agent.uid
      BY <2>1 DEF HealInv, HealersOfBuried, GoneForGood
    <3>3. agent.uid \notin healed
      BY <2>1 DEF HealInv, GoneForGood
    <3>4. HealersUnique'
      BY <2>1, <3>0, <3>2, <3>3 DEF HealInv, HealersUnique
    <3> QED BY <2>4, <3>1, <3>4 DEF HealInv
  <2> QED BY <1>2, <2>1, <2>5, <2>6 DEF Spawn
<1> QED BY <1>1, <1>2 DEF RemoveFinalizer, UpdateAccepted

\* Every step preserves HealInv.
LEMMA HealInductive ==
    ASSUME BaseInv, HealInv, "foreground" \notin Cascades, [Next]_vars
    PROVE  HealInv'
<1>1. CASE ControllerStep
  BY <1>1, RemoveFinalizerHealInv, ControllerEdits, EditHealInv
<1>2. CASE HealerStep
  BY <1>2, HealCreateHealInv, HealGetHealInv, HealRecordHealInv DEF HealerStep
<1>3. CASE ClientCreate
  <2>1. PICK s \in AgentSpec : Create(s, 0)
    BY <1>3, SpecsAssumption DEF ClientCreate, CreateAgent
  <2>2. UNCHANGED <<healers, healed>>
    BY <1>3 DEF ClientCreate, CreateAgent, ControllerUnchanged
  <2>3. OneFinalizer' /\ GoneForGood' /\ buried' = buried
    BY <2>1, <2>2, CreateHealInv DEF HealInv, GoneForGood
  <2> QED BY <2>2, <2>3 DEF HealInv, HealersOfBuried, HealersUnique
<1>4. CASE (ClientStep \/ ClusterStep) /\ ~ClientCreate
  BY <1>4, OtherEdits, EditHealInv
<1>5. CASE Restart
  BY <1>5, EditHealInv DEF Restart, Calm
<1>6. CASE UNCHANGED vars
  BY <1>6, EditHealInv DEF vars, Calm
<1> QED BY <1>1, <1>2, <1>3, <1>4, <1>5, <1>6 DEF Next

\* No goroutine runs at the beginning.
LEMMA HealInit == Init => HealInv
BY DEF Init, HealInv, OneFinalizer, GoneForGood, HealersOfBuried, HealersUnique

-----------------------------------------------------------------------------
(* The history.                                                            *)

\* A goroutine that is about to put a resurrection on record has made one.
RecordersHealed == \A h \in healers : h.at = "record" => h.uid \in healed

\* An entry that says Resurrected comes from a goroutine that puts it on record.
LEMMA OnlyHealersRecord ==
    ASSUME [Next]_vars, ~HealerStep, NEW e \in history' \ history
    PROVE  e[1] # "Resurrected"
<1>1. CASE ControllerStep
  <2>1. PICK r \in Reasons \ {"Resurrected"} : Record(r)
    BY <1>1 DEF ControllerStep, Reconcile, AddFinalizer, PausePod, PauseStatus, CreatePod,
                CreateFailed, DriftStatus, DriftPod, SyncStatus, reconcileService,
                ServiceStatus, DeletionPod, RemoveFinalizer, healVars, Reasons
  <2>2. e = <<r, rec.agent.uid>>
    BY <2>1 DEF Record, appendHistory, Entry
  <2> QED BY <2>1, <2>2
<1>2. CASE ClientStep
  BY <1>2 DEF ClientStep, ClientCreate, CreateAgent, ClientPatch, WriteSpec, ClientAnnotate,
              ClientDelete, DeleteAgent, ClientDeleteService, ClientDeletePod,
              ControllerUnchanged
<1>3. CASE ClusterStep
  BY <1>3 DEF ClusterStep, DeliverAgent, DeliverPods, DeliverService, CollectAgent,
              CollectService, KubeletPhase, KubeletRemove, CollectPod, healVars,
              ControllerUnchanged
<1>4. CASE Restart
  BY <1>4 DEF Restart
<1>5. CASE UNCHANGED vars
  BY <1>5 DEF vars
<1> QED BY <1>1, <1>2, <1>3, <1>4, <1>5 DEF Next

\* What has been made and what is gone stays so.
LEMMA HealedGrows ==
    ASSUME BaseInv, [Next]_vars
    PROVE  healed \subseteq healed' /\ buried \subseteq buried'
<1>1. CASE ControllerStep
  BY <1>1 DEF ControllerStep, Reconcile, AddFinalizer, PausePod, PauseStatus, CreatePod,
              CreateFailed, DriftStatus, DriftPod, SyncStatus, reconcileService,
              ServiceStatus, DeletionPod, RemoveFinalizer, healVars, KeepAgent, Put, Publish,
              TryStatus, updateStatus
<1>2. CASE HealerStep
  BY <1>2 DEF HealerStep, HealCreate, HealGet, HealRecord, Create, KeepAgent
<1>3. CASE ClientStep
  BY <1>3 DEF ClientStep, ClientCreate, CreateAgent, ClientPatch, WriteSpec, ClientAnnotate,
              ClientDelete, DeleteAgent, ClientDeleteService, ClientDeletePod, Create,
              ControllerUnchanged, KeepAgent, Put, Publish
<1>4. CASE ClusterStep
  BY <1>4 DEF ClusterStep, DeliverAgent, DeliverPods, DeliverService, CollectAgent,
              CollectService, KubeletPhase, KubeletRemove, CollectPod, healVars,
              ControllerUnchanged, KeepAgent, Put, Publish
<1>5. CASE Restart \/ UNCHANGED vars
  BY <1>5 DEF Restart, vars
<1> QED BY <1>1, <1>2, <1>3, <1>4, <1>5 DEF Next

\* Only a successful Create leads a goroutine to its entry.
LEMMA RecordersInductive ==
    ASSUME BaseInv, RecordersHealed, [Next]_vars
    PROVE  RecordersHealed'
<1>1. healed \subseteq healed'
  BY HealedGrows
<1>2. ASSUME NEW k \in healers', k \notin healers, k.at = "record"
      PROVE  k.uid \in healed'
  <2>1. CASE HealerStep
    <3>1. PICK h \in healers : HealCreate(h) \/ HealGet(h) \/ HealRecord(h)
      BY <2>1 DEF HealerStep
    <3>2. h \in Healer
      BY DEF BaseInv, TypeOK
    <3>3. ~Retry(h) /\ ~Proceed(h, "get") /\ ~(healers' = healers \ {h})
      BY <1>2, <3>2 DEF Retry, Proceed, Healer
    <3>4. Proceed(h, "record") /\ healed' = healed \cup {h.uid}
      BY <3>1, <3>3 DEF HealCreate, HealGet, HealRecord
    <3>5. k.uid = h.uid
      BY <1>2, <3>2, <3>4 DEF Proceed, Healer
    <3> QED BY <3>4, <3>5
  <2>2. CASE ControllerStep
    <3>1. Spawn
      BY <1>2, <2>2 DEF ControllerStep, Reconcile, AddFinalizer, PausePod, PauseStatus, CreatePod,
                CreateFailed, DriftStatus, DriftPod, SyncStatus, reconcileService,
                ServiceStatus, DeletionPod, RemoveFinalizer, healVars
    <3> QED BY <1>2, <3>1 DEF Spawn
  <2>3. CASE ClientStep \/ ClusterStep
    BY <1>2, <2>3 DEF ClientStep, ClientCreate, CreateAgent, ClientPatch, WriteSpec,
              ClientAnnotate, ClientDelete, DeleteAgent, ClientDeleteService, ClientDeletePod,
              ClusterStep, DeliverAgent, DeliverPods, DeliverService, CollectAgent,
              CollectService, KubeletPhase, KubeletRemove, CollectPod, healVars,
              ControllerUnchanged
  <2>4. CASE Restart \/ UNCHANGED vars
    BY <1>2, <2>4 DEF Restart, vars
  <2> QED BY <2>1, <2>2, <2>3, <2>4 DEF Next
<1> QED BY <1>1, <1>2 DEF RecordersHealed

\* An entry that is added speaks of a resurrection that was made, for an Agent that is
\* gone and wanted it.
LEMMA HistoryInductive ==
    ASSUME BaseInv, HealInv, RecordersHealed, HistoryIsTrue, [Next]_vars
    PROVE  HistoryIsTrue'
<1>1. healed \subseteq healed' /\ buried \subseteq buried'
  BY HealedGrows
<1>2. ASSUME NEW e \in history' \ history, e[1] = "Resurrected"
      PROVE  /\ e[2] \in healed
             /\ \E b \in buried : b.uid = e[2] /\ ~b.spec.selfHealingDisabled
  <2>1. PICK h \in healers : HealCreate(h) \/ HealGet(h) \/ HealRecord(h)
    BY <1>2, OnlyHealersRecord DEF HealerStep
  <2>2. h.at = "record" /\ appendHistory("Resurrected", h.uid)
    BY <1>2, <2>1 DEF HealCreate, HealGet, HealRecord
  <2>3. e[2] = h.uid
    BY <1>2, <2>2 DEF appendHistory, Entry
  <2>4. /\ h.uid \in healed /\ ~h.spec.selfHealingDisabled
        /\ [uid |-> h.uid, spec |-> h.spec] \in buried
    BY <2>2 DEF RecordersHealed, HealInv, HealersOfBuried
  <2> QED BY <2>3, <2>4
<1> QED BY <1>1, <1>2 DEF HistoryIsTrue

-----------------------------------------------------------------------------
(* The theorems.                                                           *)

\* An Agent that appears with the annotation of a resurrection was created by a
\* goroutine, with the spec and for the uid that the goroutine holds.
LEMMA ResurrectionByHealer ==
    ASSUME BaseInv, HealInv, "foreground" \notin Cascades, [Next]_vars, Resurrection
    PROVE  \E h \in healers : /\ agent'.restoredFrom = h.uid /\ agent'.spec = h.spec
                               /\ h.at = "create"
<1>0. ~Edit /\ ~Calm
  BY DEF Resurrection, Edit, Calm
<1>1. CASE HealerStep
  <2>1. PICK h \in healers : HealCreate(h) \/ HealGet(h) \/ HealRecord(h)
    BY <1>1 DEF HealerStep
  <2>2. Create(h.spec, h.uid) /\ h.at = "create"
    BY <2>1 DEF HealCreate, HealGet, HealRecord, KeepAgent, Resurrection
  <2> QED BY <2>2 DEF Create, Publish, NewAgent
<1>2. ~ClientCreate
  <2> SUFFICES ASSUME NEW s, Create(s, 0) PROVE FALSE
    BY DEF ClientCreate, CreateAgent
  <2>1. agent' = NewAgent(lastUID + 1, s, 0)
    BY DEF Create, Publish
  <2> QED BY <2>1 DEF NewAgent, Resurrection
<1>3. ~RemoveFinalizer
  <2> SUFFICES ASSUME RemoveFinalizer PROVE FALSE
    OBVIOUS
  <2>1. fresh
    BY DEF RemoveFinalizer, UpdateAccepted, KeepAgent, Resurrection
  <2> QED BY <2>1, RecBusy, NullsAreNoObjects
          DEF BaseInv, FreshIsStored, RemoveFinalizer, Resurrection
<1>4. ~Restart /\ ~UNCHANGED vars
  BY DEF Restart, vars, Resurrection
<1> QED BY <1>0, <1>1, <1>2, <1>3, <1>4, ControllerEdits, OtherEdits DEF Next

\* Without foreground cascading, the goroutines of resurrectAgentAsync recreate
\* Agents that are gone, with their last spec, and never one whose self-healing was
\* disabled when it went.
THEOREM HealingIsFaithful ==
    ASSUME "foreground" \notin Cascades
    PROVE  Spec => ResurrectsWhatWasDeleted
<1> DEFINE Inv == BaseInv /\ HealInv
           Faithful == Resurrection =>
               \E b \in buried : /\ b.uid = agent'.restoredFrom
                                 /\ b.spec = agent'.spec
                                 /\ ~b.spec.selfHealingDisabled
<1>1. Init => Inv
  BY BaseInit, HealInit
<1>2. Inv /\ [Next]_vars => Inv'
  BY BaseInductive, HealInductive
<1>3. Inv /\ [Next]_vars => [Faithful]_vars
  <2> SUFFICES ASSUME Inv, [Next]_vars, Resurrection
               PROVE  \E b \in buried : /\ b.uid = agent'.restoredFrom
                                        /\ b.spec = agent'.spec
                                        /\ ~b.spec.selfHealingDisabled
    OBVIOUS
  <2>1. PICK h \in healers : agent'.restoredFrom = h.uid /\ agent'.spec = h.spec
    BY ResurrectionByHealer
  <2>2. [uid |-> h.uid, spec |-> h.spec] \in buried /\ ~h.spec.selfHealingDisabled
    BY DEF HealInv, HealersOfBuried
  <2> QED BY <2>1, <2>2
<1> QED BY <1>1, <1>2, <1>3, PTL DEF Spec, ResurrectsWhatWasDeleted

\* If moreover no answer is lost, each Agent that is gone is resurrected at most once,
\* however often handleDeletion ran for it.
THEOREM HealingHappensOnce ==
    ASSUME "foreground" \notin Cascades, MaxTimeouts = 0
    PROVE  Spec => ResurrectedOnce
<1> DEFINE Inv == BaseInv /\ HealInv
           Once == Resurrection => agent'.restoredFrom \notin healed
<1>1. Init => Inv
  BY BaseInit, HealInit
<1>2. Inv /\ [Next]_vars => Inv'
  BY BaseInductive, HealInductive
<1>3. Inv /\ [Next]_vars => [Once]_vars
  <2> SUFFICES ASSUME Inv, [Next]_vars, Resurrection
               PROVE  agent'.restoredFrom \notin healed
    OBVIOUS
  <2>1. PICK h \in healers : agent'.restoredFrom = h.uid /\ h.at = "create"
    BY ResurrectionByHealer
  <2> QED BY <2>1 DEF HealInv, HealersUnique
<1> QED BY <1>1, <1>2, <1>3, PTL DEF Spec, ResurrectedOnce

\* Without foreground cascading, the history says Resurrected only of Agents that are
\* gone, had self-healing enabled to the end and have been recreated, whatever fails and
\* whenever the process stops.
THEOREM HistoryTellsNoTales ==
    ASSUME "foreground" \notin Cascades
    PROVE  Spec => []HistoryIsTrue
<1> DEFINE Inv == BaseInv /\ HealInv /\ RecordersHealed /\ HistoryIsTrue
<1>1. Init => Inv
  BY BaseInit, HealInit DEF Init, RecordersHealed, HistoryIsTrue
<1>2. Inv /\ [Next]_vars => Inv'
  BY BaseInductive, HealInductive, RecordersInductive, HistoryInductive
<1> QED BY <1>1, <1>2, PTL DEF Spec

=============================================================================
