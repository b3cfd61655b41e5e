--------------------------- MODULE AgentOrderProofs ---------------------------
(***************************************************************************)
(* The caches are stale, but they go forward: every version of the Agent   *)
(* that is known anywhere, and every Pod that was built from one, has its  *)
(* place in the order of (uid, generation).  From this order follow        *)
(* PodRunsItsGeneration and DriftDeletesOnlyOutdated, for every number of  *)
(* Pods, lag, client operations, faults, lost answers and restarts.        *)
(* The last part shows that what a Reconcile decides from its caches is    *)
(* taken up again by an event whenever the caches were out of date.        *)
(***************************************************************************)
EXTENDS AgentControllerProofs

\* (u, g) is not after the version v.
NotAfter(u, g, v) == u < v.uid \/ (u = v.uid /\ g <= v.generation)

\* The versions of the Agent that are stored, cached, on their way or in use.
Versions ==
    ({agent, agentCache, rec.agent} \cup {agentEvents[i] : i \in 1..Len(agentEvents)})
        \ {NoAgent}

\* The cached version and those that will replace it, in their order.
Chain(i) == IF i = 0 THEN agentCache ELSE agentEvents[i]

\* No uid is after the last one that was given.
KnownUIDs ==
    /\ \A v \in Versions : v.uid <= lastUID
    /\ \A n \in PodNames : pods[n] # NoPod => pods[n].owner <= lastUID

\* No known version is after the stored one, and a generation has one spec.
StoredIsLast ==
    agent # NoAgent =>
        \A v \in Versions :
            /\ NotAfter(v.uid, v.generation, agent)
            /\ (v.uid = agent.uid /\ v.generation = agent.generation) => v.spec = agent.spec

\* Versions reach the cache in the order in which they were stored.
ChainOrdered ==
    \A i, j \in 0..Len(agentEvents) :
        (i <= j /\ Chain(i) # NoAgent /\ Chain(j) # NoAgent)
            => NotAfter(Chain(i).uid, Chain(i).generation, Chain(j))

\* What a Reconcile has read is not after what the cache holds, until
\* SyncStatus replaces it by the stored version.
RecOrdered ==
    rec.call \notin {"none", "service", "serviceStatus"} =>
        \A i \in 0..Len(agentEvents) :
            Chain(i) # NoAgent => NotAfter(rec.agent.uid, rec.agent.generation, Chain(i))

\* A Pod was built from a version that the cache had, hence not after any of them.
PodsOrdered ==
    \A n \in PodNames : pods[n] # NoPod =>
        \A v \in Versions : NotAfter(pods[n].owner, pods[n].generation, v)

\* The invariant: PodRunsItsGeneration needs the order to be inductive, since a
\* Reconcile may build a Pod from a version that was replaced long ago.
OrderInv ==
    /\ KnownUIDs /\ StoredIsLast /\ ChainOrdered /\ RecOrdered /\ PodsOrdered
    /\ PodRunsItsGeneration

-----------------------------------------------------------------------------
\* The types of the versions and of the stored Pods.
LEMMA VersionTypes ==
    ASSUME TypeOK
    PROVE  /\ \A v \in Versions : v \in Agent /\ v.uid \in Nat /\ v.generation \in Nat
           /\ \A n \in PodNames : pods[n] # NoPod =>
                  pods[n] \in Pod /\ pods[n].owner \in Nat /\ pods[n].generation \in Nat
<1>1. \A v \in Versions : v \in Agent
  <2>1. rec.agent \in Agent \cup {NoAgent}
    BY DEF TypeOK, Reconciling, Idle
  <2>2. \A i \in 1..Len(agentEvents) : agentEvents[i] \in Agent \cup {NoAgent}
    BY DEF TypeOK
  <2> QED BY <2>1, <2>2 DEF TypeOK, Versions
<1>2. \A n \in PodNames : pods[n] # NoPod => pods[n] \in Pod
  BY DEF TypeOK, PodMap
<1> QED BY <1>1, <1>2 DEF Agent, Pod

\* What is on the chain is a known version.
LEMMA ChainVersions ==
    ASSUME TypeOK, NEW i \in 0..Len(agentEvents), Chain(i) # NoAgent
    PROVE  Chain(i) \in Versions
<1>1. i # 0 => i \in 1..Len(agentEvents)
  BY DEF TypeOK
<1> QED BY <1>1 DEF Chain, Versions

\* The stored version after a step comes after all that was known before it.
LEMMA NewestStep ==
    ASSUME BaseInv, OrderInv, AgentStep, agent' # NoAgent
    PROVE  /\ agent' \in Agent
           /\ agent'.uid <= lastUID'
           /\ \A v \in Versions :
                 /\ NotAfter(v.uid, v.generation, agent')
                 /\ (v.uid = agent'.uid /\ v.generation = agent'.generation)
                       => v.spec = agent'.spec
           /\ \A n \in PodNames : pods[n] # NoPod =>
                 /\ NotAfter(pods[n].owner, pods[n].generation, agent')
                 /\ (pods[n].owner = agent'.uid /\ pods[n].generation = agent'.generation)
                       => agent # NoAgent /\ SameSpec(agent', agent)
<1>0. lastUID \in Nat
  BY DEF BaseInv, TypeOK
<1>1. CASE KeepAgent /\ UNCHANGED lastUID
  <2>1. agent \in Versions /\ agent' = agent /\ agent # NoAgent
    BY <1>1 DEF KeepAgent, Versions
  <2>2. SameSpec(agent, agent)
    BY DEF SameSpec
  <2> QED BY <1>1, <2>1, <2>2, VersionTypes DEF BaseInv, OrderInv, KnownUIDs, StoredIsLast, PodsOrdered
<1>2. ASSUME agent # NoAgent, UNCHANGED lastUID, NEW a \in Agent, NextVersion(a, agent), Publish(a)
      PROVE  /\ agent' \in Agent
             /\ agent'.uid <= lastUID'
             /\ \A v \in Versions :
                   /\ NotAfter(v.uid, v.generation, agent')
                   /\ (v.uid = agent'.uid /\ v.generation = agent'.generation)
                         => v.spec = agent'.spec
             /\ \A n \in PodNames : pods[n] # NoPod =>
                   /\ NotAfter(pods[n].owner, pods[n].generation, agent')
                   /\ (pods[n].owner = agent'.uid /\ pods[n].generation = agent'.generation)
                         => agent # NoAgent /\ SameSpec(agent', agent)
  <2>1. agent \in Versions /\ agent' = a
    BY <1>2 DEF Versions, Publish
  <2>2. a.uid = agent.uid /\ a.generation \in Nat /\ agent.generation \in Nat /\ agent.uid \in Nat
    BY <1>2, <2>1, VersionTypes DEF NextVersion, SameSpec, BaseInv, Agent
  <2>3. CASE SameSpec(a, agent)
    BY <1>2, <2>1, <2>2, <2>3, VersionTypes
       DEF BaseInv, OrderInv, KnownUIDs, StoredIsLast, PodsOrdered, SameSpec, NotAfter
  <2>4. CASE a.generation = agent.generation + 1
    BY <1>2, <2>1, <2>2, <2>4, VersionTypes
       DEF BaseInv, OrderInv, KnownUIDs, StoredIsLast, PodsOrdered, NotAfter
  <2> QED BY <1>2, <2>3, <2>4 DEF NextVersion
<1>3. ASSUME NEW s \in AgentSpec, NEW f \in Nat, Create(s, f)
      PROVE  /\ agent' \in Agent
             /\ agent'.uid <= lastUID'
             /\ \A v \in Versions :
                   /\ NotAfter(v.uid, v.generation, agent')
                   /\ (v.uid = agent'.uid /\ v.generation = agent'.generation)
                         => v.spec = agent'.spec
             /\ \A n \in PodNames : pods[n] # NoPod =>
                   /\ NotAfter(pods[n].owner, pods[n].generation, agent')
                   /\ (pods[n].owner = agent'.uid /\ pods[n].generation = agent'.generation)
                         => agent # NoAgent /\ SameSpec(agent', agent)
  <2>1. agent' = NewAgent(lastUID + 1, s, f) /\ lastUID' = lastUID + 1
    BY <1>3 DEF Create, Publish
  <2>2. agent' \in Agent /\ agent'.uid = lastUID + 1
    BY <1>0, <2>1, NewAgentType DEF NewAgent
  <2> QED BY <1>0, <2>1, <2>2, VersionTypes DEF BaseInv, OrderInv, KnownUIDs, NotAfter
<1>4. agent' # NoAgent => \/ KeepAgent /\ UNCHANGED lastUID
                          \/ /\ agent # NoAgent /\ UNCHANGED lastUID
                             /\ \E a \in Agent : NextVersion(a, agent) /\ Publish(a)
                          \/ \E s \in AgentSpec, f \in Nat : Create(s, f)
  BY DEF AgentStep, Publish
<1> QED BY <1>1, <1>2, <1>3, <1>4

\* A step adds the new stored version, or a copy of the stored one.
LEMMA VersionsStep ==
    ASSUME BaseInv, Step, NEW v \in Versions'
    PROVE  \/ v \in Versions
           \/ v = agent' /\ agent' # NoAgent
           \/ agent # NoAgent /\ agent \in Versions /\ v \in Agent /\ SameSpec(v, agent)
<1>1. v # NoAgent /\ (v \in {agent', agentCache', rec'.agent}
                      \/ \E i \in 1..Len(agentEvents') : v = agentEvents'[i])
  BY DEF Versions
<1>2. agentCache' = agentCache
  BY DEF Step, caches
<1>3. CASE v = rec'.agent
  <2>1. CASE rec'.agent = rec.agent
    BY <1>1, <1>3, <2>1 DEF Versions
  <2>2. CASE rec' = Idle
    BY <1>1, <1>3, <2>2 DEF Idle
  <2>3. ASSUME rec.call = "syncStatus", agent # NoAgent, NEW w \in Agent, SameSpec(w, agent),
               rec' = [rec EXCEPT !.call = "service", !.agent = w]
        PROVE  agent # NoAgent /\ agent \in Versions /\ v \in Agent /\ SameSpec(v, agent)
    <3>1. rec \in Reconciling
      BY <2>3, RecBusy DEF BaseInv
    <3>2. rec'.agent = w
      BY <2>3, <3>1 DEF Reconciling
    <3> QED BY <1>3, <2>3, <3>2 DEF Versions
  <2>4. ASSUME NEW c \in Calls, <<rec.call, c>> \in Succession, rec' = [rec EXCEPT !.call = c]
        PROVE  rec'.agent = rec.agent
    <3>1. rec \in Reconciling
      BY <2>4, RecBusy DEF BaseInv, Succession
    <3> QED BY <2>4, <3>1 DEF Reconciling
  <2> QED BY <2>1, <2>2, <2>3, <2>4 DEF Step, RecStep
<1>4. ASSUME NEW i \in 1..Len(agentEvents'), v = agentEvents'[i]
      PROVE  v \in Versions \/ v = agent'
  <2>1. CASE UNCHANGED agentEvents
    BY <1>1, <1>4, <2>1 DEF Versions
  <2>2. ASSUME NEW x \in Agent \cup {NoAgent}, Publish(x)
        PROVE  v \in Versions \/ v = agent'
    <3>1. i \in 1..Len(agentEvents) \/ i = Len(agentEvents')
      BY <2>2, PublishFacts DEF BaseInv, TypeOK
    <3> QED BY <1>1, <1>4, <2>2, <3>1, PublishFacts DEF BaseInv, Versions
  <2>3. UNCHANGED agentEvents \/ \E x \in Agent \cup {NoAgent} : Publish(x)
    <3>1. lastUID + 1 \in Nat
      BY DEF BaseInv, TypeOK
    <3> QED BY <3>1, NewAgentType DEF Step, AgentStep, KeepAgent, Create
  <2> QED BY <2>1, <2>2, <2>3
<1> QED BY <1>1, <1>2, <1>3, <1>4 DEF Versions

\* A Pod that is stored after a step was stored before it, or was built from what
\* the Reconcile has read.
LEMMA PodsStep ==
    ASSUME BaseInv, Step, NEW n \in PodNames, pods'[n] # NoPod
    PROVE  \/ pods[n] # NoPod /\ SamePod(pods'[n], pods[n])
           \/ /\ rec.call = "createPod" /\ rec.agent \in Agent /\ rec.agent \in Versions
              /\ pods'[n].owner = rec.agent.uid
              /\ pods'[n].generation = rec.agent.generation
              /\ pods'[n].payload = rec.agent.spec.payload
              /\ ~rec.agent.spec.paused
<1>1. CASE KeepPods
  BY <1>1 DEF KeepPods, SamePod
<1>2. ASSUME NEW new \in PodMap, PutPods(new),
             \A m \in PodNames : new[m] # NoPod => pods[m] # NoPod /\ SamePod(new[m], pods[m])
      PROVE  pods[n] # NoPod /\ SamePod(pods'[n], pods[n])
  BY <1>2, PutPodsFacts DEF BaseInv
<1>3. ASSUME rec.call = "createPod", NEW m \in FreshNames,
             PutPods([pods EXCEPT ![m] = buildPod(m, rec.agent)])
      PROVE  \/ pods[n] # NoPod /\ SamePod(pods'[n], pods[n])
             \/ /\ rec.call = "createPod" /\ rec.agent \in Agent /\ rec.agent \in Versions
                /\ pods'[n].owner = rec.agent.uid
                /\ pods'[n].generation = rec.agent.generation
                /\ pods'[n].payload = rec.agent.spec.payload
                /\ ~rec.agent.spec.paused
  <2>1. rec.agent \in Agent /\ m \in PodNames
    BY <1>3, RecBusy DEF BaseInv, FreshNames
  <2>2. pods' = [pods EXCEPT ![m] = buildPod(m, rec.agent)]
    BY <1>3, <2>1, NewPodMap, PutPodsFacts DEF BaseInv
  <2>3. CASE n # m
    <3>1. pods'[n] = pods[n]
      BY <2>2, <2>3 DEF BaseInv, TypeOK, PodMap
    <3> QED BY <3>1 DEF SamePod
  <2>4. CASE n = m
    <3>1. pods'[n] = buildPod(n, rec.agent)
      BY <2>2, <2>4 DEF BaseInv, TypeOK, PodMap
    <3>2. rec.agent \in Versions
      BY <2>1, NullsAreNoObjects DEF Versions
    <3> QED BY <1>3, <2>1, <3>1, <3>2 DEF buildPod, BaseInv, RecCalls
  <2> QED BY <2>3, <2>4
<1> QED BY <1>1, <1>2, <1>3 DEF Step, PodStep

\* A step of the shape Step adds at most the new stored version, at the end of the
\* chain.
LEMMA ChainStep ==
    ASSUME BaseInv, Step, NEW i \in 0..Len(agentEvents'), Chain(i)' # NoAgent
    PROVE  \/ i \in 0..Len(agentEvents) /\ Chain(i)' = Chain(i)
           \/ i = Len(agentEvents') /\ Chain(i)' = agent'
<1>1. agentCache' = agentCache
  BY DEF Step, caches
<1>2. CASE UNCHANGED agentEvents
  BY <1>1, <1>2 DEF Chain
<1>3. ASSUME NEW x \in Agent \cup {NoAgent}, Publish(x)
      PROVE  \/ i \in 0..Len(agentEvents) /\ Chain(i)' = Chain(i)
             \/ i = Len(agentEvents') /\ Chain(i)' = agent'
  <2>1. Len(agentEvents) \in Nat /\ Len(agentEvents') = Len(agentEvents) + 1
    BY <1>3, PublishFacts DEF BaseInv, TypeOK
  <2>2. CASE i = 0
    BY <1>1, <2>1, <2>2 DEF Chain
  <2>3. CASE i \in 1..Len(agentEvents)
    BY <1>3, <2>1, <2>3, PublishFacts DEF Chain, BaseInv
  <2>4. CASE i = Len(agentEvents')
    BY <1>3, <2>1, <2>4, PublishFacts DEF Chain, BaseInv
  <2> QED BY <2>1, <2>2, <2>3, <2>4
<1>4. UNCHANGED agentEvents \/ \E x \in Agent \cup {NoAgent} : Publish(x)
  <2>1. lastUID + 1 \in Nat
    BY DEF BaseInv, TypeOK
  <2> QED BY <2>1, NewAgentType DEF Step, AgentStep, KeepAgent, Create
<1> QED BY <1>2, <1>3, <1>4

\* The steps of the shape Step preserve the order.
LEMMA OrderStep ==
    ASSUME BaseInv, OrderInv, Step
    PROVE  OrderInv'
<1> USE DEF NotAfter
<1>0. /\ BaseInv' /\ TypeOK /\ TypeOK' /\ AgentStep
      /\ lastUID \in Nat /\ lastUID' \in Nat /\ lastUID <= lastUID'
  <2>1. BaseInv'
    BY BaseStep
  <2>2. lastUID' = lastUID \/ lastUID' = lastUID + 1
    BY DEF Step, AgentStep, Create
  <2> QED BY <2>1, <2>2 DEF BaseInv, TypeOK, Step
<1>1. KnownUIDs'
  <2>1. \A v \in Versions' : v.uid <= lastUID'
    <3> SUFFICES ASSUME NEW v \in Versions' PROVE v.uid <= lastUID'
      OBVIOUS
    <3>1. CASE v \in Versions
      BY <1>0, <3>1, VersionTypes DEF OrderInv, KnownUIDs
    <3>2. CASE v = agent' /\ agent' # NoAgent
      BY <1>0, <3>2, NewestStep
    <3>3. CASE agent \in Versions /\ SameSpec(v, agent)
      BY <1>0, <3>3, VersionTypes DEF OrderInv, KnownUIDs, SameSpec
    <3> QED BY <3>1, <3>2, <3>3, VersionsStep
  <2>2. \A n \in PodNames : pods'[n] # NoPod => pods'[n].owner <= lastUID'
    <3> SUFFICES ASSUME NEW n \in PodNames, pods'[n] # NoPod PROVE pods'[n].owner <= lastUID'
      OBVIOUS
    <3> QED BY <1>0, PodsStep, VersionTypes DEF OrderInv, KnownUIDs, SamePod
  <2> QED BY <2>1, <2>2 DEF KnownUIDs
<1>2. StoredIsLast'
  <2> SUFFICES ASSUME agent' # NoAgent, NEW v \in Versions'
               PROVE  /\ NotAfter(v.uid, v.generation, agent')
                      /\ (v.uid = agent'.uid /\ v.generation = agent'.generation)
                            => v.spec = agent'.spec
    BY DEF StoredIsLast
  <2>1. CASE v \in Versions
    BY <1>0, <2>1, NewestStep
  <2>2. CASE v = agent'
    BY <1>0, <2>2, NewestStep DEF Agent
  <2>3. CASE agent \in Versions /\ SameSpec(v, agent)
    BY <1>0, <2>3, NewestStep DEF SameSpec
  <2> QED BY <2>1, <2>2, <2>3, VersionsStep
<1>3. ChainOrdered'
  <2> SUFFICES ASSUME NEW i \in 0..Len(agentEvents'), NEW j \in 0..Len(agentEvents'), i <= j,
                      Chain(i)' # NoAgent, Chain(j)' # NoAgent
               PROVE  NotAfter((Chain(i)').uid, (Chain(i)').generation, Chain(j)')
    BY DEF ChainOrdered
  <2>0. Len(agentEvents) \in Nat /\ Len(agentEvents') \in Nat
    BY <1>0 DEF TypeOK
  <2>1. CASE j = Len(agentEvents') /\ Chain(j)' = agent'
    <3>1. CASE i \in 0..Len(agentEvents) /\ Chain(i)' = Chain(i)
      BY <1>0, <2>1, <3>1, ChainVersions, NewestStep
    <3>2. CASE Chain(i)' = agent'
      BY <1>0, <2>1, <3>2, NewestStep DEF Agent
    <3> QED BY <3>1, <3>2, ChainStep
  <2>2. CASE j \in 0..Len(agentEvents) /\ Chain(j)' = Chain(j)
    <3>1. CASE i \in 0..Len(agentEvents) /\ Chain(i)' = Chain(i)
      BY <2>2, <3>1 DEF OrderInv, ChainOrdered
    <3>2. CASE i = Len(agentEvents') /\ Chain(i)' = agent'
      <4>1. j = i
        BY <2>0, <3>2
      <4> QED BY <1>0, <3>2, <4>1, NewestStep DEF Agent
    <3> QED BY <3>1, <3>2, ChainStep
  <2> QED BY <2>1, <2>2, ChainStep
<1>4. RecOrdered'
  <2> SUFFICES ASSUME rec'.call \notin {"none", "service", "serviceStatus"},
                      NEW i \in 0..Len(agentEvents'), Chain(i)' # NoAgent
               PROVE  NotAfter(rec'.agent.uid, rec'.agent.generation, Chain(i)')
    BY DEF RecOrdered
  <2>1. rec'.agent = rec.agent /\ rec.call \notin {"none", "service", "serviceStatus"}
    <3>1. CASE UNCHANGED rec
      BY <3>1
    <3>2. ASSUME NEW c \in Calls, <<rec.call, c>> \in Succession, rec' = [rec EXCEPT !.call = c]
          PROVE  rec'.agent = rec.agent /\ rec.call \notin {"none", "service", "serviceStatus"}
      <4>1. rec \in Reconciling
        BY <1>0, <3>2, RecBusy DEF Succession
      <4> QED BY <3>2, <4>1 DEF Reconciling, Succession
    <3>3. rec' # Idle
      BY DEF Idle
    <3>4. rec.call = "syncStatus" => ~ \E w \in Agent : rec' = [rec EXCEPT !.call = "service", !.agent = w]
      <4>1. rec.call = "syncStatus" => rec \in Reconciling
        BY <1>0, RecBusy
      <4> QED BY <4>1 DEF Reconciling
    <3> QED BY <3>1, <3>2, <3>3, <3>4 DEF Step, RecStep
  <2>2. rec.agent \in Agent /\ rec.agent \in Versions
    BY <1>0, <2>1, RecBusy, NullsAreNoObjects DEF Versions
  <2>3. CASE i \in 0..Len(agentEvents) /\ Chain(i)' = Chain(i)
    BY <2>1, <2>3 DEF OrderInv, RecOrdered
  <2>4. CASE Chain(i)' = agent'
    BY <1>0, <2>1, <2>2, <2>4, NewestStep
  <2> QED BY <2>3, <2>4, ChainStep
<1>5. PodsOrdered'
  <2> SUFFICES ASSUME NEW n \in PodNames, pods'[n] # NoPod, NEW v \in Versions'
               PROVE  NotAfter(pods'[n].owner, pods'[n].generation, v)
    BY DEF PodsOrdered
  <2>1. CASE pods[n] # NoPod /\ SamePod(pods'[n], pods[n])
    <3>1. CASE v \in Versions
      BY <2>1, <3>1 DEF OrderInv, PodsOrdered, SamePod
    <3>2. CASE v = agent' /\ agent' # NoAgent
      BY <1>0, <2>1, <3>2, NewestStep DEF SamePod
    <3>3. CASE agent \in Versions /\ SameSpec(v, agent)
      BY <2>1, <3>3 DEF OrderInv, PodsOrdered, SamePod, SameSpec
    <3> QED BY <3>1, <3>2, <3>3, VersionsStep
  <2>2. CASE /\ rec.call = "createPod" /\ rec.agent \in Versions
             /\ pods'[n].owner = rec.agent.uid /\ pods'[n].generation = rec.agent.generation
    \* What a Reconcile at "createPod" has read is not after any version in use.
    <3>1. CASE v = agent' /\ agent' # NoAgent
      BY <1>0, <2>2, <3>1, NewestStep
    <3>2. CASE agent \in Versions /\ agent # NoAgent /\ SameSpec(v, agent)
      BY <2>2, <3>2 DEF OrderInv, StoredIsLast, SameSpec
    <3>3. CASE v \in Versions
      <4>1. CASE v = agent /\ agent # NoAgent
        BY <2>2, <4>1 DEF OrderInv, StoredIsLast
      <4>2. CASE v = rec.agent
        BY <1>0, <2>2, <3>3, <4>2, VersionTypes
      <4>3. CASE \E i \in 0..Len(agentEvents) : v = Chain(i) /\ Chain(i) # NoAgent
        BY <2>2, <4>3 DEF OrderInv, RecOrdered
      <4>4. \/ v = agent /\ agent # NoAgent
            \/ v = rec.agent
            \/ \E i \in 0..Len(agentEvents) : v = Chain(i) /\ Chain(i) # NoAgent
        <5>1. v = agentCache => v = Chain(0) /\ 0 \in 0..Len(agentEvents)
          BY <1>0 DEF Chain, TypeOK
        <5>2. \A i \in 1..Len(agentEvents) : agentEvents[i] = Chain(i) /\ i \in 0..Len(agentEvents)
          BY <1>0 DEF Chain, TypeOK
        <5> QED BY <3>3, <5>1, <5>2 DEF Versions
      <4> QED BY <4>1, <4>2, <4>3, <4>4
    <3> QED BY <3>1, <3>2, <3>3, VersionsStep
  <2> QED BY <2>1, <2>2, PodsStep
<1>6. PodRunsItsGeneration'
  <2> SUFFICES ASSUME agent' # NoAgent, NEW n \in PodNames, pods'[n] # NoPod,
                      pods'[n].owner = agent'.uid, pods'[n].generation = agent'.generation
               PROVE  pods'[n].payload = agent'.spec.payload /\ ~agent'.spec.paused
    BY DEF PodRunsItsGeneration
  <2>1. CASE pods[n] # NoPod /\ SamePod(pods'[n], pods[n])
    <3>1. agent # NoAgent /\ SameSpec(agent', agent)
      BY <1>0, <2>1, NewestStep DEF SamePod
    <3> QED BY <2>1, <3>1 DEF OrderInv, PodRunsItsGeneration, SamePod, SameSpec
  <2>2. CASE /\ rec.agent \in Versions
             /\ pods'[n].owner = rec.agent.uid /\ pods'[n].generation = rec.agent.generation
             /\ pods'[n].payload = rec.agent.spec.payload /\ ~rec.agent.spec.paused
    <3>1. rec.agent.spec = agent'.spec
      BY <1>0, <2>2, NewestStep
    <3> QED BY <2>2, <3>1
  <2> QED BY <2>1, <2>2, PodsStep
<1> QED BY <1>1, <1>2, <1>3, <1>4, <1>5, <1>6 DEF OrderInv

\* Steps that store nothing and bring no other version into use keep what the
\* invariant says of the stored Agent and of the Pods.
LEMMA OrderForgets ==
    ASSUME BaseInv, OrderInv, UNCHANGED <<agent, pods, lastUID>>, Versions' \subseteq Versions
    PROVE  KnownUIDs' /\ StoredIsLast' /\ PodsOrdered' /\ PodRunsItsGeneration'
<1>1. KnownUIDs'
  BY DEF OrderInv, KnownUIDs
<1>2. StoredIsLast'
  BY DEF OrderInv, StoredIsLast, NotAfter
<1>3. PodsOrdered'
  BY DEF OrderInv, PodsOrdered, NotAfter
<1>4. PodRunsItsGeneration'
  BY DEF OrderInv, PodRunsItsGeneration
<1> QED BY <1>1, <1>2, <1>3, <1>4

\* A version that arrives shifts the chain by one place.
LEMMA OrderDeliverAgent ==
    ASSUME BaseInv, OrderInv, DeliverAgent
    PROVE  OrderInv'
<1>1. /\ agentEvents \in Seq(Agent \cup {NoAgent}) /\ agentEvents # <<>>
      /\ agentCache' = Head(agentEvents) /\ agentEvents' = Tail(agentEvents)
      /\ UNCHANGED <<agent, pods, lastUID, rec>>
  BY DEF BaseInv, TypeOK, DeliverAgent, KeepPods, healVars
<1>2. /\ Len(agentEvents) \in Nat \ {0} /\ Len(agentEvents') = Len(agentEvents) - 1
      /\ agentCache' = agentEvents[1]
      /\ \A i \in 1..Len(agentEvents') : agentEvents'[i] = agentEvents[i + 1]
  BY <1>1, TailFacts
<1>3. \A i \in 0..Len(agentEvents') : i + 1 \in 1..Len(agentEvents) /\ Chain(i)' = agentEvents[i + 1]
  BY <1>2 DEF Chain
<1>4. \A i \in 0..Len(agentEvents') : i + 1 \in 0..Len(agentEvents) /\ Chain(i)' = Chain(i + 1)
  BY <1>2, <1>3 DEF Chain
<1>5. Versions' \subseteq Versions
  <2> SUFFICES ASSUME NEW v \in Versions' PROVE v \in Versions
    OBVIOUS
  <2>1. v # NoAgent /\ (\/ v \in {agent, rec.agent} \/ v = agentCache'
                        \/ \E i \in 1..Len(agentEvents') : v = agentEvents'[i])
    BY <1>1 DEF Versions
  <2>2. v \in {agent, rec.agent} \/ \E i \in 1..Len(agentEvents) : v = agentEvents[i]
    BY <1>2, <2>1
  <2> QED BY <2>1, <2>2 DEF Versions
<1>6. ChainOrdered'
  <2> SUFFICES ASSUME NEW i \in 0..Len(agentEvents'), NEW j \in 0..Len(agentEvents'), i <= j,
                      Chain(i)' # NoAgent, Chain(j)' # NoAgent
               PROVE  NotAfter((Chain(i)').uid, (Chain(i)').generation, Chain(j)')
    BY DEF ChainOrdered, NotAfter
  <2>1. i + 1 <= j + 1
    BY <1>2
  <2>2. NotAfter(Chain(i + 1).uid, Chain(i + 1).generation, Chain(j + 1))
    BY <1>4, <2>1 DEF OrderInv, ChainOrdered
  <2> QED BY <1>4, <2>2 DEF NotAfter
<1>7. RecOrdered'
  <2> SUFFICES ASSUME rec.call \notin {"none", "service", "serviceStatus"},
                      NEW i \in 0..Len(agentEvents'), Chain(i)' # NoAgent
               PROVE  NotAfter(rec.agent.uid, rec.agent.generation, Chain(i)')
    BY <1>1 DEF RecOrdered, NotAfter
  <2> QED BY <1>4 DEF OrderInv, RecOrdered, NotAfter
<1> QED BY <1>1, <1>5, <1>6, <1>7, OrderForgets DEF OrderInv

\* After a restart the cache holds the stored version and no Reconcile is running.
LEMMA OrderRestart ==
    ASSUME BaseInv, OrderInv, Restart
    PROVE  OrderInv'
<1>1. /\ agentCache' = agent /\ agentEvents' = <<>> /\ Len(agentEvents') = 0
      /\ rec' = Idle /\ UNCHANGED <<agent, pods, lastUID>>
  BY DEF Restart
<1>2. Versions' \subseteq Versions
  BY <1>1 DEF Versions, Idle
<1>3. \A i \in 0..Len(agentEvents') : i = 0 /\ Chain(i)' = agent
  BY <1>1 DEF Chain
<1>4. ChainOrdered'
  <2> SUFFICES ASSUME NEW i \in 0..Len(agentEvents'), NEW j \in 0..Len(agentEvents'),
                      Chain(i)' # NoAgent, Chain(j)' # NoAgent
               PROVE  NotAfter((Chain(i)').uid, (Chain(i)').generation, Chain(j)')
    BY DEF ChainOrdered, NotAfter
  <2>1. agent \in Agent
    BY <1>3 DEF BaseInv, TypeOK
  <2>2. agent.uid \in Nat /\ agent.generation \in Nat
    BY <2>1 DEF Agent
  <2> QED BY <1>3, <2>2 DEF NotAfter
<1>5. RecOrdered'
  BY <1>1 DEF RecOrdered, Idle
<1> QED BY <1>1, <1>2, <1>4, <1>5, OrderForgets DEF OrderInv

\* A Reconcile begins with the version in the cache, the first of the chain.
LEMMA OrderReconcile ==
    ASSUME BaseInv, OrderInv, Reconcile
    PROVE  OrderInv'
<1>1. UNCHANGED <<agent, agentEvents, agentCache, pods, lastUID>>
  BY DEF Reconcile, KeepAgent, KeepPods, caches, healVars
<1>2. rec' = rec \/ rec'.agent = agentCache
  BY DEF Reconcile
<1>3. Versions' \subseteq Versions
  BY <1>1, <1>2 DEF Versions
<1>4. ChainOrdered'
  BY <1>1 DEF OrderInv, ChainOrdered, Chain, NotAfter
<1>5. RecOrdered'
  <2> SUFFICES ASSUME rec'.call \notin {"none", "service", "serviceStatus"},
                      NEW i \in 0..Len(agentEvents), Chain(i) # NoAgent
               PROVE  NotAfter(rec'.agent.uid, rec'.agent.generation, Chain(i))
    BY <1>1 DEF RecOrdered, NotAfter, Chain
  <2>1. CASE rec' = rec
    BY <2>1 DEF OrderInv, RecOrdered
  <2>2. CASE rec' # rec
    <3>1. rec'.agent = Chain(0) /\ agentCache # NoAgent /\ 0 \in 0..Len(agentEvents) /\ 0 <= i
      BY <2>2 DEF Reconcile, Chain, BaseInv, TypeOK
    <3>2. Chain(0) # NoAgent
      BY <3>1 DEF Chain
    <3> QED BY <3>1, <3>2 DEF OrderInv, ChainOrdered
  <2> QED BY <2>1, <2>2
<1> QED BY <1>1, <1>3, <1>4, <1>5, OrderForgets DEF OrderInv

\* Steps that do not touch what OrderInv is about.
LEMMA OrderUnchanged ==
    ASSUME BaseInv, OrderInv, UNCHANGED <<agent, agentEvents, agentCache, pods, lastUID, rec>>
    PROVE  OrderInv'
<1>1. Versions' \subseteq Versions
  BY DEF Versions
<1>2. ChainOrdered' /\ RecOrdered'
  BY DEF OrderInv, ChainOrdered, RecOrdered, Chain, NotAfter
<1> QED BY <1>1, <1>2, OrderForgets DEF OrderInv

\* Every step preserves OrderInv.
LEMMA OrderInductive ==
    ASSUME BaseInv, OrderInv, [Next]_vars
    PROVE  OrderInv'
<1>1. CASE DeliverPods
  BY <1>1, OrderUnchanged DEF DeliverPods, KeepAgent, healVars
<1>2. CASE DeliverService
  BY <1>2, OrderUnchanged DEF DeliverService, KeepAgent, KeepPods, healVars
<1>3. CASE UNCHANGED vars
  BY <1>3, OrderUnchanged DEF vars
<1> QED BY <1>1, <1>2, <1>3, NextShape, OrderStep, OrderDeliverAgent, OrderRestart, OrderReconcile

\* At the beginning there are no versions and no Pods.
LEMMA OrderInit == Init => OrderInv
<1> SUFFICES ASSUME Init PROVE OrderInv
  OBVIOUS
<1>1. Versions = {}
  BY DEF Init, Versions, Idle
<1>2. \A n \in PodNames : pods[n] = NoPod
  BY DEF Init, NoPods
<1>3. \A i \in 0..Len(agentEvents) : Chain(i) = NoAgent
  BY DEF Init, Chain
<1>4. agent = NoAgent /\ rec.call = "none"
  BY DEF Init, Idle
<1> QED BY <1>1, <1>2, <1>3, <1>4
    DEF OrderInv, KnownUIDs, StoredIsLast, ChainOrdered, RecOrdered, PodsOrdered, PodRunsItsGeneration

\* The annotation orchestrator.dev/generation tells the truth: whatever the caches
\* held when buildPod ran, a Pod that carries the stored generation of the stored
\* Agent runs its payload.
THEOREM GenerationIdentifiesSpec == Spec => []PodRunsItsGeneration
<1>1. OrderInv => PodRunsItsGeneration
  BY DEF OrderInv
<1>2. Init => BaseInv /\ OrderInv
  BY BaseInit, OrderInit
<1>3. BaseInv /\ OrderInv /\ [Next]_vars => BaseInv' /\ OrderInv'
  BY BaseInductive, OrderInductive
<1> QED BY <1>1, <1>2, <1>3, PTL DEF Spec

-----------------------------------------------------------------------------
(* Names identify Pods: DriftPod deletes the Pod it has compared.          *)

\* What is known of the Pods: stored, cached, or on its way.
PodViews == {pods, podCache} \cup {podEvents[i] : i \in 1..Len(podEvents)}

\* All that is known of a name, anywhere, is of one Pod.
PodIdentity ==
    \A v \in PodViews : \A n \in PodNames : v[n] # NoPod =>
        /\ v[n].name = n
        /\ \A w \in PodViews : w[n] # NoPod => SamePod(v[n], w[n])

\* The Pod of a Reconcile is the one that has its name.
RecPodKnown ==
    rec.pod # NoPod =>
        \A v \in PodViews : v[rec.pod.name] # NoPod => SamePod(rec.pod, v[rec.pod.name])

\* What is known of the Pods is consistent.
PodInv == PodIdentity /\ RecPodKnown

\* Steps that bring no other view of the Pods and no other Pod into use.
LEMMA PodsForget ==
    ASSUME PodInv, PodViews' \subseteq PodViews, rec'.pod = rec.pod \/ rec'.pod = NoPod
    PROVE  PodInv'
<1>1. PodIdentity'
  BY DEF PodInv, PodIdentity, SamePod
<1>2. RecPodKnown'
  BY DEF PodInv, RecPodKnown, SamePod
<1> QED BY <1>1, <1>2 DEF PodInv

\* A step of the shape RecStep keeps the Pod it has read or ends the Reconcile.
LEMMA RecStepPod ==
    ASSUME BaseInv, RecStep
    PROVE  rec'.pod = rec.pod \/ rec'.pod = NoPod
<1>1. CASE UNCHANGED rec
  BY <1>1
<1>2. CASE rec' = Idle
  BY <1>2 DEF Idle
<1>3. ASSUME NEW c \in Calls, <<rec.call, c>> \in Succession, rec' = [rec EXCEPT !.call = c]
      PROVE  rec'.pod = rec.pod
  <2>1. rec \in Reconciling
    BY <1>3, RecBusy DEF BaseInv, Succession
  <2> QED BY <1>3, <2>1 DEF Reconciling
<1>4. ASSUME rec.call = "syncStatus", NEW w \in Agent,
             rec' = [rec EXCEPT !.call = "service", !.agent = w]
      PROVE  rec'.pod = rec.pod
  <2>1. rec \in Reconciling
    BY <1>4, RecBusy DEF BaseInv
  <2> QED BY <1>4, <2>1 DEF Reconciling
<1> QED BY <1>1, <1>2, <1>3, <1>4 DEF RecStep

\* Storing Pods adds at most one view.
LEMMA PutPodsViews ==
    ASSUME TypeOK, UNCHANGED podCache, NEW new \in PodMap, PutPods(new)
    PROVE  PodViews' \subseteq PodViews \cup {new}
<1> SUFFICES ASSUME NEW v \in PodViews' PROVE v \in PodViews \cup {new}
  OBVIOUS
<1>1. pods' = new
  BY PutPodsFacts
<1>2. v \in {new, podCache} \/ \E i \in 1..Len(podEvents') : v = podEvents'[i]
  BY <1>1 DEF PodViews
<1>3. ASSUME NEW i \in 1..Len(podEvents'), v = podEvents'[i]
      PROVE  v \in PodViews \cup {new}
  <2>1. CASE podEvents' = podEvents
    BY <1>3, <2>1 DEF PodViews
  <2>2. CASE podEvents' = Append(podEvents, new)
    <3>1. podEvents \in Seq(PodMap) /\ Len(podEvents) \in Nat /\ Len(podEvents') = Len(podEvents) + 1
      BY <2>2 DEF TypeOK
    <3>2. CASE i \in 1..Len(podEvents)
      <4>1. podEvents'[i] = podEvents[i]
        BY <2>2, <3>1, <3>2
      <4> QED BY <1>3, <3>2, <4>1 DEF PodViews
    <3>3. CASE i = Len(podEvents) + 1
      <4>1. podEvents'[i] = new
        BY <2>2, <3>1, <3>3
      <4> QED BY <1>3, <4>1
    <3> QED BY <3>1, <3>2, <3>3
  <2> QED BY <2>1, <2>2, PutPodsFacts
<1> QED BY <1>2, <1>3 DEF PodViews

\* The steps of the shape Step preserve the identity of Pods: a changed Pod is still
\* the same one, and a new one has a name that nothing refers to.
LEMMA PodInvStep ==
    ASSUME BaseInv, PodInv, Step
    PROVE  PodInv'
<1>1. /\ TypeOK /\ UNCHANGED podCache /\ pods \in PodViews
      /\ rec'.pod = rec.pod \/ rec'.pod = NoPod
  BY RecStepPod DEF BaseInv, Step, caches, PodViews
<1>2. CASE KeepPods
  <2>1. PodViews' \subseteq PodViews
    BY <1>1, <1>2 DEF KeepPods, PodViews
  <2> QED BY <1>1, <2>1, PodsForget
<1>3. ASSUME NEW new \in PodMap, PutPods(new),
             \A n \in PodNames : new[n] # NoPod => pods[n] # NoPod /\ SamePod(new[n], pods[n])
      PROVE  PodInv'
  <2>1. PodViews' \subseteq PodViews \cup {new}
    BY <1>1, <1>3, PutPodsViews
  <2>2. \A v \in PodViews' : \A n \in PodNames : v[n] # NoPod =>
            \E u \in PodViews : u[n] # NoPod /\ SamePod(v[n], u[n])
    BY <1>1, <1>3, <2>1 DEF SamePod
  <2>3. PodIdentity'
    <3> SUFFICES ASSUME NEW v \in PodViews', NEW n \in PodNames, v[n] # NoPod
                 PROVE  /\ v[n].name = n
                        /\ \A w \in PodViews' : w[n] # NoPod => SamePod(v[n], w[n])
      BY DEF PodIdentity, SamePod
    <3>1. PICK u \in PodViews : u[n] # NoPod /\ SamePod(v[n], u[n])
      BY <2>2
    <3>2. ASSUME NEW w \in PodViews', w[n] # NoPod PROVE SamePod(v[n], w[n])
      <4>1. PICK x \in PodViews : x[n] # NoPod /\ SamePod(w[n], x[n])
        BY <2>2, <3>2
      <4>2. SamePod(u[n], x[n])
        BY <3>1, <4>1 DEF PodInv, PodIdentity
      <4> QED BY <3>1, <4>1, <4>2 DEF SamePod
    <3> QED BY <3>1, <3>2 DEF PodInv, PodIdentity, SamePod
  <2>4. RecPodKnown'
    <3> SUFFICES ASSUME rec.pod # NoPod, rec'.pod = rec.pod, NEW v \in PodViews',
                        v[rec.pod.name] # NoPod
                 PROVE  SamePod(rec.pod, v[rec.pod.name])
      BY <1>1 DEF RecPodKnown, SamePod
    <3>1. rec.pod.name \in PodNames
      BY DEF BaseInv, TypeOK, Reconciling, Idle, Pod
    <3>2. PICK u \in PodViews : u[rec.pod.name] # NoPod /\ SamePod(v[rec.pod.name], u[rec.pod.name])
      BY <2>2, <3>1
    <3> QED BY <3>2 DEF PodInv, RecPodKnown, SamePod
  <2> QED BY <2>3, <2>4 DEF PodInv
<1>4. ASSUME rec.call = "createPod", NEW m \in FreshNames,
             PutPods([pods EXCEPT ![m] = buildPod(m, rec.agent)])
      PROVE  PodInv'
  <2> DEFINE new == [pods EXCEPT ![m] = buildPod(m, rec.agent)]
  <2>1. rec.agent \in Agent /\ m \in PodNames /\ rec.pod = NoPod
    BY <1>4, RecBusy DEF BaseInv, RecCalls, FreshNames
  <2>2. new \in PodMap /\ PodViews' \subseteq PodViews \cup {new}
    BY <1>1, <1>4, <2>1, NewPodMap, PutPodsViews
  <2>3. \A v \in PodViews : v[m] = NoPod
    BY DEF FreshNames, PodViews
  <2>4. \A n \in PodNames : n # m => new[n] = pods[n]
    BY <1>1 DEF TypeOK, PodMap
  <2>5. new[m].name = m
    BY <1>1, <2>1 DEF TypeOK, PodMap, buildPod
  <2> HIDE DEF new
  <2>6. PodIdentity'
    <3> SUFFICES ASSUME NEW v \in PodViews', NEW n \in PodNames, v[n] # NoPod
                 PROVE  /\ v[n].name = n
                        /\ \A w \in PodViews' : w[n] # NoPod => SamePod(v[n], w[n])
      BY DEF PodIdentity, SamePod
    <3>1. CASE n = m
      <4>1. \A w \in PodViews' : w[m] # NoPod => w = new
        BY <2>2, <2>3
      <4> QED BY <2>5, <3>1, <4>1 DEF SamePod
    <3>2. CASE n # m
      <4>1. \A w \in PodViews' : \E u \in PodViews : w[n] = u[n]
        BY <1>1, <2>2, <2>4, <3>2
      <4> QED BY <4>1 DEF PodInv, PodIdentity
    <3> QED BY <3>1, <3>2
  <2>7. RecPodKnown'
    BY <1>1, <2>1 DEF RecPodKnown
  <2> QED BY <2>6, <2>7 DEF PodInv
<1> QED BY <1>2, <1>3, <1>4 DEF Step, PodStep

\* Views that arrive were on their way.
LEMMA PodInvDeliverPods ==
    ASSUME BaseInv, PodInv, DeliverPods
    PROVE  PodInv'
<1>1. /\ podEvents \in Seq(PodMap) /\ podEvents # <<>>
      /\ podCache' = Head(podEvents) /\ podEvents' = Tail(podEvents)
      /\ UNCHANGED <<pods, rec>>
  BY DEF BaseInv, TypeOK, DeliverPods
<1>2. /\ Len(podEvents) \in Nat \ {0} /\ Len(podEvents') = Len(podEvents) - 1
      /\ podCache' = podEvents[1]
      /\ \A i \in 1..Len(podEvents') : podEvents'[i] = podEvents[i + 1]
  BY <1>1, TailFacts
<1>3. PodViews' \subseteq PodViews
  <2> SUFFICES ASSUME NEW v \in PodViews' PROVE v \in PodViews
    OBVIOUS
  <2>1. v = pods \/ v = podCache' \/ \E i \in 1..Len(podEvents') : v = podEvents'[i]
    BY <1>1 DEF PodViews
  <2>2. v = pods \/ \E i \in 1..Len(podEvents) : v = podEvents[i]
    BY <1>2, <2>1
  <2> QED BY <2>2 DEF PodViews
<1> QED BY <1>1, <1>3, PodsForget

\* A Reconcile begins with a Pod of the cache.
LEMMA PodInvReconcile ==
    ASSUME BaseInv, PodInv, Reconcile
    PROVE  PodInv'
<1>1. UNCHANGED <<pods, podCache, podEvents>>
  BY DEF Reconcile, KeepPods, caches
<1>2. PodViews' = PodViews
  BY <1>1 DEF PodViews
<1>3. CASE rec'.pod = rec.pod \/ rec'.pod = NoPod
  BY <1>2, <1>3, PodsForget
<1>4. CASE rec'.pod # rec.pod /\ rec'.pod # NoPod
  <2>1. PICK n \in PodNames : rec'.pod = podCache[n] /\ podCache[n] # NoPod
    BY <1>4 DEF Reconcile, findAgentPod, Live
  <2>2. podCache \in PodViews
    BY DEF PodViews
  <2>3. rec'.pod.name = n
    BY <2>1, <2>2 DEF PodInv, PodIdentity
  <2>4. RecPodKnown'
    BY <1>2, <2>1, <2>2, <2>3 DEF PodInv, PodIdentity, RecPodKnown, SamePod
  <2>5. PodIdentity'
    BY <1>2 DEF PodInv, PodIdentity, SamePod
  <2> QED BY <2>4, <2>5 DEF PodInv
<1> QED BY <1>3, <1>4

\* Every step preserves PodInv.
LEMMA PodInvInductive ==
    ASSUME BaseInv, PodInv, [Next]_vars
    PROVE  PodInv'
<1>1. CASE DeliverAgent
  BY <1>1, PodsForget DEF DeliverAgent, KeepPods, PodViews
<1>2. CASE DeliverService
  BY <1>2, PodsForget DEF DeliverService, KeepPods, PodViews
<1>3. CASE UNCHANGED vars
  BY <1>3, PodsForget DEF vars, PodViews
<1>4. CASE Restart
  <2>1. /\ podCache' = pods /\ pods' = pods /\ rec'.pod = NoPod
        /\ \A i \in 1..Len(podEvents') : FALSE
    BY <1>4 DEF Restart, Idle
  <2>2. PodViews' \subseteq PodViews
    BY <2>1 DEF PodViews
  <2> QED BY <2>1, <2>2, PodsForget
<1> QED BY <1>1, <1>2, <1>3, <1>4, NextShape, PodInvStep, PodInvDeliverPods, PodInvReconcile

\* At the beginning there are no Pods.
LEMMA PodInvInit == Init => PodInv
<1> SUFFICES ASSUME Init PROVE PodInv
  OBVIOUS
<1>1. \A v \in PodViews : v = NoPods
  BY DEF Init, PodViews
<1>2. \A n \in PodNames : NoPods[n] = NoPod
  BY DEF NoPods
<1>3. rec.pod = NoPod
  BY DEF Init, Idle
<1> QED BY <1>1, <1>2, <1>3 DEF PodInv, PodIdentity, RecPodKnown

\* Only DriftPod ends a Reconcile at "driftPod" and changes a Pod.
LEMMA DriftStepIsDriftPod ==
    ASSUME BaseInv, [Next]_vars, rec.call = "driftPod", rec # rec', pods' # pods
    PROVE  DriftPod
<1>1. CASE ControllerStep
  BY <1>1 DEF ControllerStep, Reconcile, AddFinalizer, PausePod, PauseStatus, CreatePod,
     CreateFailed, DriftStatus, SyncStatus, reconcileService, ServiceStatus, DeletionPod,
     RemoveFinalizer, Idle
<1>2. CASE HealerStep
  BY <1>2 DEF HealerStep, HealCreate, HealGet, HealRecord
<1>3. CASE ClientStep
  BY <1>3 DEF ClientStep, ClientCreate, CreateAgent, ClientPatch, WriteSpec,
     ClientAnnotate, ClientDelete, DeleteAgent, ClientDeletePod,
     ClientDeleteService, ControllerUnchanged
<1>4. CASE ClusterStep
  BY <1>4 DEF ClusterStep, DeliverAgent, DeliverPods, DeliverService, CollectAgent,
     CollectService, KubeletPhase, KubeletRemove, CollectPod, ControllerUnchanged
<1>5. CASE Restart
  BY <1>5 DEF Restart
<1>6. CASE UNCHANGED vars
  BY <1>6 DEF vars
<1> QED BY <1>1, <1>2, <1>3, <1>4, <1>5, <1>6 DEF Next

\* The Pod that DriftPod deletes differs from the version that was read, which lies
\* between the one it was built from and the stored one: it is not the stored one.
LEMMA DriftOutdated ==
    ASSUME BaseInv, OrderInv, PodInv, DriftPod, agent # NoAgent,
           NEW n \in PodNames, pods'[n] # pods[n]
    PROVE  ~(pods[n].owner = agent.uid /\ pods[n].generation = agent.generation)
<1>1. /\ rec.call = "driftPod" /\ rec \in Reconciling /\ rec.agent \in Agent
      /\ rec.pod \in Pod /\ rec.pod # NoPod /\ rec.pod.name \in PodNames
      /\ specChanged(rec.agent, rec.pod)
  BY RecBusy DEF BaseInv, RecCalls, DriftPod, Pod
<1>2. n = rec.pod.name /\ pods[n] # NoPod
  <2>1. MarkPod(rec.pod.name)
    BY DEF DriftPod, KeepPods
  <2>2. pods' = pods \/ (pods[rec.pod.name] # NoPod /\ pods' = [pods EXCEPT ![rec.pod.name].deleting = TRUE])
    BY <2>1 DEF MarkPod, PutPods, KeepPods
  <2> QED BY <1>1, <2>2 DEF BaseInv, TypeOK, PodMap
<1>3. pods[n].generation # rec.agent.generation
  <2>1. SamePod(rec.pod, pods[n])
    BY <1>1, <1>2 DEF PodInv, RecPodKnown, PodViews
  <2> QED BY <1>1, <2>1 DEF specChanged, SamePod
<1>4. rec.agent \in Versions /\ agent \in Versions
  BY <1>1, NullsAreNoObjects DEF Versions
<1>5. /\ NotAfter(pods[n].owner, pods[n].generation, rec.agent)
      /\ NotAfter(rec.agent.uid, rec.agent.generation, agent)
  BY <1>2, <1>4 DEF OrderInv, PodsOrdered, StoredIsLast
<1> QED BY <1>2, <1>3, <1>4, <1>5, VersionTypes DEF NotAfter, BaseInv

\* specChanged reads two caches, and the Pod is deleted after another call: still,
\* no Pod of the stored generation of the stored Agent is ever deleted for drift.
THEOREM DriftIsReal == Spec => DriftDeletesOnlyOutdated
<1> DEFINE Inv == BaseInv /\ OrderInv /\ PodInv
           Outdated == \A n \in PodNames :
               (rec.call = "driftPod" /\ rec # rec' /\ pods'[n] # pods[n] /\ agent # NoAgent)
                  => ~(pods[n].owner = agent.uid /\ pods[n].generation = agent.generation)
<1>1. Init => Inv
  BY BaseInit, OrderInit, PodInvInit
<1>2. Inv /\ [Next]_vars => Inv'
  BY BaseInductive, OrderInductive, PodInvInductive
<1>3. Inv /\ [Next]_vars => [Outdated]_vars
  <2> SUFFICES ASSUME Inv, [Next]_vars, NEW n \in PodNames, rec.call = "driftPod",
                      rec # rec', pods'[n] # pods[n], agent # NoAgent
               PROVE  ~(pods[n].owner = agent.uid /\ pods[n].generation = agent.generation)
    OBVIOUS
  <2>1. DriftPod
    BY DriftStepIsDriftPod
  <2> QED BY <2>1, DriftOutdated
<1> QED BY <1>1, <1>2, <1>3, PTL DEF Spec, DriftDeletesOnlyOutdated

-----------------------------------------------------------------------------
(* No work is forgotten: what a Reconcile leaves, an event takes up.       *)

\* The Pods that the cache holds, or will hold, are the stored ones.
PodCacheCurrent ==
    IF podEvents = <<>> THEN podCache = pods ELSE podEvents[Len(podEvents)] = pods

\* The version a of the Agent and this view of the Pods need no further Reconcile.
Settled(a, view) ==
    a # NoAgent =>
        IF a.deleting THEN agentFinalizer \notin a.finalizers
        ELSE /\ a.spec.paused /\ agentFinalizer \in a.finalizers
             /\ \A n \in PodNames : ~Live(view[n])

\* The calls from which a Reconcile may return without asking to be called again.
LastCalls == {"pausePod", "pauseStatus", "deletionPod", "removeFinalizer"}

\* What such a Reconcile works on, as long as nothing has queued the Agent again: the
\* versions in the caches.  The Pod it deletes for a pause is live there, so that the
\* deletion will be seen; when it found none, there is none, or an event is due.
LastCallsCurrent ==
    /\ rec.call \in {"pausePod", "pauseStatus"} =>
          ~rec.agent.deleting /\ rec.agent.spec.paused /\ agentFinalizer \in rec.agent.finalizers
    /\ ~queued /\ rec.call \in LastCalls => rec.agent = agentCache
    /\ ~queued /\ rec.call = "pausePod" => Live(podCache[rec.pod.name])
    /\ ~queued /\ rec.call = "pauseStatus" =>
          podEvents # <<>> \/ \A n \in PodNames : ~Live(podCache[n])

\* Without a Reconcile running or due, an event is on its way or all is settled.
IdleSettled ==
    ~queued /\ rec = Idle =>
        agentEvents # <<>> \/ podEvents # <<>> \/ Settled(agentCache, podCache)

\* The invariant: NothingForgotten speaks of the stored objects, while a Reconcile
\* that returns for good has only seen the caches.
SettledInv == PodCacheCurrent /\ LastCallsCurrent /\ IdleSettled

\* A step of the shape Step sends what it stores, and takes nothing off its way.
LEMMA ViewsStep ==
    ASSUME BaseInv, PodCacheCurrent, Step
    PROVE  /\ PodCacheCurrent'
           /\ agentEvents # <<>> => agentEvents' # <<>>
           /\ podEvents # <<>> => podEvents' # <<>>
<1>1. TypeOK /\ UNCHANGED podCache
  BY DEF BaseInv, Step, caches
<1>2. ASSUME NEW new \in PodMap, PutPods(new)
      PROVE  PodCacheCurrent' /\ (podEvents # <<>> => podEvents' # <<>>)
  <2>1. CASE KeepPods
    BY <1>1, <2>1 DEF PodCacheCurrent, KeepPods
  <2>2. CASE pods' = new /\ podEvents' = Append(podEvents, new)
    <3>1. podEvents' # <<>> /\ podEvents'[Len(podEvents')] = new
      BY <1>1, <2>2 DEF TypeOK
    <3> QED BY <2>2, <3>1 DEF PodCacheCurrent
  <2> QED BY <1>2, <2>1, <2>2 DEF PutPods
<1>3. PodCacheCurrent' /\ (podEvents # <<>> => podEvents' # <<>>)
  <2>1. CASE KeepPods
    BY <1>1, <2>1 DEF PodCacheCurrent, KeepPods
  <2>2. ASSUME rec.call = "createPod", NEW n \in FreshNames,
               PutPods([pods EXCEPT ![n] = buildPod(n, rec.agent)])
        PROVE  PodCacheCurrent' /\ (podEvents # <<>> => podEvents' # <<>>)
    BY <1>1, <1>2, <2>2, RecBusy, NewPodMap DEF FreshNames
  <2> QED BY <1>2, <2>1, <2>2 DEF Step, PodStep
<1>4. agentEvents # <<>> => agentEvents' # <<>>
  <2>1. lastUID + 1 \in Nat
    BY <1>1 DEF TypeOK
  <2>2. UNCHANGED agentEvents \/ \E x \in Agent \cup {NoAgent} : Publish(x)
    BY <2>1, NewAgentType DEF Step, AgentStep, KeepAgent, Create
  <2> QED BY <1>1, <2>2, PublishFacts
<1> QED BY <1>3, <1>4

\* Steps beside the Reconcile keep what it works on, and what nothing waits for.
LEMMA SettledBeside ==
    ASSUME BaseInv, SettledInv, Step, UNCHANGED <<rec, queued>>
    PROVE  SettledInv'
<1>1. UNCHANGED <<agentCache, podCache>>
  BY DEF Step, caches
<1>2. LastCallsCurrent'
  BY <1>1, ViewsStep DEF SettledInv, LastCallsCurrent
<1>3. IdleSettled'
  BY <1>1, ViewsStep DEF SettledInv, IdleSettled, Settled
<1> QED BY <1>2, <1>3, ViewsStep DEF SettledInv

\* A Reconcile that asks to be called again is not forgotten.
LEMMA SettledReturn ==
    ASSUME PodCacheCurrent', rec' = Idle, queued'
    PROVE  SettledInv'
BY DEF SettledInv, LastCallsCurrent, IdleSettled, LastCalls, Idle

\* Nor is one that goes on to a call that makes it ask.
LEMMA SettledContinue ==
    ASSUME PodCacheCurrent', rec'.call \notin LastCalls \cup {"none"}
    PROVE  SettledInv'
BY DEF SettledInv, LastCallsCurrent, IdleSettled, LastCalls, Idle

\* The calls of a Reconcile that always asks to be called again.
LEMMA SettledAsks ==
    ASSUME BaseInv, SettledInv,
           \/ AddFinalizer \/ CreatePod \/ CreateFailed \/ DriftStatus \/ DriftPod
           \/ SyncStatus \/ reconcileService \/ ServiceStatus
    PROVE  SettledInv'
<1>1. PodCacheCurrent'
  BY ViewsStep, AddFinalizerStep, CreatePodStep, CreateFailedStep, DriftStatusStep, DriftPodStep,
     SyncStatusStep, ReconcileServiceStep, ServiceStatusStep DEF SettledInv
<1>2. rec \in Reconciling
  BY RecBusy DEF BaseInv, AddFinalizer, CreatePod, CreateFailed, DriftStatus, DriftPod, SyncStatus,
     reconcileService, ServiceStatus
<1>3. CASE Return(TRUE)
  BY <1>1, <1>3, SettledReturn DEF Return
<1>4. ASSUME NEW c \in {"createFailed", "driftPod", "serviceStatus"}, Continue(c)
      PROVE  SettledInv'
  <2>1. rec'.call = c
    BY <1>2, <1>4 DEF Continue, Reconciling
  <2> QED BY <1>1, <2>1, SettledContinue DEF LastCalls
<1>5. ASSUME NEW w, rec' = [rec EXCEPT !.call = "service", !.agent = w]
      PROVE  SettledInv'
  <2>1. rec'.call = "service"
    BY <1>2, <1>5 DEF Reconciling
  <2> QED BY <1>1, <2>1, SettledContinue DEF LastCalls
<1> QED BY <1>3, <1>4, <1>5 DEF AddFinalizer, CreatePod, CreateFailed, DriftStatus, DriftPod,
        SyncStatus, reconcileService, ServiceStatus

\* A Pod that is live in the cache is deleted in the store, or was before and the
\* event is still due.
LEMMA SettledPausePod ==
    ASSUME BaseInv, SettledInv, PausePod
    PROVE  SettledInv'
<1>1. /\ PodCacheCurrent' /\ (podEvents # <<>> => podEvents' # <<>>)
      /\ UNCHANGED <<agentCache, podCache>>
  BY ViewsStep, PausePodStep DEF SettledInv, PausePod, caches
<1>2. rec \in Reconciling /\ rec.pod.name \in PodNames /\ rec.call = "pausePod"
  BY RecBusy DEF BaseInv, PausePod, RecCalls, Pod
<1>3. CASE Return(TRUE)
  BY <1>1, <1>3, SettledReturn DEF Return
<1>4. CASE MarkPod(rec.pod.name) /\ Continue("pauseStatus")
  <2>1. rec'.call = "pauseStatus" /\ rec'.agent = rec.agent /\ queued' = queued
    BY <1>2, <1>4 DEF Continue, Reconciling
  <2>2. ~queued => podEvents' # <<>>
    <3> SUFFICES ASSUME ~queued, podEvents = <<>> PROVE podEvents' # <<>>
      BY <1>1
    <3>1. Live(pods[rec.pod.name])
      BY <1>2 DEF SettledInv, PodCacheCurrent, LastCallsCurrent
    <3>2. [pods EXCEPT ![rec.pod.name].deleting = TRUE] # pods
      BY <1>2, <3>1 DEF Live, BaseInv, TypeOK, PodMap, Pod
    <3>3. podEvents' = Append(podEvents, [pods EXCEPT ![rec.pod.name].deleting = TRUE])
      BY <1>4, <3>1, <3>2 DEF MarkPod, PutPods, Live
    <3> QED BY <3>3 DEF BaseInv, TypeOK
  <2>3. LastCallsCurrent'
    BY <1>1, <1>2, <2>1, <2>2 DEF SettledInv, LastCallsCurrent, LastCalls
  <2>4. IdleSettled'
    BY <2>1 DEF IdleSettled, Idle
  <2> QED BY <1>1, <2>3, <2>4 DEF SettledInv
<1> QED BY <1>3, <1>4 DEF PausePod

\* A Reconcile of a paused Agent returns for good when no Pod is left, or an event of
\* one is due.
LEMMA SettledPauseStatus ==
    ASSUME BaseInv, SettledInv, PauseStatus
    PROVE  SettledInv'
<1>1. /\ PodCacheCurrent' /\ (podEvents # <<>> => podEvents' # <<>>)
      /\ UNCHANGED <<agentCache, podCache>>
      /\ rec.call = "pauseStatus" /\ rec' = Idle /\ (queued \/ ~queued')
  BY ViewsStep, PauseStatusStep DEF SettledInv, PauseStatus, caches, Return, BaseInv, TypeOK
<1>2. ~queued => podEvents' # <<>> \/ Settled(agentCache, podCache)
  BY <1>1 DEF SettledInv, LastCallsCurrent, LastCalls, Settled
<1>3. queued => queued'
  BY DEF PauseStatus, Return
<1>4. IdleSettled'
  BY <1>1, <1>2, <1>3 DEF IdleSettled, Settled
<1>5. LastCallsCurrent'
  BY <1>1 DEF LastCallsCurrent, LastCalls, Idle
<1> QED BY <1>1, <1>4, <1>5 DEF SettledInv

\* handleDeletion goes on to the finalizer, or is called again.
LEMMA SettledDeletionPod ==
    ASSUME BaseInv, SettledInv, DeletionPod
    PROVE  SettledInv'
<1>1. PodCacheCurrent' /\ UNCHANGED <<agentCache, podCache>>
  BY ViewsStep, DeletionPodStep DEF SettledInv, DeletionPod, caches
<1>2. rec \in Reconciling /\ rec.call = "deletionPod"
  BY RecBusy DEF BaseInv, DeletionPod
<1>3. CASE Return(TRUE)
  BY <1>1, <1>3, SettledReturn DEF Return
<1>4. CASE Continue("removeFinalizer")
  <2>1. rec'.call = "removeFinalizer" /\ rec'.agent = rec.agent /\ queued' = queued
    BY <1>2, <1>4 DEF Continue, Reconciling
  <2>2. LastCallsCurrent'
    BY <1>1, <1>2, <2>1 DEF SettledInv, LastCallsCurrent, LastCalls
  <2>3. IdleSettled'
    BY <2>1 DEF IdleSettled, Idle
  <2> QED BY <1>1, <2>2, <2>3 DEF SettledInv
<1> QED BY <1>3, <1>4 DEF DeletionPod

\* handleDeletion returns for good after the Update without the finalizer, whose event
\* is due unless there was none, and when it finds that the Agent is gone, which the
\* cache does not know yet.
LEMMA SettledRemoveFinalizer ==
    ASSUME BaseInv, SettledInv, RemoveFinalizer
    PROVE  SettledInv'
<1>1. /\ PodCacheCurrent' /\ (agentEvents # <<>> => agentEvents' # <<>>)
      /\ UNCHANGED <<agentCache, podCache>>
  BY ViewsStep, RemoveFinalizerStep DEF SettledInv, RemoveFinalizer, caches
<1>2. rec \in Reconciling /\ rec.agent \in Agent /\ rec.call = "removeFinalizer" /\ rec.agent.deleting
  BY RecBusy DEF BaseInv, RemoveFinalizer, RecCalls
<1>3. CASE Return(TRUE)
  BY <1>1, <1>3, SettledReturn DEF Return
<1>4. ASSUME ~queued, \/ fresh /\ Put([agent EXCEPT !.finalizers = @ \ {agentFinalizer}])
                      \/ ~fresh /\ agent = NoAgent
      PROVE  agentEvents' # <<>> \/ Settled(agentCache, podCache)
  <2>0. rec.agent = agentCache
    BY <1>2, <1>4 DEF SettledInv, LastCallsCurrent, LastCalls
  <2>1. CASE agent = NoAgent
    <3>1. agentCache # agent
      BY <1>2, <2>0, <2>1, NullsAreNoObjects
    <3>2. agentEvents # <<>>
      BY <3>1 DEF BaseInv, CacheCurrent
    <3> QED BY <1>1, <3>2
  <2>2. CASE fresh /\ Put([agent EXCEPT !.finalizers = @ \ {agentFinalizer}])
    <3> DEFINE a == [agent EXCEPT !.finalizers = @ \ {agentFinalizer}]
    <3>1. agent = agentCache /\ agent \in Agent /\ agent.deleting
      BY <1>2, <2>0, <2>2 DEF BaseInv, FreshIsStored
    <3>2. a \in Agent /\ agentFinalizer \notin a.finalizers
      BY <3>1 DEF Agent
    <3>3. CASE a = agent
      BY <3>1, <3>2, <3>3 DEF Settled
    <3>4. CASE Publish(a) \/ Publish(NoAgent)
      BY <3>2, <3>4, PublishFacts DEF BaseInv
    <3> QED BY <2>2, <3>3, <3>4 DEF Put
  <2> QED BY <1>4, <2>1, <2>2
<1>5. CASE /\ rec' = Idle /\ (~queued' => ~queued)
           /\ \/ fresh /\ Put([agent EXCEPT !.finalizers = @ \ {agentFinalizer}])
              \/ ~fresh /\ agent = NoAgent
  <2>1. IdleSettled'
    BY <1>1, <1>4, <1>5 DEF IdleSettled, Settled
  <2>2. LastCallsCurrent'
    BY <1>5 DEF LastCallsCurrent, LastCalls, Idle
  <2> QED BY <1>1, <2>1, <2>2 DEF SettledInv
<1>6. CASE ~fresh /\ Return(agent # NoAgent)
  <2>1. rec' = Idle /\ (agent = NoAgent \/ queued') /\ (~queued' => ~queued)
    BY <1>6 DEF Return
  <2> QED BY <1>1, <1>5, <1>6, <2>1, SettledReturn
<1>7. CASE fresh /\ Put([agent EXCEPT !.finalizers = @ \ {agentFinalizer}]) /\ Return(FALSE)
  <2>1. rec' = Idle /\ (~queued' => ~queued)
    BY <1>7 DEF Return
  <2> QED BY <1>5, <1>7, <2>1
<1> QED BY <1>3, <1>6, <1>7 DEF RemoveFinalizer, UpdateAccepted

\* The handler of every event queues the Agent.
LEMMA SettledDeliver ==
    ASSUME BaseInv, SettledInv, DeliverAgent \/ DeliverPods \/ DeliverService
    PROVE  SettledInv'
<1>1. queued' /\ rec' = rec
  BY DEF DeliverAgent, DeliverPods, DeliverService
<1>2. LastCallsCurrent' /\ IdleSettled'
  BY <1>1 DEF SettledInv, LastCallsCurrent, IdleSettled
<1>3. PodCacheCurrent'
  <2>1. CASE UNCHANGED <<pods, podEvents, podCache>>
    BY <2>1 DEF SettledInv, PodCacheCurrent
  <2>2. CASE DeliverPods
    <3>1. /\ podEvents \in Seq(PodMap) /\ podEvents # <<>>
          /\ podCache' = Head(podEvents) /\ podEvents' = Tail(podEvents)
          /\ pods' = pods /\ podEvents[Len(podEvents)] = pods
      BY <2>2 DEF BaseInv, TypeOK, SettledInv, PodCacheCurrent, DeliverPods
    <3>2. CASE Len(podEvents) = 1
      BY <3>1, <3>2, TailFacts DEF PodCacheCurrent
    <3>3. CASE Len(podEvents) # 1
      <4>1. /\ Tail(podEvents) # <<>>
            /\ Len(Tail(podEvents)) \in 1..Len(Tail(podEvents))
            /\ Len(Tail(podEvents)) + 1 = Len(podEvents)
        BY <3>1, <3>3, TailFacts
      <4>2. Tail(podEvents)[Len(Tail(podEvents))] = podEvents[Len(podEvents)]
        BY <3>1, <4>1, TailFacts
      <4> QED BY <3>1, <4>1, <4>2 DEF PodCacheCurrent
    <3> QED BY <3>2, <3>3
  <2> QED BY <2>1, <2>2 DEF DeliverAgent, DeliverService, KeepPods
<1> QED BY <1>2, <1>3 DEF SettledInv

\* A Reconcile begins with what the caches hold; there is nothing to do for an Agent
\* that is not there.
LEMMA SettledReconcile ==
    ASSUME BaseInv, PodInv, SettledInv, Reconcile
    PROVE  SettledInv'
<1>1. UNCHANGED <<agentCache, agentEvents, pods, podEvents, podCache>>
  BY DEF Reconcile, KeepAgent, KeepPods, caches
<1>2. PodCacheCurrent'
  BY <1>1 DEF SettledInv, PodCacheCurrent
<1>3. CASE agentCache = NoAgent /\ UNCHANGED rec
  <2>1. rec.call = "none"
    BY DEF Reconcile, Idle
  <2>2. LastCallsCurrent'
    BY <1>3, <2>1 DEF LastCallsCurrent, LastCalls
  <2>3. IdleSettled'
    BY <1>1, <1>3 DEF IdleSettled, Settled
  <2> QED BY <1>2, <2>2, <2>3 DEF SettledInv
<1>4. ASSUME agentCache # NoAgent, NEW pod \in findAgentPod,
             rec' = [call |-> FirstCall(agentCache, pod), agent |-> agentCache, pod |-> pod]
      PROVE  SettledInv'
  <2>1. agentCache \in Agent /\ agentCache.deleting \in BOOLEAN /\ agentCache.spec.paused \in BOOLEAN
    BY <1>4 DEF BaseInv, TypeOK, Agent, AgentSpec
  <2>2. rec'.call = FirstCall(agentCache, pod) /\ rec'.agent = agentCache /\ rec'.pod = pod
    BY <1>4
  <2>3. rec'.call \in {"pausePod", "pauseStatus"} =>
           ~agentCache.deleting /\ agentCache.spec.paused /\ agentFinalizer \in agentCache.finalizers
    BY <2>1, <2>2 DEF FirstCall
  <2>4. rec'.call = "pausePod" => Live(podCache[pod.name])
    <3>1. rec'.call = "pausePod" => pod # NoPod
      BY <2>1, <2>2 DEF FirstCall
    <3>2. pod # NoPod => \E n \in PodNames : pod = podCache[n] /\ Live(podCache[n])
      BY DEF findAgentPod
    <3>3. \A n \in PodNames : podCache[n] # NoPod => podCache[n].name = n
      BY DEF PodInv, PodIdentity, PodViews
    <3> QED BY <3>1, <3>2, <3>3 DEF Live
  <2>5. rec'.call = "pauseStatus" => \A n \in PodNames : ~Live(podCache[n])
    <3>1. rec'.call = "pauseStatus" => pod = NoPod
      BY <2>1, <2>2 DEF FirstCall
    <3>2. pod = NoPod => \A n \in PodNames : ~Live(podCache[n])
      BY DEF findAgentPod, Live
    <3> QED BY <3>1, <3>2
  <2>6. rec'.call # "none"
    BY <2>1, <2>2, <1>4, FirstCallType DEF BaseInv, TypeOK, PodMap, findAgentPod, Calls, Updates
  <2>7. LastCallsCurrent'
    BY <1>1, <2>2, <2>3, <2>4, <2>5 DEF LastCallsCurrent
  <2>8. IdleSettled'
    BY <2>6 DEF IdleSettled, Idle
  <2> QED BY <1>2, <2>7, <2>8 DEF SettledInv
<1> QED BY <1>3, <1>4 DEF Reconcile

\* Every step preserves SettledInv.
LEMMA SettledInductive ==
    ASSUME BaseInv, PodInv, SettledInv, [Next]_vars
    PROVE  SettledInv'
<1>1. CASE ControllerStep
  BY <1>1, SettledReconcile, SettledAsks, SettledPausePod, SettledPauseStatus, SettledDeletionPod,
     SettledRemoveFinalizer DEF ControllerStep
<1>2. CASE HealerStep
  <2>1. UNCHANGED <<rec, queued>>
    BY <1>2 DEF HealerStep, HealCreate, HealGet, HealRecord
  <2> QED BY <1>2, <2>1, SettledBeside, HealCreateStep, HealGetStep, HealRecordStep DEF HealerStep
<1>3. CASE ClientStep
  <2>1. UNCHANGED <<rec, queued>>
    BY <1>3 DEF ClientStep, ClientCreate, CreateAgent, ClientPatch, WriteSpec, ClientAnnotate,
       ClientDelete, DeleteAgent, ClientDeletePod, ClientDeleteService, ControllerUnchanged
  <2> QED BY <1>3, <2>1, SettledBeside, ClientCreateStep, ClientPatchStep, ClientAnnotateStep,
          ClientDeleteStep, ClientDeletePodStep, ClientDeleteServiceStep DEF ClientStep
<1>4. CASE DeliverAgent \/ DeliverPods \/ DeliverService
  BY <1>4, SettledDeliver
<1>5. CASE \/ CollectAgent \/ CollectService
           \/ \E n \in PodNames : KubeletPhase(n) \/ KubeletRemove(n) \/ CollectPod(n)
  <2>1. UNCHANGED <<rec, queued>>
    BY <1>5 DEF CollectAgent, CollectService, KubeletPhase, KubeletRemove, CollectPod,
       ControllerUnchanged
  <2> QED BY <1>5, <2>1, SettledBeside, CollectAgentStep, CollectServiceStep, KubeletPhaseStep,
          KubeletRemoveStep, CollectPodStep
<1>6. CASE Restart
  <2>1. PodCacheCurrent' /\ rec' = Idle /\ queued'
    BY <1>6 DEF Restart, PodCacheCurrent
  <2> QED BY <2>1, SettledReturn
<1>7. CASE UNCHANGED vars
  BY <1>7 DEF vars, SettledInv, PodCacheCurrent, LastCallsCurrent, IdleSettled, Settled
<1> QED BY <1>1, <1>2, <1>3, <1>4, <1>5, <1>6, <1>7 DEF Next, ClusterStep

\* No work is forgotten: although a Reconcile of a paused Agent or of one that is being
\* deleted does not ask to be called again, and decides from stale caches, what it
\* has left undone is always followed by an event that calls it.
THEOREM NoWorkIsForgotten == Spec => []NothingForgotten
<1> DEFINE Inv == BaseInv /\ PodInv /\ SettledInv
<1>1. Init => Inv
  <2>1. Init => SettledInv
    BY DEF Init, SettledInv, PodCacheCurrent, LastCallsCurrent, LastCalls, IdleSettled, Settled, Idle
  <2> QED BY <2>1, BaseInit, PodInvInit
<1>2. Inv /\ [Next]_vars => Inv'
  BY BaseInductive, PodInvInductive, SettledInductive
<1>3. Inv => NothingForgotten
  BY DEF BaseInv, CacheCurrent, SettledInv, PodCacheCurrent, IdleSettled, Settled, NothingForgotten, AtRest
<1> QED BY <1>1, <1>2, <1>3, PTL DEF Spec

=============================================================================
