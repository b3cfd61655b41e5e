----------------------------- MODULE RestApiProofs -----------------------------
(***************************************************************************)
(* The REST API keeps the promises of RestApi, for any requests, any       *)
(* number of clients and all the bounds of AgentController: its requests   *)
(* are clients of the controller, no request takes back what another has   *)
(* written, writes of variables mean what they say, and what DELETE has    *)
(* deleted is not resurrected.                                             *)
(***************************************************************************)
EXTENDS RestApi, AgentOrderProofs, AgentHealingProofs, EnvVarsProofs

\* The mark on a copy tells the truth: the copy is the stored version.
SameIsStored == \A c \in Clients : call[c].same => call[c].copy = agent

\* RestTypeOK is not inductive alone: that a request is a client needs the types of
\* what is stored, and that the cache is current when nothing is on its way to it.
RestInv == BaseInv /\ RestTypeOK /\ SameIsStored

-----------------------------------------------------------------------------
(* Requests and what they write.                                           *)

\* A client that is busy has a request of the given ones.
LEMMA RequestType ==
    ASSUME RestTypeOK, NEW c \in Clients, Busy(c)
    PROVE  Request(c) \in Requests
<1>1. workload[c] \in Seq(Requests) /\ answered[c] \in Nat
  BY DEF RestTypeOK
<1>2. answered[c] + 1 \in 1..Len(workload[c])
  BY <1>1 DEF Busy
<1> QED BY <1>1, <1>2 DEF Request

\* A handler at work has read an Agent.
LEMMA CallTypes ==
    ASSUME RestTypeOK, NEW c \in Clients, call[c].at # "none"
    PROVE  /\ call[c].copy \in Agent /\ call[c].copy.spec \in AgentSpec
           /\ Busy(c) /\ Request(c) \in Requests
<1>1. call[c] \in Call /\ call[c].copy # NoAgent /\ Busy(c)
  BY DEF RestTypeOK
<1>2. call[c].copy \in Agent
  BY <1>1 DEF Call
<1> QED BY <1>1, <1>2, RequestType DEF Agent

\* What a handler makes of a spec is a spec.
LEMMA ModifiedType ==
    ASSUME NEW r \in Requests, NEW s \in AgentSpec
    PROVE  Modified(r, s) \in AgentSpec
<1>1. newPayload(r, s.payload) \in Payloads
  BY RestAssumption DEF AgentSpec
<1> QED BY <1>1 DEF Modified, newPaused, newSelfHealingDisabled, AgentSpec

\* So is what a merge patch leaves behind.
LEMMA MergedSpecType ==
    ASSUME NEW b \in AgentSpec, NEW m \in AgentSpec, NEW s \in AgentSpec
    PROVE  MergedSpec(b, m, s) \in AgentSpec
<1>1. m.payload \in [image : Images, env : Envs] /\ s.payload \in [image : Images, env : Envs]
  BY RestAssumption DEF AgentSpec
<1>2. [image |-> Merged(b.payload.image, m.payload.image, s.payload.image),
       env   |-> Merged(b.payload.env, m.payload.env, s.payload.env)] \in Payloads
  BY <1>1, RestAssumption DEF Merged
<1> QED BY <1>2 DEF MergedSpec, Merged, AgentSpec

\* And what the write of a handler leaves behind.
LEMMA StoredType ==
    ASSUME RestInv, NEW c \in Clients, call[c].at = "write", agent # NoAgent
    PROVE  Stored(c) \in AgentSpec
<1>1. call[c].copy.spec \in AgentSpec /\ Request(c) \in Requests
  BY CallTypes DEF RestInv
<1>2. agent.spec \in AgentSpec
  BY DEF RestInv, BaseInv, TypeOK, Agent
<1> QED BY <1>1, <1>2, ModifiedType, MergedSpecType DEF Stored

-----------------------------------------------------------------------------
(* Requests are clients of the controller.                                 *)

\* A write that is accepted is a client step, or none.
LEMMA ApplyIsClient ==
    ASSUME RestInv, NEW c \in Clients, call[c].at = "write", Apply(c)
    PROVE  [ClientPatch \/ ClientAnnotate]_vars
<1>1. Stored(c) \in Specs
  BY StoredType, RestAssumption DEF Apply, Accepted
<1> QED BY <1>1 DEF Apply, ClientPatch, NoWrite

\* A step of a handler is a client step, or none.
LEMMA HandlerIsClient ==
    ASSUME RestInv, NEW c \in Clients, HandlerStep(c)
    PROVE  [ClientStep]_vars
<1>1. CASE handleCreateAgent(c)
  <2>1. Request(c).spec \in Specs
    BY <1>1, RequestType, RestAssumption DEF handleCreateAgent, RestInv
  <2> QED BY <1>1, <2>1 DEF handleCreateAgent, ClientStep, ClientCreate, NoWrite
<1>2. CASE KubectlDelete(c)
  BY <1>2, RestAssumption DEF KubectlDelete, ClientStep, ClientDelete
<1>3. CASE Get(c)
  BY <1>3 DEF Get, NoWrite
<1>4. CASE Write(c)
  BY <1>4, ApplyIsClient DEF Write, ClientStep, NoWrite
<1>5. CASE Delete(c)
  BY <1>5, RestAssumption DEF Delete, ClientStep, ClientDelete, NoWrite
<1> QED BY <1>1, <1>2, <1>3, <1>4, <1>5 DEF HandlerStep

\* Every step of the API is one of the controller and its clients, or none.
LEMMA StepIsNext ==
    ASSUME RestInv, [RestNext]_<<vars, restVars>>
    PROVE  [Next]_vars
<1>1. CASE \E c \in Clients : HandlerStep(c)
  BY <1>1, HandlerIsClient DEF Next
<1>2. CASE OtherStep
  BY <1>2 DEF OtherStep, Next
<1>3. CASE RestRestart
  BY <1>3 DEF RestRestart, Next
<1> QED BY <1>1, <1>2, <1>3 DEF RestNext

-----------------------------------------------------------------------------
(* RestInv is inductive.                                                   *)

\* What is stored changes only when a version is stored.
LEMMA NotWritten ==
    ASSUME BaseInv, [Next]_vars, ~Written
    PROVE  agent' = agent
<1>1. ASSUME NEW v \in Agent \cup {NoAgent}, Publish(v) PROVE FALSE
  <2>1. Len(agentEvents) \in Nat
    BY DEF BaseInv, TypeOK
  <2> QED BY <1>1, <2>1, PublishFacts DEF BaseInv, Written
<1>2. CASE Step
  <2>1. lastUID + 1 \in Nat
    BY DEF BaseInv, TypeOK
  <2> QED BY <1>1, <1>2, <2>1, NewAgentType DEF Step, AgentStep, KeepAgent, Create
<1>3. CASE DeliverAgent \/ DeliverPods \/ DeliverService \/ Restart \/ Reconcile
  BY <1>3 DEF DeliverAgent, DeliverPods, DeliverService, Restart, Reconcile, KeepAgent
<1>4. CASE UNCHANGED vars
  BY <1>4 DEF vars
<1> QED BY <1>2, <1>3, <1>4, NextShape

\* A step ages the copies of the handlers it is not about.
LEMMA AgedFacts ==
    ASSUME RestTypeOK
    PROVE  /\ Aged \in [Clients -> Call]
           /\ \A c \in Clients : /\ Aged[c].at = call[c].at /\ Aged[c].copy = call[c].copy
                                 /\ Aged[c].same = (call[c].same /\ ~Written)
BY DEF RestTypeOK, Aged, Call

\* What becomes of a handler in a step: it answers, waits, goes on to delete, or has
\* read the Agent.
CallStep(c) ==
    \/ call'[c].at = "none" /\ ~call'[c].same
    \/ /\ answered'[c] = answered[c]
       /\ call'[c].copy = call[c].copy
       /\ call'[c].same => call[c].same /\ ~Written
       /\ call'[c].at = call[c].at
    \/ /\ answered'[c] = answered[c]
       /\ call[c].at = "write" /\ Request(c).op = "delete" /\ call'[c].at = "delete"
       /\ agent # NoAgent
       /\ call'[c].copy # NoAgent /\ call'[c].copy.uid = agent.uid
       /\ ~call'[c].same
    \/ /\ answered'[c] = answered[c]
       /\ Busy(c) /\ Request(c).op \notin {"create", "kubectlDelete"}
       /\ UNCHANGED agent
       /\ agentCache # NoAgent
       /\ call'[c].at = NextCall(Request(c), agentCache)
       /\ call'[c].copy = agentCache
       /\ call'[c].same => agentEvents = <<>>

\* The same for all handlers.
CallSteps ==
    /\ UNCHANGED workload
    /\ answered' \in [Clients -> Nat]
    /\ call' \in [Clients -> Call]
    /\ \A c \in Clients : CallStep(c)

\* An answer ends a call and ages the others.
LEMMA AnswerStep ==
    ASSUME RestTypeOK, NEW c \in Clients, Answer(c)
    PROVE  CallSteps
<1>1. answered' \in [Clients -> Nat] /\ \A d \in Clients \ {c} : answered'[d] = answered[d]
  BY DEF RestTypeOK, Answer
<1>2. NoCall \in Call
  BY DEF NoCall, Call
<1>3. call' \in [Clients -> Call] /\ call'[c] = NoCall /\ \A d \in Clients \ {c} : call'[d] = Aged[d]
  BY <1>2, AgedFacts DEF Answer
<1>4. CallStep(c)
  BY <1>3 DEF CallStep, NoCall
<1>5. \A d \in Clients \ {c} : CallStep(d)
  BY <1>1, <1>3, AgedFacts DEF CallStep
<1> QED BY <1>1, <1>3, <1>4, <1>5 DEF CallSteps, Answer

\* A step that is not about requests ages all calls.
LEMMA AgedStep ==
    ASSUME RestTypeOK, call' = Aged, UNCHANGED <<workload, answered>>
    PROVE  CallSteps
BY AgedFacts DEF CallSteps, CallStep, RestTypeOK

\* A handler reads the Agent.
LEMMA GetStep ==
    ASSUME RestInv, NEW c \in Clients, Get(c)
    PROVE  CallSteps
<1>1. CASE Answer(c)
  BY <1>1, AnswerStep DEF RestInv
<1>2. CASE /\ NextCall(Request(c), agentCache) # "none"
           /\ call' = [call EXCEPT ![c] = [at   |-> NextCall(Request(c), agentCache),
                                           copy |-> agentCache,
                                           same |-> agentEvents = <<>>]]
           /\ UNCHANGED <<workload, answered>>
  <2> DEFINE new == [at   |-> NextCall(Request(c), agentCache),
                     copy |-> agentCache,
                     same |-> agentEvents = <<>>]
  <2>1. new \in Call
    BY DEF RestInv, BaseInv, TypeOK, NextCall, Call
  <2>2. agentCache # NoAgent
    BY <1>2 DEF NextCall
  <2>3. call'[c] = new /\ call' \in [Clients -> Call] /\ \A d \in Clients \ {c} : call'[d] = call[d]
    BY <1>2, <2>1 DEF RestInv, RestTypeOK
  <2>4. ~Written /\ UNCHANGED agent
    BY DEF Get, NoWrite, vars, Written, RestInv, BaseInv, TypeOK
  <2>6. CallStep(c)
    BY <1>2, <2>2, <2>3, <2>4 DEF CallStep, Get
  <2>7. \A d \in Clients \ {c} : CallStep(d)
    BY <1>2, <2>3, <2>4 DEF CallStep
  <2> QED BY <1>2, <2>3, <2>6, <2>7 DEF CallSteps, RestInv, RestTypeOK
<1> QED BY <1>1, <1>2 DEF Get

\* A handler writes, and answers or goes on to delete.
LEMMA WriteStep ==
    ASSUME RestInv, NEW c \in Clients, Write(c)
    PROVE  CallSteps
<1>1. CASE Answer(c)
  BY <1>1, AnswerStep DEF RestInv
<1>2. CASE /\ Request(c).op = "delete" /\ Apply(c)
           /\ call' = [Aged EXCEPT ![c] = [at   |-> "delete",
                                           copy |-> [agent EXCEPT !.spec = Stored(c)],
                                           same |-> FALSE]]
           /\ UNCHANGED <<workload, answered>>
  <2> DEFINE copy == [agent EXCEPT !.spec = Stored(c)]
             new == [at |-> "delete", copy |-> copy, same |-> FALSE]
  <2>0. agent \in Agent /\ agent # NoAgent /\ Stored(c) \in AgentSpec
    BY <1>2, StoredType DEF Write, Apply, Accepted, RestInv, BaseInv, TypeOK
  <2>1. copy \in Agent /\ copy.uid = agent.uid
    BY <2>0 DEF Agent
  <2>2. copy # NoAgent
    BY <2>1, NullsAreNoObjects
  <2> HIDE DEF copy
  <2>3. new \in Call /\ Aged \in [Clients -> Call]
    BY <2>1, AgedFacts DEF RestInv, Call
  <2>4. call' = [Aged EXCEPT ![c] = new]
    BY <1>2 DEF copy
  <2>5. /\ call' \in [Clients -> Call] /\ call'[c] = new
        /\ \A d \in Clients \ {c} : call'[d] = Aged[d]
    BY <2>3, <2>4
  <2>6. CallStep(c)
    BY <1>2, <2>0, <2>1, <2>2, <2>5 DEF CallStep, Write
  <2>7. \A d \in Clients \ {c} : CallStep(d)
    BY <1>2, <2>5, AgedFacts DEF CallStep, RestInv
  <2> QED BY <1>2, <2>5, <2>6, <2>7 DEF CallSteps, RestInv, RestTypeOK
<1> QED BY <1>1, <1>2 DEF Write

\* Every step is of this shape.
LEMMA RestNextCalls ==
    ASSUME RestInv, [RestNext]_<<vars, restVars>>
    PROVE  CallSteps
<1>0. RestTypeOK
  BY DEF RestInv
<1>1. ASSUME NEW c \in Clients, HandlerStep(c)
      PROVE  CallSteps
  BY <1>0, <1>1, AnswerStep, GetStep, WriteStep
     DEF HandlerStep, handleCreateAgent, KubectlDelete, Delete
<1>2. CASE OtherStep
  BY <1>0, <1>2, AgedStep DEF OtherStep
<1>3. CASE RestRestart
  <2>1. answered' \in [Clients -> Nat]
    BY <1>0, <1>3 DEF RestRestart, RestTypeOK
  <2>2. /\ call' \in [Clients -> Call]
        /\ \A c \in Clients : call'[c].at = "none" /\ ~call'[c].same
    BY <1>3 DEF RestRestart, NoCall, Call
  <2> QED BY <1>3, <2>1, <2>2 DEF RestRestart, CallSteps, CallStep
<1>4. CASE UNCHANGED <<vars, restVars>>
  <2>1. call' = Aged
    <3>1. ~Written
      BY <1>4 DEF vars, Written, RestInv, BaseInv, TypeOK
    <3> QED BY <1>0, <1>4, <3>1 DEF restVars, Aged, RestTypeOK, Call
  <2> QED BY <1>0, <1>4, <2>1, AgedStep DEF restVars
<1> QED BY <1>1, <1>2, <1>3, <1>4 DEF RestNext

\* What DELETE has deleted is known by its uid, and so is what the handler knew of.
LEMMA DeletedType ==
    ASSUME RestInv, [RestNext]_<<vars, restVars>>
    PROVE  deleted' \in SUBSET [uid : Nat, known : Nat]
<1>1. ASSUME NEW c \in Clients, Delete(c)
      PROVE  deleted' \in SUBSET [uid : Nat, known : Nat]
  <2>1. call[c].copy.uid \in Nat
    BY <1>1, CallTypes DEF Delete, RestInv, Agent
  <2>2. agent # NoAgent => agent.uid \in Nat
    BY DEF RestInv, BaseInv, TypeOK, Agent
  <2> QED BY <1>1, <2>1, <2>2 DEF Delete, DeleteAgent, RestInv, RestTypeOK
<1>2. CASE UNCHANGED deleted
  BY <1>2 DEF RestInv, RestTypeOK
<1> QED BY <1>1, <1>2 DEF RestNext, HandlerStep, OtherStep, RestRestart, restVars,
                          handleCreateAgent, KubectlDelete, Get, Write

\* Every step preserves RestInv.
LEMMA RestInductive ==
    ASSUME RestInv, [RestNext]_<<vars, restVars>>
    PROVE  RestInv'
<1>0. RestTypeOK /\ CallSteps /\ [Next]_vars /\ BaseInv'
  BY RestNextCalls, StepIsNext, BaseInductive DEF RestInv
<1>1. RestTypeOK'
  <2>1. \A c \in Clients :
           call'[c].at # "none" => /\ Busy(c)'
                                   /\ Request(c)'.op \notin {"create", "kubectlDelete"}
                                   /\ call'[c].copy # NoAgent
    <3> SUFFICES ASSUME NEW c \in Clients, call'[c].at # "none"
                 PROVE  /\ Busy(c)'
                        /\ Request(c)'.op \notin {"create", "kubectlDelete"}
                        /\ call'[c].copy # NoAgent
      OBVIOUS
    <3>1. answered'[c] = answered[c] /\ workload' = workload /\ CallStep(c)
      BY <1>0 DEF CallSteps, CallStep
    <3>2. /\ Busy(c) /\ Request(c).op \notin {"create", "kubectlDelete"}
          /\ call'[c].copy # NoAgent
      BY <1>0, <3>1 DEF CallStep, RestTypeOK
    <3> QED BY <3>1, <3>2 DEF Busy, Request
  <2> QED BY <1>0, <2>1, DeletedType DEF CallSteps, RestTypeOK
<1>2. SameIsStored'
  <2> SUFFICES ASSUME NEW c \in Clients, call'[c].same
               PROVE  call'[c].copy = agent'
    BY DEF SameIsStored
  <2>1. CASE call'[c].copy = call[c].copy /\ call[c].same /\ ~Written
    BY <1>0, <2>1, NotWritten DEF RestInv, SameIsStored
  <2>2. CASE /\ UNCHANGED agent
             /\ call'[c].copy = agentCache
             /\ agentEvents = <<>>
    BY <2>2 DEF RestInv, BaseInv, CacheCurrent
  <2> QED BY <1>0, <2>1, <2>2 DEF CallSteps, CallStep
<1> QED BY <1>0, <1>1, <1>2 DEF RestInv

\* RestInv holds at the beginning.
LEMMA RestInvInit == RestInit => RestInv
<1> SUFFICES ASSUME RestInit PROVE RestInv
  OBVIOUS
<1>1. BaseInv
  BY BaseInit DEF RestInit
<1>2. RestTypeOK
  BY RestAssumption DEF RestInit, RestTypeOK, NoCall, Call
<1>3. SameIsStored
  BY DEF RestInit, SameIsStored, NoCall
<1> QED BY <1>1, <1>2, <1>3 DEF RestInv

-----------------------------------------------------------------------------
(* The theorems of RestInv.                                                *)

\* Everything keeps its type: a handler at work has a request of its client and a copy
\* of an Agent, whatever the others do.
THEOREM RestTypeCorrect == RestSpec => []RestTypeOK
<1>1. RestInv => RestTypeOK
  BY DEF RestInv
<1> QED BY <1>1, RestInvInit, RestInductive, PTL DEF RestSpec

\* The handlers of the REST API and the idle watcher are clients of the controller:
\* what is proved of its Spec holds under this API.
THEOREM ApiIsClient == RestSpec => RequestsAreClients
<1>1. RestInit => Init
  BY DEF RestInit
<1> QED BY <1>1, RestInvInit, RestInductive, StepIsNext, PTL DEF RestSpec, RequestsAreClients, Spec

\* For instance, the generation annotation of a Pod identifies its spec.
THEOREM ApiKeepsGenerations == RestSpec => []PodRunsItsGeneration
BY ApiIsClient, GenerationIdentifiesSpec, PTL DEF RequestsAreClients

-----------------------------------------------------------------------------
(* Nothing is reverted.                                                    *)

\* What an accepted write stores differs from what was stored only in what its request
\* asks for: PUT has read what is stored, and a merge patch holds only what the handler
\* has changed in its copy.
LEMMA StoredAsked ==
    ASSUME RestInv, NEW c \in Clients, call[c].at = "write", Accepted(c)
    PROVE  OnlyAsked(Request(c), agent.spec, Stored(c))
<1> DEFINE r == Request(c)
           base == call[c].copy.spec
<1>1. base \in AgentSpec /\ base.payload \in [image : Images, env : Envs] /\ r \in Requests
  BY CallTypes, RestAssumption DEF RestInv, AgentSpec
<1>2. CASE r.op = "update"
  <2>1. base = agent.spec /\ Stored(c) = Modified(r, agent.spec)
    BY <1>2 DEF Accepted, RestInv, SameIsStored, Stored
  <2> QED BY <1>2, <2>1 DEF OnlyAsked, Modified, newPayload, newEnv, newPaused,
            newSelfHealingDisabled, Given
<1>3. CASE r.op # "update"
  <2>1. Stored(c) = MergedSpec(base, Modified(r, base), agent.spec)
    BY <1>3 DEF Stored
  <2>2. /\ Modified(r, base).payload.image = base.payload.image
        /\ Modified(r, base).servicePort = base.servicePort
        /\ Modified(r, base).payload.env # base.payload.env =>
              \/ r.op \in {"mergeEnv", "deleteEnv"}
              \/ r.op = "setEnv" /\ Modified(r, base).payload.env = r.env
    BY <1>3 DEF Modified, newPayload, newEnv
  <2>3. /\ Modified(r, base).paused # base.paused =>
              r.op \in (IF Modified(r, base).paused THEN {"stop", "idle"}
                                                    ELSE {"start", "keepalive"})
        /\ Modified(r, base).selfHealingDisabled # base.selfHealingDisabled =>
              r.op \in (IF Modified(r, base).selfHealingDisabled THEN {"disable", "delete"}
                                                                 ELSE {"enable"})
    BY <1>3 DEF Modified, newPaused, newSelfHealingDisabled
  <2> HIDE DEF r, base
  <2> QED BY <2>1, <2>2, <2>3 DEF OnlyAsked, MergedSpec, Merged, r
<1> QED BY <1>2, <1>3

\* A write leaves the spec as it is, or as the handler wants it.
LEMMA ApplyStores ==
    ASSUME RestInv, NEW c \in Clients, call[c].at = "write", Apply(c), agent' # NoAgent
    PROVE  /\ Accepted(c) /\ agent'.spec \in {agent.spec, Stored(c)}
           /\ agent' # agent /\ Request(c).op \notin Annotating => agent'.spec = Stored(c)
<1>1. CASE WriteSpec(Stored(c))
  <2>1. agent \in Agent
    BY <1>1 DEF WriteSpec, RestInv, BaseInv, TypeOK
  <2>2. WithSpec(agent, Stored(c)).spec = Stored(c)
    BY <2>1 DEF WithSpec, Agent
  <2> QED BY <1>1, <2>2 DEF WriteSpec, Put, Publish, KeepAgent, Apply
<1> QED BY <1>1 DEF Apply, ClientAnnotate, Publish, NoWrite, vars

\* Only its own write makes a handler leave its write, or a restart, which writes
\* nothing.
LEMMA WriteEnds ==
    ASSUME RestInv, [RestNext]_<<vars, restVars>>, NEW c \in Clients,
           call[c].at = "write", call'[c].at # "write"
    PROVE  Write(c) \/ (UNCHANGED agent /\ call'[c].at = "none")
<1>0. \A d \in Clients : Aged[d].at = call[d].at
  BY AgedFacts DEF RestInv
<1>1. ASSUME NEW d \in Clients \ {c}, HandlerStep(d)
      PROVE  FALSE
  <2>1. CASE Answer(d)
    BY <1>0, <2>1, AgedFacts DEF Answer, RestInv
  <2>2. CASE \E new : call' = [Aged EXCEPT ![d] = new]
    BY <1>0, <2>2, AgedFacts DEF RestInv
  <2>3. CASE \E new : call' = [call EXCEPT ![d] = new]
    BY <2>3 DEF RestInv, RestTypeOK
  <2> QED BY <1>1, <2>1, <2>2, <2>3
          DEF HandlerStep, handleCreateAgent, KubectlDelete, Get, Write, Delete
<1>2. CASE HandlerStep(c)
  BY <1>2 DEF HandlerStep, handleCreateAgent, KubectlDelete, Get, Delete, RestInv, RestTypeOK
<1>3. CASE OtherStep
  BY <1>0, <1>3 DEF OtherStep
<1>4. CASE RestRestart
  BY <1>4 DEF RestRestart, Restart, NoCall
<1>5. CASE UNCHANGED <<vars, restVars>>
  BY <1>5 DEF restVars
<1> QED BY <1>1, <1>2, <1>3, <1>4, <1>5 DEF RestNext

\* No request takes back what another one has written, for any requests and however
\* stale the copies of the handlers are.
THEOREM NothingIsReverted == RestSpec => NothingReverted
<1> DEFINE Asked == \A c \in Clients :
              (call[c].at = "write" /\ call'[c].at # "write" /\ agent # NoAgent /\ agent' # NoAgent)
                  => OnlyAsked(Request(c), agent.spec, agent'.spec)
<1>1. RestInv /\ [RestNext]_<<vars, restVars>> => [Asked]_<<vars, restVars>>
  <2> SUFFICES ASSUME RestInv, [RestNext]_<<vars, restVars>>, NEW c \in Clients,
                      call[c].at = "write", call'[c].at # "write",
                      agent # NoAgent, agent' # NoAgent
               PROVE  OnlyAsked(Request(c), agent.spec, agent'.spec)
    OBVIOUS
  <2>1. CASE agent'.spec = agent.spec
    BY <2>1 DEF OnlyAsked
  <2>2. CASE agent'.spec # agent.spec
    <3>1. Write(c) /\ Apply(c)
      BY <2>2, WriteEnds DEF Write, NoWrite, vars
    <3> QED BY <2>2, <3>1, ApplyStores, StoredAsked
  <2> QED BY <2>1, <2>2
<1> QED BY <1>1, RestInvInit, RestInductive, PTL DEF RestSpec, NothingReverted

-----------------------------------------------------------------------------
(* The lists of variables.                                                 *)

\* Two lists have their variables in one set.
LEMMA Lists ==
    ASSUME NEW e, NEW f, IsList(e), IsList(f)
    PROVE  \E V : e \in Seq(V) /\ f \in Seq(V)
<1> DEFINE E == {e[i] : i \in DOMAIN e}
           F == {f[i] : i \in DOMAIN f}
<1>1. ASSUME NEW S, NEW s \in Seq(S), S \subseteq E \cup F
      PROVE  s \in Seq(E \cup F)
  <2>1. s \in [1..Len(s) -> S] /\ Len(s) \in Nat
    OBVIOUS
  <2>2. s \in [1..Len(s) -> E \cup F]
    BY <1>1, <2>1
  <2> QED BY <2>1, <2>2
<1>2. e \in Seq(E) /\ f \in Seq(F)
  BY DEF IsList
<1>3. e \in Seq(E \cup F) /\ f \in Seq(E \cup F)
  BY <1>1, <1>2
<1> QED BY <1>3

\* handleMergeEnv and handleDeleteEnvKey: whatever the list that was read and the
\* request are, a merge or a removal that is stored on top of that list means to the
\* container what it says.
THEOREM EnvWritesAreMeant == RestSpec => EnvWritesMeanIt
<1> DEFINE Meant == \A c \in Clients :
              (call[c].at = "write" /\ call'[c].at # "write" /\ agent # NoAgent /\ agent' # NoAgent)
                  => LET r == Request(c)
                         old == agent.spec.payload.env
                         new == agent'.spec.payload.env
                     IN  (old = call[c].copy.spec.payload.env /\ agent' # agent)
                            => /\ r.op = "mergeEnv" => Upserted(old, r.env, new)
                               /\ r.op = "deleteEnv" => Deleted(old, r.key, new)
<1>1. RestInv /\ [RestNext]_<<vars, restVars>> => [Meant]_<<vars, restVars>>
  <2> SUFFICES ASSUME RestInv, [RestNext]_<<vars, restVars>>, NEW c \in Clients,
                      call[c].at = "write", call'[c].at # "write",
                      agent # NoAgent, agent' # NoAgent, agent' # agent,
                      agent.spec.payload.env = call[c].copy.spec.payload.env,
                      Request(c).op \in {"mergeEnv", "deleteEnv"}
               PROVE  LET r == Request(c)
                          old == agent.spec.payload.env
                          new == agent'.spec.payload.env
                      IN  /\ r.op = "mergeEnv" => Upserted(old, r.env, new)
                          /\ r.op = "deleteEnv" => Deleted(old, r.key, new)
    BY Zenon
  <2> DEFINE r == Request(c)
             old == agent.spec.payload.env
  <2>1. Write(c) /\ Apply(c)
    BY WriteEnds DEF Write, NoWrite, vars
  <2>2. agent'.spec = Stored(c)
    BY <2>1, ApplyStores DEF Annotating
  <2>3. agent'.spec.payload.env = newEnv(r, old)
    BY <2>2 DEF Stored, Modified, newPayload, MergedSpec, Merged
  <2>4. IsList(old) /\ r \in Requests
    <3>1. agent.spec.payload \in Payloads
      BY DEF RestInv, BaseInv, TypeOK, Agent, AgentSpec
    <3> QED BY <3>1, CallTypes, RestAssumption DEF RestInv
  <2>5. CASE r.op = "mergeEnv"
    <3>1. PICK V : old \in Seq(V) /\ r.env \in Seq(V)
      BY <2>4, <2>5, Lists, RestAssumption
    <3>2. agent'.spec.payload.env = mergeEnvVars(old, r.env)
      BY <2>3, <2>5 DEF newEnv
    <3> HIDE DEF r, old
    <3>3. Upserted(old, r.env, mergeEnvVars(old, r.env))
      BY <3>1, MergeUpserts
    <3> QED BY <2>5, <3>2, <3>3 DEF r, old
  <2>6. CASE r.op = "deleteEnv"
    <3>1. PICK V : old \in Seq(V)
      BY <2>4 DEF IsList
    <3>2. agent'.spec.payload.env = deleteEnvKey(old, r.key)
      BY <2>3, <2>6 DEF newEnv
    <3> HIDE DEF r, old
    <3>3. Deleted(old, r.key, deleteEnvKey(old, r.key))
      BY <3>1, DeleteDeletes
    <3> QED BY <2>6, <3>2, <3>3 DEF r, old
  <2> QED BY <2>5, <2>6
<1> QED BY <1>1, RestInvInit, RestInductive, PTL DEF RestSpec, EnvWritesMeanIt

-----------------------------------------------------------------------------
(* DELETE is for good.  handleDeleteAgent disables self-healing and then   *)
(* deletes, with a copy that may be stale and in two calls, between which  *)
(* any other request, kubectl, the reconcile loop and a goroutine of an    *)
(* earlier deletion may act.  What it has deleted is not resurrected, if   *)
(* nobody enables self-healing: an Agent that has opted out in some        *)
(* version that is cached or on its way has not opted in again.            *)
(*                                                                         *)
(* As in AgentHealingProofs no deletion cascades in the foreground.        *)

\* This Agent has opted out, wherever it is.
OptedOutOf(u) ==
    /\ agent # NoAgent /\ agent.uid = u => agent.spec.selfHealingDisabled
    /\ \A b \in buried : b.uid = u => b.spec.selfHealingDisabled

\* An Agent that has opted out in a version the cache has or will have has done so in
\* the stored one.
OptOutLasts ==
    \A i \in 0..Len(agentEvents) :
        (/\ Chain(i) # NoAgent /\ agent # NoAgent /\ Chain(i).uid = agent.uid
         /\ Chain(i).spec.selfHealingDisabled)
            => agent.spec.selfHealingDisabled

\* A copy is not of an Agent that is yet to come.
CopiesKnown == \A c \in Clients : call[c].at # "none" => call[c].copy.uid <= lastUID

\* A DELETE that is about to patch has something to change.
PatchDisables ==
    \A c \in Clients :
        (call[c].at = "write" /\ Request(c).op = "delete")
            => ~call[c].copy.spec.selfHealingDisabled

\* One that is about to delete the Agent it has read deletes one that has opted out.
DeletesOptedOut ==
    \A c \in Clients :
        (call[c].at = "delete" /\ agent # NoAgent /\ agent.uid = call[c].copy.uid)
            => agent.spec.selfHealingDisabled

\* What was deleted has opted out, if it is what the handler knew of.
DeletedOptedOut ==
    \A d \in deleted : d.known = d.uid => d.uid <= lastUID /\ OptedOutOf(d.uid)

OptInv == OptOutLasts /\ CopiesKnown /\ PatchDisables /\ DeletesOptedOut /\ DeletedOptedOut

\* The whole invariant.
DeleteInv == RestInv /\ OrderInv /\ HealInv /\ (~SomeEnable => OptInv)

-----------------------------------------------------------------------------
(* What a step does to the opt-out.                                        *)

\* Uids are given in order, and an Agent comes from nothing only with a new one.
LEMMA UidsGrow ==
    ASSUME BaseInv, [Next]_vars
    PROVE  /\ lastUID \in Nat /\ lastUID' \in Nat /\ lastUID <= lastUID'
           /\ agent = NoAgent => /\ buried' = buried
                                 /\ agent' # NoAgent => agent'.uid = lastUID + 1
<1>0. lastUID \in Nat /\ lastUID' \in Nat
  BY BaseInductive DEF BaseInv, TypeOK
<1>1. CASE Step
  <2>1. ASSUME NEW s, NEW f, Create(s, f)
        PROVE  /\ buried' = buried /\ lastUID' = lastUID + 1
               /\ agent'.uid = lastUID + 1
    BY <2>1 DEF Create, Publish, NewAgent
  <2> QED BY <1>0, <1>1, <2>1 DEF Step, AgentStep, KeepAgent
<1>2. CASE DeliverAgent \/ DeliverPods \/ DeliverService \/ Restart \/ Reconcile
  BY <1>0, <1>2 DEF DeliverAgent, DeliverPods, DeliverService, Restart, Reconcile, KeepAgent, healVars
<1>3. CASE UNCHANGED vars
  BY <1>0, <1>3 DEF vars
<1> QED BY <1>1, <1>2, <1>3, NextShape

\* The stored Agent does not opt in, nor does one that goes.
StaysOut ==
    agent # NoAgent =>
        /\ agent' # NoAgent =>
              /\ agent'.uid = agent.uid
              /\ agent.spec.selfHealingDisabled => agent'.spec.selfHealingDisabled
        /\ \A b \in buried' \ buried :
              /\ b.uid = agent.uid
              /\ agent.spec.selfHealingDisabled => b.spec.selfHealingDisabled

\* A step that keeps the spec keeps the opt-out.
LEMMA KeptStaysOut ==
    ASSUME SpecKept
    PROVE  StaysOut
BY DEF SpecKept, StaysOut

\* Update of handleDeletion: the finalizer goes, the spec stays.
LEMMA RemoveFinalizerKeeps ==
    ASSUME BaseInv, HealInv, RemoveFinalizer
    PROVE  SpecKept
<1>1. CASE KeepAgent
  BY <1>1 DEF KeepAgent, SpecKept
<1>2. CASE Put([agent EXCEPT !.finalizers = @ \ {agentFinalizer}]) /\ agent # NoAgent
  <2>1. /\ [agent EXCEPT !.finalizers = @ \ {agentFinalizer}].uid = agent.uid
        /\ [agent EXCEPT !.finalizers = @ \ {agentFinalizer}].spec = agent.spec
    BY <1>2 DEF BaseInv, TypeOK, Agent
  <2> QED BY <1>2, <2>1 DEF Put, KeepAgent, Publish, SpecKept
<1>3. CASE agent = NoAgent
  BY <1>3 DEF SpecKept
<1> QED BY <1>1, <1>2, <1>3 DEF RemoveFinalizer

\* The controller, the goroutines and the cluster keep the spec.
LEMMA OtherKeeps ==
    ASSUME BaseInv, HealInv, ControllerStep \/ HealerStep \/ ClusterStep
    PROVE  StaysOut
<1>1. CASE ControllerStep
  BY <1>1, ControllerEdits, RemoveFinalizerKeeps, KeptStaysOut
<1>2. CASE HealerStep
  BY <1>2 DEF HealerStep, HealCreate, HealGet, HealRecord, Create, KeepAgent, StaysOut
<1>3. CASE ClusterStep
  <2>1. ~CollectAgent
    BY DEF CollectAgent, ForegroundDeletion, HealInv, OneFinalizer
  <2> QED BY <1>3, <2>1
          DEF ClusterStep, DeliverAgent, DeliverPods, DeliverService, CollectService, KubeletPhase,
              KubeletRemove, CollectPod, KeepAgent, StaysOut
<1> QED BY <1>1, <1>2, <1>3

\* A write of a spec stores it, in an Agent that goes too.
LEMMA WriteSpecStores ==
    ASSUME BaseInv, NEW s, WriteSpec(s)
    PROVE  /\ agent' # NoAgent => agent'.uid = agent.uid /\ agent'.spec = s
           /\ buried' \subseteq buried \cup {[uid |-> agent.uid, spec |-> s]}
<1>1. agent \in Agent
  BY DEF WriteSpec, BaseInv, TypeOK
<1>2. WithSpec(agent, s).uid = agent.uid /\ WithSpec(agent, s).spec = s
  BY <1>1 DEF WithSpec, Agent
<1> QED BY <1>2 DEF WriteSpec, Put, Publish, KeepAgent

\* A deletion keeps the spec.
LEMMA DeleteAgentKeeps ==
    ASSUME BaseInv, NEW x, DeleteAgent(x)
    PROVE  SpecKept
<1>1. agent \in Agent
  BY DEF DeleteAgent, BaseInv, TypeOK
<1>2. PICK f : Put([agent EXCEPT !.deleting = TRUE, !.generation = @ + 1, !.finalizers = @ \cup f])
  BY DEF DeleteAgent
<1> DEFINE a == [agent EXCEPT !.deleting = TRUE, !.generation = @ + 1, !.finalizers = @ \cup f]
<1>3. a.uid = agent.uid /\ a.spec = agent.spec
  BY <1>1 DEF Agent
<1> QED BY <1>2, <1>3 DEF Put, Publish, KeepAgent, SpecKept

\* Nobody but a request to enable self-healing opts in.
LEMMA ApplyStaysOut ==
    ASSUME RestInv, ~SomeEnable, NEW c \in Clients, call[c].at = "write", Apply(c)
    PROVE  StaysOut
<1>1. Request(c).op # "enable"
  <2>1. answered[c] + 1 \in 1..Len(workload[c])
    BY CallTypes DEF RestInv, RestTypeOK, Busy
  <2> QED BY <2>1 DEF SomeEnable, Request
<1>2. agent.spec.selfHealingDisabled \in BOOLEAN /\ Stored(c).selfHealingDisabled \in BOOLEAN
  BY StoredType DEF Apply, Accepted, RestInv, BaseInv, TypeOK, Agent, AgentSpec
<1>3. agent.spec.selfHealingDisabled => Stored(c).selfHealingDisabled
  BY <1>1, <1>2, StoredAsked DEF Apply, OnlyAsked
<1>4. CASE WriteSpec(Stored(c))
  BY <1>3, <1>4, WriteSpecStores DEF RestInv, StaysOut
<1> QED BY <1>4 DEF Apply, ClientAnnotate, Publish, NoWrite, vars, StaysOut

\* So the opt-out stays in every step.
LEMMA RestStaysOut ==
    ASSUME RestInv, HealInv, ~SomeEnable, [RestNext]_<<vars, restVars>>
    PROVE  StaysOut
<1>0. BaseInv
  BY DEF RestInv
<1>1. ASSUME UNCHANGED <<agent, buried>> PROVE StaysOut
  BY <1>1 DEF StaysOut
<1>2. ASSUME NEW c \in Clients, HandlerStep(c)
      PROVE  StaysOut
  <2>1. CASE handleCreateAgent(c)
    BY <1>1, <2>1 DEF handleCreateAgent, CreateAgent, Create, NoWrite, vars, StaysOut
  <2>2. CASE KubectlDelete(c)
    BY <1>0, <2>2, DeleteAgentKeeps, KeptStaysOut DEF KubectlDelete
  <2>3. CASE Get(c)
    BY <1>1, <2>3 DEF Get, NoWrite, vars
  <2>4. CASE Write(c)
    BY <1>1, <2>4, ApplyStaysOut DEF Write, NoWrite, vars
  <2>5. CASE Delete(c)
    BY <1>0, <1>1, <2>5, DeleteAgentKeeps, KeptStaysOut DEF Delete, NoWrite, vars
  <2> QED BY <1>2, <2>1, <2>2, <2>3, <2>4, <2>5 DEF HandlerStep
<1>3. CASE OtherStep
  BY <1>0, <1>3, OtherKeeps DEF OtherStep
<1>4. CASE RestRestart
  BY <1>1, <1>4 DEF RestRestart, Restart
<1>5. CASE UNCHANGED <<vars, restVars>>
  BY <1>1, <1>5 DEF vars
<1> QED BY <1>2, <1>3, <1>4, <1>5 DEF RestNext

-----------------------------------------------------------------------------
(* The parts of OptInv are preserved.                                      *)

\* What the cache will hold was on its way before, or has just been stored.
LEMMA ChainNext ==
    ASSUME BaseInv, [Next]_vars, NEW i \in 0..Len(agentEvents'), Chain(i)' # NoAgent
    PROVE  \/ \E j \in 0..Len(agentEvents) : Chain(i)' = Chain(j)
           \/ Chain(i)' = agent'
<1>0. agentEvents \in Seq(Agent \cup {NoAgent}) /\ Len(agentEvents) \in Nat
  BY DEF BaseInv, TypeOK
<1>1. CASE Step
  BY <1>1, ChainStep
<1>2. CASE UNCHANGED <<agentEvents, agentCache>>
  BY <1>2 DEF Chain
<1>3. CASE DeliverAgent
  <2>1. agentEvents # <<>> /\ agentCache' = Head(agentEvents) /\ agentEvents' = Tail(agentEvents)
    BY <1>3 DEF DeliverAgent
  <2>2. i + 1 \in 1..Len(agentEvents)
    BY <1>0, <2>1, TailFacts
  <2>3. Chain(i)' = agentEvents[i + 1]
    BY <1>0, <2>1, <2>2, TailFacts DEF Chain
  <2>4. i + 1 \in 0..Len(agentEvents) /\ Chain(i)' = Chain(i + 1)
    BY <2>2, <2>3 DEF Chain
  <2> QED BY <2>4
<1>4. CASE Restart
  BY <1>4 DEF Restart, Chain
<1>5. CASE DeliverPods \/ DeliverService \/ Reconcile \/ UNCHANGED vars
  BY <1>2, <1>5 DEF DeliverPods, DeliverService, Reconcile, KeepAgent, caches, vars
<1> QED BY <1>1, <1>3, <1>4, <1>5, NextShape

\* What the cache holds or will hold has a known uid.
LEMMA ChainKnown ==
    ASSUME BaseInv, OrderInv, NEW i \in 0..Len(agentEvents), Chain(i) # NoAgent
    PROVE  Chain(i).uid \in Nat /\ Chain(i).uid <= lastUID
BY ChainVersions, VersionTypes DEF BaseInv, OrderInv, KnownUIDs

\* What the cache holds is the first of the chain.
LEMMA CacheChain ==
    ASSUME BaseInv
    PROVE  0 \in 0..Len(agentEvents) /\ Chain(0) = agentCache
BY DEF BaseInv, TypeOK, Chain

\* An Agent that opts out in a version that is on its way has done so for good.
LEMMA OptOutLastsStep ==
    ASSUME BaseInv, OrderInv, [Next]_vars, StaysOut, OptOutLasts
    PROVE  OptOutLasts'
<1> SUFFICES ASSUME NEW i \in 0..Len(agentEvents'), Chain(i)' # NoAgent, agent' # NoAgent,
                    (Chain(i)').uid = agent'.uid, (Chain(i)').spec.selfHealingDisabled
             PROVE  agent'.spec.selfHealingDisabled
  BY DEF OptOutLasts
<1>1. ASSUME NEW j \in 0..Len(agentEvents), Chain(i)' = Chain(j)
      PROVE  agent'.spec.selfHealingDisabled
  <2>1. agent # NoAgent
    BY <1>1, ChainKnown, UidsGrow
  <2> QED BY <1>1, <2>1 DEF OptOutLasts, StaysOut
<1> QED BY <1>1, ChainNext

\* Which Agent a copy is of is known when it is read.
LEMMA CopiesKnownStep ==
    ASSUME RestInv, OrderInv, HealInv, [Next]_vars, CallSteps, CopiesKnown
    PROVE  CopiesKnown'
<1>0. BaseInv
  BY DEF RestInv
<1> SUFFICES ASSUME NEW c \in Clients, call'[c].at # "none"
             PROVE  call'[c].copy.uid <= lastUID'
  BY DEF CopiesKnown
<1>1. CASE call[c].at # "none" /\ call'[c].copy = call[c].copy
  <2>1. call[c].copy.uid \in Nat
    BY <1>1, CallTypes DEF RestInv, Agent
  <2> QED BY <1>0, <1>1, <2>1, UidsGrow DEF CopiesKnown
<1>2. CASE agentCache # NoAgent /\ call'[c].copy = agentCache
  <2>1. agentCache.uid \in Nat /\ agentCache.uid <= lastUID
    BY <1>0, <1>2, CacheChain, ChainKnown
  <2> QED BY <1>0, <1>2, <2>1, UidsGrow
<1>3. CASE agent # NoAgent /\ call'[c].copy.uid = agent.uid
  <2>1. agent.uid \in Nat /\ agent.uid <= lastUID
    BY <1>0, <1>3 DEF HealInv, GoneForGood, BaseInv, TypeOK, Agent
  <2> QED BY <1>0, <1>3, <2>1, UidsGrow
<1> QED BY <1>1, <1>2, <1>3 DEF CallSteps, CallStep

\* The next call of a DELETE that has read this Agent.
LEMMA DeleteCalls ==
    ASSUME NEW r, NEW a, r.op = "delete", a # NoAgent
    PROVE  /\ NextCall(r, a) = "write" => ~a.spec.selfHealingDisabled
           /\ NextCall(r, a) = "delete" => a.spec.selfHealingDisabled
BY DEF NextCall

\* Only a DELETE comes to its second call at once.
LEMMA OnlyDeletes ==
    ASSUME NEW r, NEW a, NextCall(r, a) = "delete"
    PROVE  r.op = "delete"
BY DEF NextCall

\* A DELETE patches only if its copy has not opted out.
LEMMA PatchDisablesStep ==
    ASSUME CallSteps, PatchDisables
    PROVE  PatchDisables'
<1> SUFFICES ASSUME NEW c \in Clients, call'[c].at = "write", (Request(c)').op = "delete"
             PROVE  ~call'[c].copy.spec.selfHealingDisabled
  BY DEF PatchDisables
<1>1. answered'[c] = answered[c] /\ workload' = workload /\ CallStep(c)
  BY DEF CallSteps, CallStep
<1>2. Request(c).op = "delete"
  BY <1>1 DEF Request
<1> QED BY <1>1, <1>2, DeleteCalls DEF CallStep, PatchDisables

\* The patch of a DELETE disables self-healing in whatever is stored.
LEMMA PatchOptsOut ==
    ASSUME RestInv, PatchDisables, NEW c \in Clients, call[c].at = "write",
           Request(c).op = "delete", Apply(c), agent' # NoAgent
    PROVE  agent'.spec.selfHealingDisabled
<1>1. Stored(c).selfHealingDisabled
  BY DEF Stored, MergedSpec, Merged, Modified, newSelfHealingDisabled, PatchDisables
<1>2. CASE WriteSpec(Stored(c))
  BY <1>1, <1>2, WriteSpecStores DEF RestInv
<1>3. CASE Stored(c) = agent.spec /\ UNCHANGED agent
  BY <1>1, <1>3
<1> QED BY <1>2, <1>3 DEF Apply, Annotating, NoWrite, vars

\* When a DELETE is about to delete the Agent it has read, this has opted out.
LEMMA DeletesOptedOutStep ==
    ASSUME RestInv, OrderInv, [RestNext]_<<vars, restVars>>, [Next]_vars, StaysOut, CallSteps, OptInv
    PROVE  DeletesOptedOut'
<1>0. BaseInv
  BY DEF RestInv
<1> SUFFICES ASSUME NEW c \in Clients, call'[c].at = "delete", agent' # NoAgent,
                    agent'.uid = call'[c].copy.uid
             PROVE  agent'.spec.selfHealingDisabled
  BY DEF DeletesOptedOut
<1>1. CASE call[c].at = "delete" /\ call'[c].copy = call[c].copy
  <2>1. call[c].copy.uid \in Nat /\ call[c].copy.uid <= lastUID
    BY <1>1, CallTypes DEF RestInv, Agent, OptInv, CopiesKnown
  <2>2. agent # NoAgent
    BY <1>0, <1>1, <2>1, UidsGrow
  <2> QED BY <1>1, <2>2 DEF OptInv, DeletesOptedOut, StaysOut
<1>2. CASE call[c].at = "write" /\ Request(c).op = "delete"
  <2>1. Write(c)
    BY <1>2, WriteEnds
  <2>2. Apply(c)
    BY <2>1, AgedFacts DEF Write, Answer, NoCall, RestInv
  <2> QED BY <1>2, <2>2, PatchOptsOut DEF OptInv
<1>3. CASE /\ UNCHANGED agent /\ agentCache # NoAgent
           /\ call'[c].at = NextCall(Request(c), agentCache) /\ call'[c].copy = agentCache
  <2>1. agentCache.spec.selfHealingDisabled
    BY <1>3, OnlyDeletes, DeleteCalls
  <2> QED BY <1>0, <1>3, <2>1, CacheChain DEF OptInv, OptOutLasts
<1> QED BY <1>1, <1>2, <1>3 DEF CallSteps, CallStep

\* An Agent that is known and has opted out stays so.
LEMMA OptedOutStays ==
    ASSUME BaseInv, [Next]_vars, StaysOut, NEW u \in Nat, u <= lastUID, OptedOutOf(u)
    PROVE  u <= lastUID' /\ OptedOutOf(u)'
<1>1. agent' # NoAgent /\ agent'.uid = u => agent'.spec.selfHealingDisabled
  BY UidsGrow DEF StaysOut, OptedOutOf
<1>2. \A b \in buried' : b.uid = u => b.spec.selfHealingDisabled
  BY UidsGrow DEF StaysOut, OptedOutOf
<1> QED BY <1>1, <1>2, UidsGrow DEF OptedOutOf

\* What is deleted has opted out and stays so.
LEMMA DeletedOptedOutStep ==
    ASSUME RestInv, HealInv, [RestNext]_<<vars, restVars>>, [Next]_vars, StaysOut, OptInv
    PROVE  DeletedOptedOut'
<1>0. BaseInv /\ deleted \in SUBSET [uid : Nat, known : Nat]
  BY DEF RestInv, RestTypeOK
<1> SUFFICES ASSUME NEW d \in deleted', d.known = d.uid
             PROVE  d.uid <= lastUID' /\ OptedOutOf(d.uid)'
  BY DEF DeletedOptedOut, OptedOutOf
<1>1. CASE d \in deleted
  <2>1. d.uid \in Nat /\ d.uid <= lastUID /\ OptedOutOf(d.uid)
    BY <1>0, <1>1 DEF OptInv, DeletedOptedOut
  <2> QED BY <1>0, <2>1, OptedOutStays
<1>2. ASSUME NEW c \in Clients, Delete(c), d \notin deleted
      PROVE  d.uid <= lastUID' /\ OptedOutOf(d.uid)'
  <2> DEFINE u == d.uid
  <2>1. u = agent.uid /\ u = call[c].copy.uid /\ agent # NoAgent /\ call[c].at = "delete"
    BY <1>2 DEF Delete, DeleteAgent
  <2>2. u \in Nat /\ u <= lastUID /\ \A b \in buried : b.uid # u
    BY <1>0, <2>1 DEF HealInv, GoneForGood, BaseInv, TypeOK, Agent
  <2>3. OptedOutOf(u)
    BY <2>1, <2>2 DEF OptInv, DeletesOptedOut, OptedOutOf
  <2> HIDE DEF u
  <2>4. u <= lastUID' /\ OptedOutOf(u)'
    BY <1>0, <2>2, <2>3, OptedOutStays
  <2> QED BY <2>4 DEF u, OptedOutOf
<1>3. (\E c \in Clients : Delete(c)) \/ UNCHANGED deleted
  BY DEF RestNext, HandlerStep, OtherStep, RestRestart, restVars, handleCreateAgent,
         KubectlDelete, Get, Write
<1> QED BY <1>1, <1>2, <1>3

-----------------------------------------------------------------------------
(* DeleteInv is inductive, and DELETE is for good.                         *)

\* Every step preserves DeleteInv.
LEMMA DeleteInductive ==
    ASSUME DeleteInv, "foreground" \notin Cascades, [RestNext]_<<vars, restVars>>
    PROVE  DeleteInv'
<1>1. RestInv /\ OrderInv /\ HealInv /\ BaseInv
  BY DEF DeleteInv, RestInv
<1>2. [Next]_vars /\ CallSteps
  BY <1>1, StepIsNext, RestNextCalls
<1>3. RestInv' /\ OrderInv' /\ HealInv'
  BY <1>1, <1>2, RestInductive, OrderInductive, HealInductive
<1>4. ASSUME ~SomeEnable'
      PROVE  OptInv'
  <2>1. ~SomeEnable /\ OptInv
    BY <1>2, <1>4 DEF CallSteps, SomeEnable, DeleteInv
  <2>2. StaysOut
    BY <1>1, <2>1, RestStaysOut
  <2>3. OptOutLasts' /\ CopiesKnown' /\ PatchDisables'
    BY <1>1, <1>2, <2>1, <2>2, OptOutLastsStep, CopiesKnownStep, PatchDisablesStep DEF OptInv
  <2>4. DeletesOptedOut' /\ DeletedOptedOut'
    BY <1>1, <1>2, <2>1, <2>2, DeletesOptedOutStep, DeletedOptedOutStep
  <2> QED BY <2>3, <2>4 DEF OptInv
<1> QED BY <1>3, <1>4 DEF DeleteInv

\* DeleteInv holds at the beginning.
LEMMA DeleteInvInit == RestInit => DeleteInv
<1> SUFFICES ASSUME RestInit PROVE DeleteInv
  OBVIOUS
<1>1. RestInv /\ OrderInv /\ HealInv
  BY RestInvInit, OrderInit, HealInit DEF RestInit
<1>2. OptInv
  BY DEF RestInit, Init, OptInv, OptOutLasts, CopiesKnown, PatchDisables, DeletesOptedOut,
         DeletedOptedOut, NoCall
<1> QED BY <1>1, <1>2 DEF DeleteInv

\* handleDeleteAgent: without foreground cascading, and unless some client enables
\* self-healing, no Agent that a DELETE has deleted is ever resurrected, unless it is a
\* successor of the one the handler had read or patched, whatever races with it: kubectl,
\* stale caches, lost answers, restarts, or a goroutine of an earlier deletion.
THEOREM DeletedStaysDeleted ==
    ASSUME "foreground" \notin Cascades
    PROVE  RestSpec => DeletedForGood
<1> DEFINE Good == Resurrection /\ ~SomeEnable =>
                       \A d \in deleted : d.uid = agent'.restoredFrom => d.known # d.uid
<1>1. DeleteInv /\ [RestNext]_<<vars, restVars>> => DeleteInv'
  BY DeleteInductive
<1>2. DeleteInv /\ [RestNext]_<<vars, restVars>> => [Good]_<<vars, restVars>>
  <2> SUFFICES ASSUME DeleteInv, [RestNext]_<<vars, restVars>>, Resurrection, ~SomeEnable
               PROVE  \A d \in deleted : d.uid = agent'.restoredFrom => d.known # d.uid
    OBVIOUS
  <2>1. BaseInv /\ HealInv /\ OptInv /\ [Next]_vars
    BY StepIsNext DEF DeleteInv, RestInv
  <2>2. PICK h \in healers : agent'.restoredFrom = h.uid
    BY <2>1, ResurrectionByHealer
  <2>3. [uid |-> h.uid, spec |-> h.spec] \in buried /\ ~h.spec.selfHealingDisabled
    BY <2>1 DEF HealInv, HealersOfBuried
  <2> QED BY <2>1, <2>2, <2>3 DEF OptInv, DeletedOptedOut, OptedOutOf
<1> QED BY <1>1, <1>2, DeleteInvInit, PTL DEF RestSpec, DeletedForGood

=============================================================================
