-------------------------------- MODULE RestApi --------------------------------
(***************************************************************************)
(* The handlers of internal/rest/handlers.go that write the Agent, and the *)
(* idle watcher, as the clients of AgentController: what becomes of the    *)
(* Agent when requests race each other, the informer cache they read, the  *)
(* reconcile loop and its resurrection goroutines.                         *)
(*                                                                         *)
(* Each handler first reads a copy of the Agent from the informer cache.   *)
(* All but two then send a merge patch, computed against that copy and     *)
(* applied to whatever is stored under the name; PUT sends the whole copy  *)
(* back and is refused unless it is still the stored version; DELETE       *)
(* patches and then deletes by name.  The requests of one client follow    *)
(* each other, those of different clients interleave.                      *)
(*                                                                         *)
(* The events and history entries of the handlers, and the cache that      *)
(* DELETE clears, are left out: no handler decides anything by them.       *)
(***************************************************************************)
EXTENDS AgentController, EnvVars

CONSTANTS
    Images,     \* the images of a spec
    Envs,       \* its lists of environment variables
    Requests,   \* the requests, with their bodies
    Clients,    \* who sends requests
    Workloads,  \* the requests each client sends, one after the other
    MayFail,    \* the API server may refuse a request, or its answer be lost
    Omitted     \* a field that the body of a request leaves out

Ops == {"create", "update", "delete", "restart", "stop", "start", "keepalive",
        "disable", "enable", "setEnv", "mergeEnv", "deleteEnv", "idle", "kubectlDelete"}

-----------------------------------------------------------------------------
(* What the handlers change.                                               *)

Given(field, current) == IF field = Omitted THEN current ELSE field

newEnv(r, env) ==
    CASE r.op = "setEnv"    -> r.env
      [] r.op = "mergeEnv"  -> mergeEnvVars(env, r.env)
      [] r.op = "deleteEnv" -> deleteEnvKey(env, r.key)
      [] r.op = "update"    -> Given(r.env, env)
      [] OTHER              -> env

newPayload(r, payload) ==
    [image |-> IF r.op = "update" THEN Given(r.image, payload.image) ELSE payload.image,
     env   |-> newEnv(r, payload.env)]

newPaused(r, paused) ==
    CASE r.op \in {"stop", "idle"}       -> TRUE
      [] r.op \in {"start", "keepalive"} -> FALSE
      [] OTHER                           -> paused

newSelfHealingDisabled(r, disabled) ==
    CASE r.op \in {"disable", "delete"} -> TRUE
      [] r.op = "enable"                -> FALSE
      [] OTHER                          -> disabled

\* The spec of the copy once the handler has changed it.
Modified(r, spec) ==
    [payload     |-> newPayload(r, spec.payload),
     servicePort |-> spec.servicePort,
     paused      |-> newPaused(r, spec.paused),
     selfHealingDisabled |-> newSelfHealingDisabled(r, spec.selfHealingDisabled)]

\* The handlers that also write an annotation with the time, in seconds.
Annotating == {"restart", "stop", "start", "keepalive", "idle"}

ASSUME RestAssumption ==
    /\ Payloads = [image : Images, env : Envs]
    /\ \A env \in Envs : IsList(env)
    /\ Specs = AgentSpec
    /\ "background" \in Cascades
    /\ \A r \in Requests :
          /\ r.op \in Ops
          /\ r.op = "create" => r.spec \in AgentSpec
          /\ r.op = "mergeEnv" => IsList(r.env)
          /\ \A p \in Payloads : newPayload(r, p) \in Payloads
    /\ Workloads \subseteq [Clients -> Seq(Requests)]
    /\ MayFail \in BOOLEAN

\* The spec a merge patch leaves behind: the list of variables is one field.
MergedSpec(base, modified, current) ==
    [payload     |-> [image |-> Merged(base.payload.image, modified.payload.image,
                                       current.payload.image),
                      env   |-> Merged(base.payload.env, modified.payload.env,
                                       current.payload.env)],
     servicePort |-> Merged(base.servicePort, modified.servicePort, current.servicePort),
     paused      |-> Merged(base.paused, modified.paused, current.paused),
     selfHealingDisabled |-> Merged(base.selfHealingDisabled, modified.selfHealingDisabled,
                                    current.selfHealingDisabled)]

-----------------------------------------------------------------------------
VARIABLES
    workload,   \* the requests of this behaviour
    answered,   \* how many of its requests each client has seen answered
    call,       \* the handler at work for each client: its next call and its copy
    deleted     \* what DELETE has deleted: the uid, and that of the Agent it knew of

restVars == <<workload, answered, call, deleted>>

\* copy is the Agent that was read, same says that it is still the stored version.
NoCall == [at |-> "none", copy |-> NoAgent, same |-> FALSE]

Call == [at : {"none", "write", "delete"}, copy : Agent \cup {NoAgent}, same : BOOLEAN]

\* The client has a request to send, or waits for its answer.
Busy(c) == answered[c] < Len(workload[c])

Request(c) == workload[c][answered[c] + 1]

RestTypeOK ==
    /\ workload \in [Clients -> Seq(Requests)]
    /\ answered \in [Clients -> Nat]
    /\ call \in [Clients -> Call]
    /\ deleted \in SUBSET [uid : Nat, known : Nat]
    /\ \A c \in Clients :
          call[c].at # "none" => /\ Busy(c)
                                 /\ Request(c).op \notin {"create", "kubectlDelete"}
                                 /\ call[c].copy # NoAgent

RestInit ==
    /\ Init
    /\ workload \in Workloads
    /\ answered = [c \in Clients |-> 0]
    /\ call = [c \in Clients |-> NoCall]
    /\ deleted = {}

\* A new version of the Agent was stored.
Written == Len(agentEvents') > Len(agentEvents)

\* The calls at work after a step: a new version outdates their copies.
Aged == [c \in Clients |-> [call[c] EXCEPT !.same = @ /\ ~Written]]

\* Bug: a handler answers and works on.
AnswerAtWork(c) ==
    /\ answered' = [answered EXCEPT ![c] = @ + 1]
    /\ call' = Aged
    /\ UNCHANGED workload

\* The handler answers its request.
Answer(c) ==
    /\ answered' = [answered EXCEPT ![c] = @ + 1]
    /\ call' = [Aged EXCEPT ![c] = NoCall]
    /\ UNCHANGED workload

\* Nothing is written: the request is refused, or changes nothing.
NoWrite == UNCHANGED vars

-----------------------------------------------------------------------------
(* The handlers.                                                           *)

\* handleCreateAgent; IsAlreadyExists, or another error, when it does not succeed.
\* The Agent may also be created and the answer be lost, which the client cannot tell.
handleCreateAgent(c) ==
    /\ Busy(c) /\ Request(c).op = "create"
    /\ \/ CreateAgent(Request(c).spec)
       \/ (agent # NoAgent \/ MayFail) /\ NoWrite
    /\ Answer(c)
    /\ UNCHANGED deleted

\* kubectl delete, of an Agent that is there.
KubectlDelete(c) ==
    /\ Busy(c) /\ Request(c).op = "kubectlDelete"
    /\ DeleteAgent("background")
    /\ Answer(c)
    /\ UNCHANGED deleted

\* What the handler does next with the copy it has read: nothing if there is no Agent,
\* or the Agent is as wanted.
NextCall(r, copy) ==
    IF copy = NoAgent THEN "none"
    ELSE CASE r.op = "delete" /\ copy.spec.selfHealingDisabled -> "delete"
           [] r.op = "keepalive" /\ ~copy.spec.paused -> "none"
           [] r.op = "idle" /\ copy.spec.paused -> "none"
           [] OTHER -> "write"

\* The request arrives, and the handler reads the Agent.
Get(c) ==
    /\ Busy(c) /\ call[c].at = "none"
    /\ Request(c).op \notin {"create", "kubectlDelete"}
    /\ NoWrite
    /\ \/ NextCall(Request(c), agentCache) = "none" /\ Answer(c)
       \/ /\ NextCall(Request(c), agentCache) # "none"
          /\ call' = [call EXCEPT ![c] = [at   |-> NextCall(Request(c), agentCache),
                                          copy |-> agentCache,
                                          same |-> agentEvents = <<>>]]
          /\ UNCHANGED <<workload, answered>>
    /\ UNCHANGED deleted

\* Bug: the Update of a PUT does not carry the resourceVersion.
AcceptedUnchecked(c) == agent # NoAgent

\* A Patch needs an Agent of this name.  Update is refused for any other version than
\* the stored one (IsConflict, IsNotFound).
Accepted(c) == agent # NoAgent /\ (Request(c).op = "update" => call[c].same)

\* The spec the write of this call leaves behind.
Stored(c) ==
    LET copy == call[c].copy.spec
        modified == Modified(Request(c), copy)
    IN  IF Request(c).op = "update" THEN modified
        ELSE MergedSpec(copy, modified, agent.spec)

\* Bug: the handler also writes back the finalizers of its copy.
ApplyFinalizers(c) ==
    /\ Accepted(c)
    /\ UseOp
    /\ Put([WithSpec(agent, Stored(c)) EXCEPT !.finalizers = call[c].copy.finalizers])
    /\ Age /\ KeepPods /\ KeepService
    /\ UNCHANGED lastUID
    /\ ControllerUnchanged

\* The Patch, or the Update, is applied.  Another annotation is a new version too;
\* one of the same second, and a patch of nothing new, is none.
Apply(c) ==
    /\ Accepted(c)
    /\ \/ Stored(c) # agent.spec /\ WriteSpec(Stored(c))
       \/ Stored(c) = agent.spec /\ Request(c).op \in Annotating /\ ClientAnnotate
       \/ Stored(c) = agent.spec /\ NoWrite

\* Bug: DELETE goes on when it could not disable self-healing.
WriteOrGoOn(c) ==
    /\ call[c].at = "write"
    /\ \/ Apply(c) /\ Request(c).op # "delete" /\ Answer(c)
       \/ (~Accepted(c) \/ MayFail) /\ NoWrite /\ Request(c).op # "delete" /\ Answer(c)
       \/ /\ Request(c).op = "delete"
          /\ Apply(c) \/ ((~Accepted(c) \/ MayFail) /\ NoWrite)
          /\ call' = [Aged EXCEPT ![c].at = "delete"]
          /\ UNCHANGED <<workload, answered>>
    /\ UNCHANGED deleted

\* The write of a handler.  It may fail, or be applied and its answer be lost: the
\* handler then returns an error.  DELETE goes on after a success, with the Agent of
\* the answer in place of its copy; it does not ask whether that is still stored.
Write(c) ==
    /\ call[c].at = "write"
    /\ \/ Apply(c) /\ (Request(c).op = "delete" => MayFail) /\ Answer(c)
       \/ (~Accepted(c) \/ MayFail) /\ NoWrite /\ Answer(c)
       \/ /\ Request(c).op = "delete"
          /\ Apply(c)
          /\ call' = [Aged EXCEPT ![c] = [at   |-> "delete",
                                          copy |-> [agent EXCEPT !.spec = Stored(c)],
                                          same |-> FALSE]]
          /\ UNCHANGED <<workload, answered>>
    /\ UNCHANGED deleted

\* Delete by name: whatever is stored, a successor of the Agent that the handler knows
\* of included, and nothing more if it is being deleted.
Delete(c) ==
    /\ call[c].at = "delete"
    /\ \/ /\ DeleteAgent("background") \/ (agent # NoAgent /\ agent.deleting /\ NoWrite)
          /\ deleted' = deleted \cup {[uid |-> agent.uid, known |-> call[c].copy.uid]}
       \/ (agent = NoAgent \/ MayFail) /\ NoWrite /\ UNCHANGED deleted
    /\ Answer(c)

\* The process restarts: the handlers at work are lost with it.
RestRestart ==
    /\ Restart
    /\ answered' = [c \in Clients |-> IF call[c].at = "none" THEN answered[c] ELSE answered[c] + 1]
    /\ call' = [c \in Clients |-> NoCall]
    /\ UNCHANGED <<workload, deleted>>

HandlerStep(c) ==
    handleCreateAgent(c) \/ KubectlDelete(c) \/ Get(c) \/ Write(c) \/ Delete(c)

OtherStep ==
    /\ ControllerStep \/ HealerStep \/ ClusterStep
    /\ call' = Aged
    /\ UNCHANGED <<workload, answered, deleted>>

RestNext == (\E c \in Clients : HandlerStep(c)) \/ OtherStep \/ RestRestart

RestSpec == RestInit /\ [][RestNext]_<<vars, restVars>>

\* The handlers run to their end.
RestFairSpec ==
    /\ RestSpec
    /\ Fairness
    /\ \A c \in Clients : WF_<<vars, restVars>>(HandlerStep(c))

-----------------------------------------------------------------------------
(* Properties.                                                             *)

\* All a request does to the Agent, and to anything else, is what some client of the
\* controller may do: the properties of AgentController hold under this API.
RequestsAreClients == Spec

\* The fields in which two specs differ are ones the request asks for, and so are
\* their new values.
OnlyAsked(r, old, new) ==
    /\ new.payload.image # old.payload.image => r.op = "update" /\ r.image = new.payload.image
    /\ new.payload.env # old.payload.env =>
          \/ r.op \in {"mergeEnv", "deleteEnv"}
          \/ r.op \in {"setEnv", "update"} /\ r.env = new.payload.env
    /\ new.servicePort = old.servicePort
    /\ new.paused # old.paused =>
          r.op \in (IF new.paused THEN {"stop", "idle"} ELSE {"start", "keepalive"})
    /\ new.selfHealingDisabled # old.selfHealingDisabled =>
          r.op \in (IF new.selfHealingDisabled THEN {"disable", "delete"} ELSE {"enable"})

\* A request writes no field that it is not about: a field of the stored spec that a
\* write changes is one its request asks for, however old the copy is that the handler
\* has read.  The list of variables is one field: a merge that was computed from an old
\* list replaces the whole of it.
NothingReverted ==
    [][\A c \in Clients :
          (call[c].at = "write" /\ call'[c].at # "write" /\ agent # NoAgent /\ agent' # NoAgent)
              => OnlyAsked(Request(c), agent.spec, agent'.spec)]_<<vars, restVars>>

\* A merge of variables, and the removal of one, mean to the container what they say,
\* also when the list holds a name twice, if the list is still the one that was read.
EnvWritesMeanIt ==
    [][\A c \in Clients :
          (call[c].at = "write" /\ call'[c].at # "write" /\ agent # NoAgent /\ agent' # NoAgent)
              => LET r == Request(c)
                     old == agent.spec.payload.env
                     new == agent'.spec.payload.env
                 IN  (old = call[c].copy.spec.payload.env /\ agent' # agent)
                        => /\ r.op = "mergeEnv" => Upserted(old, r.env, new)
                           /\ r.op = "deleteEnv" => Deleted(old, r.key, new)
      ]_<<vars, restVars>>

\* Some client enables self-healing.
SomeEnable ==
    \E c \in Clients : \E i \in 1..Len(workload[c]) : workload[c][i].op = "enable"

\* What DELETE has deleted is resurrected only if somebody enables self-healing, or if
\* the handler knew of an earlier Agent only: it has seen to the self-healing of that
\* one, and deletes by name one that was created since.  Otherwise the deletion is for
\* good, although kubectl may delete the same Agent before or meanwhile, a goroutine of
\* that deletion may recreate it, and others may write it.
DeletedForGood ==
    [][Resurrection /\ ~SomeEnable =>
          \A d \in deleted : d.uid = agent'.restoredFrom => d.known # d.uid]_<<vars, restVars>>

-----------------------------------------------------------------------------
(* What the documentation says and the code does not keep.                 *)

\* handlers.go on DELETE: "Self-healing is disabled before deletion so the agent is not
\* resurrected".  The handler looks at a cached copy to see whether it is disabled.
DeletedMeansDeleted ==
    [][Resurrection => \A d \in deleted : d.uid # agent'.restoredFrom]_<<vars, restVars>>

\* handlers.go on restart: "Forces pod recreation by bumping the
\* orchestrator.dev/restart-at annotation".
RestartRecreates ==
    \A n \in PodNames :
        (Live(pods[n]) /\ \E c \in Clients : call[c].at = "write" /\ Request(c).op = "restart")
            ~> ~Live(pods[n])

=============================================================================
