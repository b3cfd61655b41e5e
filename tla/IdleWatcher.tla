------------------------------ MODULE IdleWatcher ------------------------------
(***************************************************************************)
(* Idle auto-stop and wake-on-demand of one Agent: the watchers of         *)
(* internal/idle/watcher.go, one in each replica of the orchestrator, and  *)
(* the requests on the Agent, which the activity middleware records in the *)
(* cache store and of which a keepalive wakes the Agent.                   *)
(*                                                                         *)
(* Time passes in units.  A timestamp is kept as its age, up to twice the  *)
(* Timeout: older ones are all alike.  Of the Agent there are spec.paused  *)
(* and whether status.phase is Running; the reconcile loop, which          *)
(* AgentController models, makes the second follow the first.              *)
(***************************************************************************)
EXTENDS Integers, Sequences

CONSTANTS
    Replicas,       \* the replicas of the orchestrator
    Shared,         \* the cache store is Redis; else each replica has its own
    Timeout,        \* the effective idle timeout of the Agent
    Period,         \* how often a client in a session sends a keepalive
    MaxTroubles     \* bound: patches that fail, calls that Redis does not answer,
                    \* restarts of replicas, and times the Agent is unpaused with kubectl

ASSUME TimesAssumption == {Timeout, Period} \subseteq Nat \ {0} /\ Period < Timeout
ASSUME LimitsAssumption == Shared \in BOOLEAN /\ MaxTroubles \in Nat

Versions == [paused : BOOLEAN, running : BOOLEAN]

\* No timestamp is stored.
None == -1

Oldest == 2 * Timeout

Ages == 0..Oldest

VARIABLES
    agent,      \* the stored Agent
    events,     \* its version on its way to the informer cache of each replica
    cached,     \* the version in the informer cache of each replica
    activity,   \* the age of the activity timestamp, as each replica finds it
    watcher,    \* the check each watcher is in
    keepalive,  \* the keepalive request at work
    quiet,      \* the time since the last request on the Agent, up to Period
    seen,       \* the time since the last request that left a timestamp, up to Timeout
    mode,       \* what the clients do: "free", "session" or "silent"
    troubles    \* how much of the bound is spent

vars == <<agent, events, cached, activity, watcher, keepalive, quiet, seen, mode, troubles>>

\* A check is about to read the timestamp, age units after it has read the clock, or
\* about to pause the Agent.
Watching == [at : {"sleep", "get", "pause"}, since : 0..Timeout]

Asleep == [at |-> "sleep", since |-> 0]

\* A keepalive is about to read the Agent, to unpause it, or polls for the phase.
NoRequest == [at |-> "none"]

Requesting == [at : {"get", "unpause", "poll"}, replica : Replicas]

IdleTypeOK ==
    /\ agent \in Versions
    /\ \A r \in Replicas : events[r] \in Seq(Versions) /\ Len(events[r]) <= 1
    /\ cached \in [Replicas -> Versions]
    /\ activity \in [Replicas -> Ages \cup {None}]
    /\ watcher \in [Replicas -> Watching]
    /\ keepalive \in Requesting \cup {NoRequest}
    /\ quiet \in 0..Period /\ seen \in 0..Timeout
    /\ mode \in {"free", "session", "silent"}
    /\ troubles \in 0..MaxTroubles

\* The Agent runs, and no request on it has been seen.
Init ==
    /\ agent = [paused |-> FALSE, running |-> TRUE]
    /\ events = [r \in Replicas |-> <<>>]
    /\ cached = [r \in Replicas |-> agent]
    /\ activity = [r \in Replicas |-> None]
    /\ watcher = [r \in Replicas |-> Asleep]
    /\ keepalive = NoRequest
    /\ quiet = Period /\ seen = Timeout
    /\ mode = "free"
    /\ troubles = 0

-----------------------------------------------------------------------------
\* Store the Agent and send it to the informers.
Put(a) ==
    \/ a = agent /\ UNCHANGED <<agent, events>>
    \/ /\ a # agent
       /\ \A r \in Replicas : events[r] = <<>>
       /\ agent' = a
       /\ events' = [r \in Replicas |-> <<a>>]

Trouble == troubles < MaxTroubles /\ troubles' = troubles + 1

\* A patch fails.
Failed ==
    /\ Trouble
    /\ UNCHANGED <<agent, events>>

Deliver(r) ==
    /\ events[r] # <<>>
    /\ cached' = [cached EXCEPT ![r] = Head(events[r])]
    /\ events' = [events EXCEPT ![r] = Tail(@)]
    /\ UNCHANGED <<agent, activity, watcher, keepalive, quiet, seen, mode, troubles>>

\* The reconcile loop deletes the Pod of a paused Agent, or creates one, and reports.
Reconciled ==
    /\ agent.running = agent.paused
    /\ Put([agent EXCEPT !.running = ~agent.paused])
    /\ UNCHANGED <<cached, activity, watcher, keepalive, quiet, seen, mode, troubles>>

\* Bugs: the timestamp stays with its replica; it is the time to stop the Agent.
SetOwn(r) == activity' = [activity EXCEPT ![r] = 0]
SetDeadline(r) == activity' = [s \in Replicas |-> -Timeout]

\* The Set of TouchActivity in the process of a replica.
SetActivity(r) == activity' = [s \in Replicas |-> IF Shared \/ s = r THEN 0 ELSE activity[s]]

\* Redis does not answer, which no caller is told.
Unanswered == Shared /\ Trouble

TouchActivity(r) ==
    \/ SetActivity(r) /\ UNCHANGED troubles
    \/ Unanswered /\ UNCHANGED activity

-----------------------------------------------------------------------------
(* The watcher.                                                            *)

\* check lists the Agents from the informer cache and reads the clock; a paused
\* Agent is skipped.
Check(r) ==
    /\ watcher[r].at = "sleep"
    /\ ~cached[r].paused
    /\ watcher' = [watcher EXCEPT ![r] = [at |-> "get", since |-> 0]]
    /\ UNCHANGED <<agent, events, cached, activity, keepalive, quiet, seen, mode, troubles>>

\* Bug: a check of an active Agent counts as activity.
CompareTouching(r) ==
    /\ watcher[r].at = "get"
    /\ \/ /\ activity[r] # None /\ activity[r] - watcher[r].since >= Timeout
          /\ watcher' = [watcher EXCEPT ![r].at = "pause"]
          /\ UNCHANGED <<activity, troubles>>
       \/ /\ activity[r] = None \/ activity[r] - watcher[r].since < Timeout
          /\ TouchActivity(r)
          /\ watcher' = [watcher EXCEPT ![r] = Asleep]
    /\ UNCHANGED <<agent, events, cached, keepalive, quiet, seen, mode>>

\* Without a timestamp the Agent is given one, and so it is when Redis does not answer;
\* else the age of the timestamp when the clock was read is compared with the timeout.
Compare(r) ==
    /\ watcher[r].at = "get"
    /\ \/ /\ \/ activity[r] = None /\ TouchActivity(r)
             \/ Unanswered /\ (SetActivity(r) \/ UNCHANGED activity)
          /\ watcher' = [watcher EXCEPT ![r] = Asleep]
       \/ /\ activity[r] # None
          /\ watcher' = [watcher EXCEPT ![r] =
                            IF activity[r] - watcher[r].since >= Timeout
                            THEN [@ EXCEPT !.at = "pause"] ELSE Asleep]
          /\ UNCHANGED <<activity, troubles>>
    /\ UNCHANGED <<agent, events, cached, keepalive, quiet, seen, mode>>

\* pauseAgent: the copy was not paused, so the patch always sets spec.paused.  After an
\* error the next check tries again.
pauseAgent(r) ==
    /\ watcher[r].at = "pause"
    /\ \/ Put([agent EXCEPT !.paused = TRUE]) /\ UNCHANGED troubles
       \/ Failed
    /\ watcher' = [watcher EXCEPT ![r] = Asleep]
    /\ UNCHANGED <<cached, activity, keepalive, quiet, seen, mode>>

Watch(r) == Check(r) \/ Compare(r) \/ pauseAgent(r)

-----------------------------------------------------------------------------
(* Requests.                                                               *)

\* The activity middleware, before the handler of any request on the Agent.
Touched(r) ==
    /\ TouchActivity(r)
    /\ quiet' = 0
    /\ seen' = IF activity'[r] = 0 THEN 0 ELSE seen

\* A request that only reads, or writes something else.
OtherRequest(r) ==
    /\ mode = "free"
    /\ Touched(r)
    /\ UNCHANGED <<agent, events, cached, watcher, keepalive, mode>>

\* A keepalive arrives at a replica.  It may be the first of a session, in which one
\* follows the other in time.
Keepalive(r) ==
    /\ mode # "silent" /\ keepalive = NoRequest
    /\ Touched(r)
    /\ keepalive' = [at |-> "get", replica |-> r]
    /\ mode' \in {mode, "session"}
    /\ UNCHANGED <<agent, events, cached, watcher>>

\* wakeAgent reads the Agent: it is running, or must be unpaused, or waited for.
Wake ==
    /\ keepalive.at = "get"
    /\ LET copy == cached[keepalive.replica]
       IN  keepalive' = IF copy.paused THEN [keepalive EXCEPT !.at = "unpause"]
                        ELSE IF copy.running THEN NoRequest
                        ELSE [keepalive EXCEPT !.at = "poll"]
    /\ UNCHANGED <<agent, events, cached, activity, watcher, quiet, seen, mode, troubles>>

\* Bug: the base of the patch is taken after the change, so the patch is empty.
UnpauseNothing ==
    /\ keepalive.at = "unpause"
    /\ keepalive' = [keepalive EXCEPT !.at = "poll"]
    /\ UNCHANGED <<agent, events, cached, activity, watcher, quiet, seen, mode, troubles>>

\* The patch of wakeAgent; after an error the request fails.
Unpause ==
    /\ keepalive.at = "unpause"
    /\ \/ /\ Put([agent EXCEPT !.paused = FALSE])
          /\ keepalive' = [keepalive EXCEPT !.at = "poll"]
          /\ UNCHANGED troubles
       \/ Failed /\ keepalive' = NoRequest
    /\ UNCHANGED <<cached, activity, watcher, quiet, seen, mode>>

\* A read of the phase finds Running, or the time to wait is over ("starting").
Poll ==
    /\ keepalive.at = "poll"
    /\ keepalive' = NoRequest
    /\ UNCHANGED <<agent, events, cached, activity, watcher, quiet, seen, mode, troubles>>

\* The clients leave the Agent alone from now on.
FallSilent ==
    /\ mode = "free" /\ keepalive = NoRequest
    /\ mode' = "silent"
    /\ UNCHANGED <<agent, events, cached, activity, watcher, keepalive, quiet, seen, troubles>>

-----------------------------------------------------------------------------
\* kubectl unpauses the Agent, of which the middleware sees nothing.
KubectlUnpause ==
    /\ mode = "free" /\ Trouble
    /\ agent.paused
    /\ Put([agent EXCEPT !.paused = FALSE])
    /\ UNCHANGED <<cached, activity, watcher, keepalive, quiet, seen, mode>>

\* A replica restarts: its check and the request it serves are lost, and with them
\* the timestamps that were kept in its memory.
Crash(r) ==
    /\ Trouble
    /\ cached' = [cached EXCEPT ![r] = agent]
    /\ events' = [events EXCEPT ![r] = <<>>]
    /\ watcher' = [watcher EXCEPT ![r] = Asleep]
    /\ keepalive' = IF keepalive # NoRequest /\ keepalive.replica = r THEN NoRequest ELSE keepalive
    /\ activity' = IF Shared THEN activity ELSE [activity EXCEPT ![r] = None]
    /\ UNCHANGED <<agent, quiet, seen, mode>>

UpTo(limit, time) == IF time > limit THEN limit ELSE time

Older(age) == IF age \in {None, Oldest} THEN age ELSE age + 1

\* A unit of time passes.  A client in a session sends its keepalives in time, and a
\* watcher reads the timestamp less than a timeout after the clock.
Tick ==
    /\ mode = "session" => quiet < Period
    /\ \A r \in Replicas : watcher[r].since < Timeout
    /\ activity' = [r \in Replicas |-> Older(activity[r])]
    /\ watcher' = [r \in Replicas |->
                      IF watcher[r].at = "get" THEN [watcher[r] EXCEPT !.since = @ + 1]
                      ELSE watcher[r]]
    /\ quiet' = UpTo(Period, quiet + 1) /\ seen' = UpTo(Timeout, seen + 1)
    /\ UNCHANGED <<agent, events, cached, keepalive, mode, troubles>>

Next ==
    \/ \E r \in Replicas :
          Deliver(r) \/ Watch(r) \/ OtherRequest(r) \/ Keepalive(r) \/ Crash(r)
    \/ Reconciled \/ Wake \/ Unpause \/ Poll \/ FallSilent \/ KubectlUnpause \/ Tick

Spec == Init /\ [][Next]_vars

\* Time passes, watchers, informers and requests go on, and the client of a session
\* sends its keepalives.  The API server accepts each write sooner or later: it does
\* not wait for the informers, as Put does.
Fairness ==
    /\ WF_vars(Tick)
    /\ \A r \in Replicas : WF_vars(Deliver(r)) /\ SF_vars(Watch(r))
    /\ SF_vars(Reconciled)
    /\ WF_vars(Wake) /\ SF_vars(Unpause) /\ WF_vars(Poll)
    /\ WF_vars(mode = "session" /\ \E r \in Replicas : Keepalive(r))

FairSpec == Spec /\ Fairness

-----------------------------------------------------------------------------
(* Properties.                                                             *)

\* A check decides to pause the Agent only after Timeout without any request that left a
\* timestamp, at whatever replica and although the clock is read before the timestamp.
\* A request whose Set Redis did not answer does not count: an Agent in use may be
\* paused after it.  The patch, too, may come after a request that wakes the Agent.
PausesOnlyIdle ==
    [][\A r \in Replicas :
          (watcher[r].at = "get" /\ watcher'[r].at = "pause") => seen >= Timeout]_vars

\* README.md: keepalives "during the session (every idleTimeout/2 seconds)" "prevent
\* auto-stop".  An Agent whose clients keep a session up ends up unpaused and Running,
\* and stays so: at most, patches decided on before the session interrupt it.
SessionRuns ==
    <>[](mode = "session") => <>[](~agent.paused /\ agent.running)

\* README.md: "After the session ends: do nothing - agent stops automatically".
IdleStops ==
    <>[](mode = "silent") => <>[](agent.paused /\ ~agent.running)

=============================================================================
