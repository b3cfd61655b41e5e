--------------------------- MODULE IdleWatcherProofs ---------------------------
(***************************************************************************)
(* Watchers pause only what is idle: for any number of replicas, timeout   *)
(* and bound, if all replicas share one store of timestamps, or there is   *)
(* one replica.                                                            *)
(***************************************************************************)
EXTENDS IdleWatcher, TLAPS

\* What is stored of a version on its way.
LEMMA QueueOfOne ==
    ASSUME NEW v \in Versions
    PROVE  /\ <<v>> \in Seq(Versions) /\ Len(<<v>>) = 1
           /\ <<>> \in Seq(Versions) /\ Len(<<>>) = 0
OBVIOUS

\* A write keeps the types of the Agent and of what is on its way.
LEMMA PutType ==
    ASSUME IdleTypeOK, NEW a \in Versions, Put(a)
    PROVE  /\ agent' \in Versions
           /\ \A r \in Replicas : events'[r] \in Seq(Versions) /\ Len(events'[r]) <= 1
<1>1. CASE a = agent /\ UNCHANGED <<agent, events>>
  BY <1>1 DEF IdleTypeOK
<1>2. CASE agent' = a /\ events' = [r \in Replicas |-> <<a>>]
  BY <1>2, QueueOfOne
<1> QED BY <1>1, <1>2 DEF Put

\* A touch gives replicas an age of 0 or leaves them alone.
LEMMA TouchType ==
    ASSUME IdleTypeOK, NEW r \in Replicas,
           SetActivity(r) \/ TouchActivity(r) \/ UNCHANGED activity
    PROVE  activity' \in [Replicas -> Ages \cup {None}]
<1>1. 0 \in Ages
  BY TimesAssumption DEF Ages, Oldest
<1> QED BY <1>1 DEF IdleTypeOK, TouchActivity, SetActivity

\* Ages stay in bounds.
LEMMA OlderType ==
    ASSUME NEW age \in Ages \cup {None}
    PROVE  /\ Older(age) \in Ages \cup {None}
           /\ age # None => Older(age) # None
BY TimesAssumption DEF Older, Ages, Oldest, None

\* The steps of a watcher keep the types.
LEMMA WatchType ==
    ASSUME IdleTypeOK, NEW r \in Replicas, Watch(r)
    PROVE  IdleTypeOK'
<1>0. Timeout \in Nat /\ MaxTroubles \in Nat /\ Asleep \in Watching
  BY TimesAssumption, LimitsAssumption DEF Asleep, Watching
<1>1. CASE Check(r)
  BY <1>0, <1>1 DEF Check, IdleTypeOK, Watching
<1>2. CASE Compare(r)
  <2>1. activity' \in [Replicas -> Ages \cup {None}]
    BY <1>2, TouchType DEF Compare, IdleTypeOK
  <2>2. watcher' \in [Replicas -> Watching]
    <3>1. watcher \in [Replicas -> Watching] /\ [watcher[r] EXCEPT !.at = "pause"] \in Watching
      BY DEF IdleTypeOK, Watching
    <3>2. \E w \in Watching : watcher' = [watcher EXCEPT ![r] = w]
      BY <1>0, <1>2, <3>1 DEF Compare
    <3> QED BY <3>1, <3>2
  <2>3. troubles' \in 0..MaxTroubles
    BY <1>0, <1>2 DEF Compare, TouchActivity, Unanswered, Trouble, IdleTypeOK
  <2> QED BY <1>2, <2>1, <2>2, <2>3 DEF Compare, IdleTypeOK
<1>3. CASE pauseAgent(r)
  <2>1. watcher' \in [Replicas -> Watching]
    BY <1>0, <1>3 DEF pauseAgent, IdleTypeOK
  <2>2. CASE Put([agent EXCEPT !.paused = TRUE]) /\ UNCHANGED troubles
    <3>1. [agent EXCEPT !.paused = TRUE] \in Versions
      BY DEF IdleTypeOK, Versions
    <3> QED BY <1>3, <2>1, <2>2, <3>1, PutType DEF pauseAgent, IdleTypeOK
  <2>3. CASE Failed
    BY <1>0, <1>3, <2>1, <2>3 DEF pauseAgent, Failed, Trouble, IdleTypeOK
  <2> QED BY <1>3, <2>2, <2>3 DEF pauseAgent
<1> QED BY <1>1, <1>2, <1>3 DEF Watch

\* The steps of requests keep the types.
LEMMA RequestType ==
    ASSUME IdleTypeOK,
           \/ \E r \in Replicas : OtherRequest(r) \/ Keepalive(r)
           \/ Wake \/ Unpause \/ Poll \/ FallSilent
    PROVE  IdleTypeOK'
<1>0. Period \in Nat /\ Timeout \in Nat /\ MaxTroubles \in Nat
  BY TimesAssumption, LimitsAssumption
<1>t. ASSUME NEW r \in Replicas, Touched(r)
      PROVE  /\ activity' \in [Replicas -> Ages \cup {None}]
             /\ quiet' \in 0..Period /\ seen' \in 0..Timeout /\ troubles' \in 0..MaxTroubles
  <2>1. activity' \in [Replicas -> Ages \cup {None}]
    BY <1>t, TouchType DEF Touched
  <2> QED BY <1>0, <1>t, <2>1 DEF Touched, TouchActivity, Unanswered, Trouble, IdleTypeOK
<1>1. ASSUME NEW r \in Replicas, OtherRequest(r)  PROVE IdleTypeOK'
  BY <1>1, <1>t DEF OtherRequest, IdleTypeOK
<1>2. ASSUME NEW r \in Replicas, Keepalive(r)  PROVE IdleTypeOK'
  <2>1. keepalive' \in Requesting
    BY <1>2 DEF Keepalive, Requesting
  <2> QED BY <1>2, <1>t, <2>1 DEF Keepalive, IdleTypeOK
<1>3. CASE Wake
  <2>1. keepalive \in Requesting
    BY <1>3 DEF Wake, IdleTypeOK, NoRequest
  <2>2. keepalive' \in Requesting \cup {NoRequest}
    BY <1>3, <2>1 DEF Wake, Requesting
  <2> QED BY <1>3, <2>2 DEF Wake, IdleTypeOK
<1>4. CASE Unpause
  <2>1. keepalive \in Requesting
    BY <1>4 DEF Unpause, IdleTypeOK, NoRequest
  <2>2. keepalive' \in Requesting \cup {NoRequest}
    BY <1>4, <2>1 DEF Unpause, Requesting
  <2>3. [agent EXCEPT !.paused = FALSE] \in Versions
    BY DEF IdleTypeOK, Versions
  <2>4. CASE Put([agent EXCEPT !.paused = FALSE]) /\ UNCHANGED troubles
    BY <1>4, <2>2, <2>3, <2>4, PutType DEF Unpause, IdleTypeOK
  <2>5. CASE Failed
    BY <1>0, <1>4, <2>2, <2>5 DEF Unpause, Failed, Trouble, IdleTypeOK
  <2> QED BY <1>4, <2>4, <2>5 DEF Unpause
<1>5. CASE Poll
  BY <1>5 DEF Poll, IdleTypeOK
<1>6. CASE FallSilent
  BY <1>6 DEF FallSilent, IdleTypeOK
<1> QED BY <1>1, <1>2, <1>3, <1>4, <1>5, <1>6

\* Everything else keeps the types.
LEMMA OtherType ==
    ASSUME IdleTypeOK,
           \/ \E r \in Replicas : Deliver(r) \/ Crash(r)
           \/ Reconciled \/ KubectlUnpause \/ Tick
    PROVE  IdleTypeOK'
<1>0. Timeout \in Nat /\ MaxTroubles \in Nat /\ Asleep \in Watching
  BY TimesAssumption, LimitsAssumption DEF Asleep, Watching
<1>1. ASSUME NEW r \in Replicas, Deliver(r)  PROVE IdleTypeOK'
  <2>1. /\ Head(events[r]) \in Versions
        /\ Tail(events[r]) \in Seq(Versions) /\ Len(Tail(events[r])) <= 1
    BY <1>1 DEF Deliver, IdleTypeOK
  <2>2. \A s \in Replicas : events'[s] \in Seq(Versions) /\ Len(events'[s]) <= 1
    BY <1>1, <2>1 DEF Deliver, IdleTypeOK
  <2> QED BY <1>1, <2>1, <2>2 DEF Deliver, IdleTypeOK
<1>2. ASSUME NEW r \in Replicas, Crash(r)  PROVE IdleTypeOK'
  <2>1. \A s \in Replicas : events'[s] \in Seq(Versions) /\ Len(events'[s]) <= 1
    BY <1>2, QueueOfOne DEF Crash, IdleTypeOK
  <2>2. keepalive' \in Requesting \cup {NoRequest}
    BY <1>2 DEF Crash, IdleTypeOK
  <2>3. activity' \in [Replicas -> Ages \cup {None}]
    BY <1>2 DEF Crash, IdleTypeOK
  <2>4. cached' \in [Replicas -> Versions] /\ watcher' \in [Replicas -> Watching]
    BY <1>0, <1>2 DEF Crash, IdleTypeOK
  <2> QED BY <1>0, <1>2, <2>1, <2>2, <2>3, <2>4 DEF Crash, Trouble, IdleTypeOK
<1>3. CASE Reconciled
  <2>1. [agent EXCEPT !.running = ~agent.paused] \in Versions
    BY DEF IdleTypeOK, Versions
  <2> QED BY <1>3, <2>1, PutType DEF Reconciled, IdleTypeOK
<1>4. CASE KubectlUnpause
  <2>1. [agent EXCEPT !.paused = FALSE] \in Versions
    BY DEF IdleTypeOK, Versions
  <2> QED BY <1>0, <1>4, <2>1, PutType DEF KubectlUnpause, Trouble, IdleTypeOK
<1>5. CASE Tick
  <2>1. activity' \in [Replicas -> Ages \cup {None}]
    BY <1>5, OlderType DEF Tick, IdleTypeOK
  <2>2. quiet' \in 0..Period /\ seen' \in 0..Timeout
    BY <1>5, TimesAssumption DEF Tick, UpTo, IdleTypeOK
  <2>3. watcher' \in [Replicas -> Watching]
    BY <1>0, <1>5 DEF Tick, IdleTypeOK, Watching
  <2> QED BY <1>5, <2>1, <2>2, <2>3 DEF Tick, IdleTypeOK
<1> QED BY <1>1, <1>2, <1>3, <1>4, <1>5

\* The types hold at the beginning, and every step keeps them.
LEMMA TypeInductive ==
    /\ Init => IdleTypeOK
    /\ IdleTypeOK /\ [Next]_vars => IdleTypeOK'
<1>1. Init => IdleTypeOK
  <2> SUFFICES ASSUME Init PROVE IdleTypeOK
    OBVIOUS
  <2>1. Period \in 0..Period /\ Timeout \in 0..Timeout /\ None \in Ages \cup {None} /\ Asleep \in Watching /\ 0 \in 0..MaxTroubles
    BY TimesAssumption, LimitsAssumption DEF Ages, Oldest, Asleep, Watching
  <2>2. agent \in Versions
    BY DEF Init, Versions
  <2> QED BY <2>1, <2>2, QueueOfOne DEF Init, IdleTypeOK
<1>2. IdleTypeOK /\ [Next]_vars => IdleTypeOK'
  <2>1. IdleTypeOK /\ UNCHANGED vars => IdleTypeOK'
    BY DEF vars, IdleTypeOK
  <2> QED BY <2>1, WatchType, RequestType, OtherType DEF Next
<1> QED BY <1>1, <1>2

\* Type correctness of the watchers and requests, for any number of replicas.
THEOREM IdleTypeCorrect == Spec => []IdleTypeOK
BY TypeInductive, PTL DEF Spec

-----------------------------------------------------------------------------
\* All replicas find the same timestamps, or there is one.
OneStore == Shared \/ \A r, s \in Replicas : r = s

\* A timestamp is not older than the last request that left one.
Fresh(age, since) == age <= since \/ since = Timeout

TouchedSince == \A r \in Replicas : Fresh(activity[r], seen)

\* The replicas agree on the timestamp.
Alike == \A r, s \in Replicas : activity[r] = activity[s]

IdleInv == IdleTypeOK /\ TouchedSince /\ Alike

\* A touch of any kind makes no timestamp older.
LEMMA TouchIsNew ==
    ASSUME IdleInv, NEW r \in Replicas,
           SetActivity(r) \/ TouchActivity(r) \/ UNCHANGED activity
    PROVE  \A s \in Replicas : Fresh(activity'[s], seen)
<1>1. seen >= 0
  BY DEF IdleInv, IdleTypeOK
<1> QED BY <1>1 DEF IdleInv, TouchedSince, Fresh, TouchActivity, SetActivity

\* A request that leaves a timestamp makes all of them new.
LEMMA RequestIsNew ==
    ASSUME OneStore, IdleInv, NEW r \in Replicas, Touched(r)
    PROVE  TouchedSince'
<1>1. CASE activity'[r] # 0
  BY <1>1, TouchIsNew DEF Touched, TouchedSince, Fresh
<1>2. CASE activity'[r] = 0 /\ SetActivity(r)
  <2>1. \A s \in Replicas : activity'[s] = 0
    BY <1>2 DEF SetActivity, OneStore
  <2> QED BY <1>2, <2>1 DEF Touched, TouchedSince, Fresh
<1>3. CASE activity'[r] = 0 /\ UNCHANGED activity
  <2>1. \A s \in Replicas : activity'[s] = 0
    BY <1>3 DEF IdleInv, Alike
  <2> QED BY <1>3, <2>1 DEF Touched, TouchedSince, Fresh
<1> QED BY <1>1, <1>2, <1>3 DEF Touched, TouchActivity

\* Time passes for the timestamps as for the last request.
LEMMA OlderKeepsFresh ==
    ASSUME NEW age \in Ages \cup {None}, NEW since \in 0..Timeout, Fresh(age, since)
    PROVE  Fresh(Older(age), UpTo(Timeout, since + 1))
BY TimesAssumption DEF Fresh, Older, UpTo, Ages, Oldest, None

\* Steps do not tell the timestamps of the replicas from each other.
LEMMA StayAlike ==
    ASSUME OneStore, IdleInv, [Next]_vars
    PROVE  Alike'
<1>1. ASSUME NEW r \in Replicas,
             SetActivity(r) \/ TouchActivity(r) \/ UNCHANGED activity
      PROVE  Alike'
  BY <1>1 DEF IdleInv, Alike, OneStore, SetActivity, TouchActivity
<1>2. ASSUME NEW r \in Replicas, OtherRequest(r) \/ Keepalive(r) \/ Compare(r)
      PROVE  Alike'
  BY <1>1, <1>2 DEF OtherRequest, Keepalive, Touched, Compare
<1>3. ASSUME NEW r \in Replicas, Crash(r)  PROVE Alike'
  BY <1>3 DEF Crash, IdleInv, Alike, OneStore
<1>4. CASE Tick
  BY <1>4 DEF Tick, IdleInv, Alike
<1>5. CASE UNCHANGED activity
  BY <1>5 DEF IdleInv, Alike
<1> QED BY <1>2, <1>3, <1>4, <1>5
        DEF Next, Watch, Check, pauseAgent, Deliver, Reconciled, Wake, Unpause, Poll,
            FallSilent, KubectlUnpause, vars

\* The invariant holds at the beginning, and every step keeps it.
LEMMA TouchedInductive ==
    ASSUME OneStore
    PROVE  /\ Init => IdleInv
           /\ IdleInv /\ [Next]_vars => IdleInv'
<1>1. Init => IdleInv
  BY TypeInductive DEF Init, TouchedSince, Fresh, Alike, IdleInv
<1>2. ASSUME IdleInv, [Next]_vars  PROVE IdleInv'
  <2>1. IdleTypeOK' /\ Alike'
    BY <1>2, TypeInductive, StayAlike DEF IdleInv
  <2>2. CASE UNCHANGED <<activity, seen>>
    BY <1>2, <2>1, <2>2 DEF IdleInv, TouchedSince
  <2>3. ASSUME NEW r \in Replicas, Touched(r)  PROVE TouchedSince'
    BY <1>2, <2>3, RequestIsNew
  <2>4. ASSUME NEW r \in Replicas, Compare(r)  PROVE TouchedSince'
    <3>1. seen' = seen /\ (SetActivity(r) \/ TouchActivity(r) \/ UNCHANGED activity)
      BY <2>4 DEF Compare
    <3> QED BY <1>2, <3>1, TouchIsNew DEF TouchedSince
  <2>5. ASSUME NEW r \in Replicas, Crash(r)  PROVE TouchedSince'
    <3>1. None <= seen
      BY <1>2 DEF IdleInv, IdleTypeOK, None
    <3>2. \A s \in Replicas : activity'[s] \in {activity[s], None}
      BY <1>2, <2>5 DEF Crash, IdleInv, IdleTypeOK
    <3>3. seen' = seen /\ \A s \in Replicas : Fresh(activity[s], seen)
      BY <1>2, <2>5 DEF Crash, IdleInv, TouchedSince
    <3> QED BY <2>1, <3>1, <3>2, <3>3 DEF IdleInv, TouchedSince, Fresh
  <2>6. CASE Tick
    <3>1. \A r \in Replicas : /\ activity'[r] = Older(activity[r])
                              /\ activity[r] \in Ages \cup {None}
                              /\ Fresh(activity[r], seen)
      BY <1>2, <2>6 DEF Tick, IdleInv, IdleTypeOK, TouchedSince
    <3>2. seen' = UpTo(Timeout, seen + 1) /\ seen \in 0..Timeout
      BY <1>2, <2>6 DEF Tick, IdleInv, IdleTypeOK
    <3>3. \A r \in Replicas : Fresh(Older(activity[r]), UpTo(Timeout, seen + 1))
      BY <3>1, <3>2, OlderKeepsFresh
    <3> QED BY <2>1, <3>1, <3>2, <3>3 DEF IdleInv, TouchedSince, Fresh
  <2>7. \/ UNCHANGED <<activity, seen>>
        \/ \E r \in Replicas : Touched(r) \/ Compare(r) \/ Crash(r)
        \/ Tick
    BY <1>2 DEF Next, Watch, Check, pauseAgent, OtherRequest, Keepalive, Deliver, Reconciled,
                Wake, Unpause, Poll, FallSilent, KubectlUnpause, vars
  <2> QED BY <2>1, <2>2, <2>3, <2>4, <2>5, <2>6, <2>7 DEF IdleInv
<1> QED BY <1>1, <1>2

\* A watcher decides to pause the Agent only after Timeout without any request, at any
\* replica, whose timestamp Redis has stored: check, with its clock read before the
\* timestamp, and the middleware.  A request whose Set was lost does not count.
THEOREM PausesAreIdle == OneStore => (Spec => PausesOnlyIdle)
<1> SUFFICES ASSUME OneStore PROVE Spec => PausesOnlyIdle
  OBVIOUS
<1>1. ASSUME IdleInv, [Next]_vars
      PROVE  [\A r \in Replicas : (watcher[r].at = "get" /\ watcher'[r].at = "pause")
                                     => seen >= Timeout]_vars
  <2> SUFFICES ASSUME Next, NEW r \in Replicas,
                      watcher[r].at = "get", watcher'[r].at = "pause"
               PROVE  seen >= Timeout
    BY <1>1
  <2>1. watcher \in [Replicas -> Watching]
    BY <1>1 DEF IdleInv, IdleTypeOK
  <2>2. watcher'[r] # watcher[r] /\ watcher'[r] # Asleep
    BY DEF Asleep
  <2>3. ~Tick
    BY <2>1 DEF Tick, Watching
  <2>4. ASSUME NEW s \in Replicas, Crash(s)  PROVE FALSE
    BY <2>1, <2>2, <2>4 DEF Crash
  <2>5. PICK s \in Replicas : Watch(s)
    BY <2>2, <2>3, <2>4 DEF Next, OtherRequest, Keepalive, Deliver, Reconciled, Wake, Unpause,
                            Poll, FallSilent, KubectlUnpause
  <2>6. s = r
    BY <2>1, <2>2, <2>5 DEF Watch, Check, Compare, pauseAgent
  <2>7. Compare(r)
    BY <2>5, <2>6 DEF Watch, Check, pauseAgent
  <2>8. activity[r] - watcher[r].since >= Timeout
    BY <2>1, <2>2, <2>7 DEF Compare
  <2> QED BY <1>1, <2>1, <2>8, TimesAssumption
          DEF IdleInv, IdleTypeOK, TouchedSince, Fresh, Ages, Oldest, None, Watching
<1> QED BY <1>1, TouchedInductive, PTL DEF Spec, PausesOnlyIdle

=============================================================================
