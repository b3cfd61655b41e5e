---------------------------- MODULE InMemoryHistory ----------------------------
(***************************************************************************)
(* InMemoryHistory of internal/history/history.go, the store that is used  *)
(* without Redis: a slice of events per agent, under a mutex.  Append      *)
(* stamps its event before it takes the mutex.  A restart of the           *)
(* orchestrator loses the events.                                          *)
(***************************************************************************)
EXTENDS HistoryStore

VARIABLES
    events,     \* the map of slices; an agent without a slice has none
    writers,    \* the Append each goroutine is in
    seconds,    \* the clock
    spent       \* how much of the bounds is used

vars == <<events, writers, seconds, spent>>

Idle == [at |-> "idle"]

Init ==
    /\ events = [a \in Agents |-> <<>>]
    /\ writers = [w \in Writers |-> Idle]
    /\ seconds = 0
    /\ spent = [appends |-> 0, crashes |-> 0]

\* Append, before it has the mutex.
Stamp(w) ==
    /\ writers[w].at = "idle"
    /\ spent.appends < MaxAppends
    /\ spent' = [spent EXCEPT !.appends = @ + 1]
    /\ \E a \in Agents, r \in Reasons :
          writers' = [writers EXCEPT ![w] = [at |-> "lock", agent |-> a,
                                             event |-> [time |-> seconds, reason |-> r]]]
    /\ UNCHANGED <<events, seconds>>

\* Bug: eviction drops one event too many.
CappedOneLess(s) == IF Len(s) > Cap THEN SubSeq(s, Len(s) - Cap + 2, Len(s)) ELSE s

\* s[len(s)-maxEntries:] when the cap is exceeded.
Capped(s) == IF Len(s) > Cap THEN SubSeq(s, Len(s) - Cap + 1, Len(s)) ELSE s

\* Append, under the mutex.
Store(w) ==
    /\ writers[w].at = "lock"
    /\ events' = [events EXCEPT ![writers[w].agent] = Capped(Append(@, writers[w].event))]
    /\ writers' = [writers EXCEPT ![w] = Idle]
    /\ UNCHANGED <<seconds, spent>>

\* Nothing in the orchestrator calls Clear yet.
Clear(a) ==
    /\ events[a] # <<>>
    /\ events' = [events EXCEPT ![a] = <<>>]
    /\ UNCHANGED <<writers, seconds, spent>>

Restart ==
    /\ spent.crashes < MaxCrashes
    /\ spent' = [spent EXCEPT !.crashes = @ + 1]
    /\ events' = [a \in Agents |-> <<>>]
    /\ writers' = [w \in Writers |-> Idle]
    /\ UNCHANGED seconds

Tick ==
    /\ seconds < MaxSeconds
    /\ seconds' = seconds + 1
    /\ UNCHANGED <<events, writers, spent>>

Next ==
    \/ \E w \in Writers : Stamp(w) \/ Store(w)
    \/ \E a \in Agents : Clear(a)
    \/ Restart
    \/ Tick

Spec == Init /\ [][Next]_vars

-----------------------------------------------------------------------------
Log == INSTANCE EventLog WITH Events <- Event, MaxEntries <- Cap, log <- events

\* The slice under the mutex is the log: eviction drops the oldest events only, and
\* nothing but Clear and a restart loses the others.
ImplementsVolatileLog == Log!VolatileSpec

=============================================================================
