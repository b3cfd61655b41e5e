------------------------------- MODULE EventLog -------------------------------
(***************************************************************************)
(* What the two stores of internal/history/history.go promise for the      *)
(* lifecycle events of each agent.  List returns the events in the order   *)
(* in which they were recorded; only the oldest ones, beyond the latest    *)
(* MaxEntries, are ever evicted.  RedisHistory evicts some time after it   *)
(* has recorded, so that List may return more than MaxEntries meanwhile;   *)
(* InMemoryHistory evicts in the same step.                                *)
(***************************************************************************)
EXTENDS Integers, Sequences

CONSTANTS
    Agents,     \* the agents, by namespace and name
    Events,     \* the events
    MaxEntries  \* how many events of an agent are kept

VARIABLE log    \* what List returns for each agent

\* The last MaxEntries elements of a sequence.
Latest(s) ==
    IF Len(s) <= MaxEntries THEN s ELSE SubSeq(s, Len(s) - MaxEntries + 1, Len(s))

Init == log = [a \in Agents |-> <<>>]

Recorded(a, event) == log' = [log EXCEPT ![a] = Append(@, event)]

Evicted(a) == Len(log[a]) > MaxEntries /\ log' = [log EXCEPT ![a] = Latest(@)]

RecordedAndEvicted(a, event) == log' = [log EXCEPT ![a] = Latest(Append(@, event))]

Cleared(a) == log' = [log EXCEPT ![a] = <<>>]

\* A store that keeps its events in the process forgets them when it restarts.
Forgotten == log' = [a \in Agents |-> <<>>]

PersistentNext ==
    \E a \in Agents : Cleared(a) \/ Evicted(a) \/ \E event \in Events : Recorded(a, event)

PersistentSpec == Init /\ [][PersistentNext]_log

VolatileNext ==
    \/ \E a \in Agents : Cleared(a) \/ \E event \in Events : RecordedAndEvicted(a, event)
    \/ Forgotten

VolatileSpec == Init /\ [][VolatileNext]_log

=============================================================================
