----------------------------- MODULE HistoryStore -----------------------------
(***************************************************************************)
(* What the two history stores of internal/history/history.go share: their *)
(* users, their events and their cap.                                      *)
(***************************************************************************)
EXTENDS Integers, Sequences, FiniteSets

CONSTANTS
    Agents,         \* the agents, by namespace and name
    Writers,        \* the goroutines that use the store
    Reasons,        \* what the events say
    maxEntries,     \* the cap given to NewRedisHistory or NewInMemoryHistory
    MaxSeconds,     \* bound: seconds
    MaxAppends,     \* bound: calls of Append
    MaxBreaks,      \* bound: pipelines that break
    MaxCrashes      \* bound: restarts

ASSUME HistoryBoundsAssumption ==
    /\ maxEntries \in Int
    /\ {MaxSeconds, MaxAppends, MaxBreaks, MaxCrashes} \subseteq Nat
ASSUME WritersAssumption == IsFiniteSet(Writers)

\* The time is in seconds: what JSON keeps of metav1.Time.
Event == [time : 0..MaxSeconds, reason : Reasons]

\* A cap that is not positive is replaced by the default.
Cap == IF maxEntries <= 0 THEN 1000 ELSE maxEntries

=============================================================================
