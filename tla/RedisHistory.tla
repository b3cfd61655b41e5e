----------------------------- MODULE RedisHistory -----------------------------
(***************************************************************************)
(* RedisHistory of internal/history/history.go: one Redis list per agent.  *)
(*                                                                         *)
(* The reconciler, the resurrection goroutines and the REST handlers       *)
(* append concurrently.  Append stamps the event, then sends RPUSH and     *)
(* LTRIM in a pipeline, which is no transaction: the commands of other     *)
(* connections come in between, and the connection can break before either *)
(* of them; the error is ignored.  Redis keeps its data over restarts.     *)
(***************************************************************************)
EXTENDS HistoryStore

VARIABLES
    lists,      \* the Redis list of each agent
    writers,    \* the Append each goroutine is in
    seconds,    \* the clock
    untrimmed,  \* pipelines that broke before LTRIM, since the last LTRIM of the agent
    spent       \* how much of the bounds is used

historyVars == <<lists, writers, seconds, untrimmed, spent>>

NotAppending == [at |-> "idle"]

Appending == [at : {"push", "trim"}, agent : Agents, event : Event]

TypeOK ==
    /\ lists \in [Agents -> Seq(Event)]
    /\ writers \in [Writers -> Appending \cup {NotAppending}]
    /\ seconds \in 0..MaxSeconds
    /\ untrimmed \in [Agents -> Nat]
    /\ spent \in [appends : Nat, faults : Nat]

HistoryInit ==
    /\ lists = [a \in Agents |-> <<>>]
    /\ writers = [w \in Writers |-> NotAppending]
    /\ seconds = 0
    /\ untrimmed = [a \in Agents |-> 0]
    /\ spent = [appends |-> 0, faults |-> 0]

\* Append: build the event.
Stamp(w) ==
    /\ writers[w].at = "idle"
    /\ spent.appends < MaxAppends
    /\ spent' = [spent EXCEPT !.appends = @ + 1]
    /\ \E a \in Agents, r \in Reasons :
          writers' = [writers EXCEPT ![w] = [at |-> "push", agent |-> a,
                                             event |-> [time |-> seconds, reason |-> r]]]
    /\ UNCHANGED <<lists, seconds, untrimmed>>

\* RPUSH.
Push(w) ==
    /\ writers[w].at = "push"
    /\ lists' = [lists EXCEPT ![writers[w].agent] = Append(@, writers[w].event)]
    /\ writers' = [writers EXCEPT ![w].at = "trim"]
    /\ UNCHANGED <<seconds, untrimmed, spent>>

\* Bugs: LTRIM 0 maxEntries-1 keeps the oldest events; one event too many is kept.
LTrimOldest(s) == SubSeq(s, 1, IF Len(s) < Cap THEN Len(s) ELSE Cap)
LTrimOneMore(s) == SubSeq(s, IF Len(s) <= Cap THEN 1 ELSE Len(s) - Cap, Len(s))

\* LTRIM -maxEntries -1: a start before the first element means the first.
LTrim(s) == SubSeq(s, IF Len(s) < Cap THEN 1 ELSE Len(s) - Cap + 1, Len(s))

Trim(w) ==
    /\ writers[w].at = "trim"
    /\ lists' = [lists EXCEPT ![writers[w].agent] = LTrim(@)]
    /\ untrimmed' = [untrimmed EXCEPT ![writers[w].agent] = 0]
    /\ writers' = [writers EXCEPT ![w] = NotAppending]
    /\ UNCHANGED <<seconds, spent>>

\* The pipeline breaks before its next command, and Append returns.
BreakPipeline(w) ==
    /\ writers[w].at # "idle"
    /\ spent.faults < MaxBreaks
    /\ spent' = [spent EXCEPT !.faults = @ + 1]
    /\ untrimmed' = [untrimmed EXCEPT ![writers[w].agent] =
                        IF writers[w].at = "trim" THEN @ + 1 ELSE @]
    /\ writers' = [writers EXCEPT ![w] = NotAppending]
    /\ UNCHANGED <<lists, seconds>>

\* DEL.  Nothing in the orchestrator calls Clear yet.
Clear(a) ==
    /\ lists[a] # <<>>
    /\ lists' = [lists EXCEPT ![a] = <<>>]
    /\ UNCHANGED <<writers, seconds, untrimmed, spent>>

NextSecond ==
    /\ seconds < MaxSeconds
    /\ seconds' = seconds + 1
    /\ UNCHANGED <<lists, writers, untrimmed, spent>>

HistoryNext ==
    \/ \E w \in Writers : Stamp(w) \/ Push(w) \/ Trim(w) \/ BreakPipeline(w)
    \/ \E a \in Agents : Clear(a)
    \/ NextSecond

HistorySpec == HistoryInit /\ [][HistoryNext]_historyVars

-----------------------------------------------------------------------------
\* List is LRANGE 0 -1: the whole list.
Log == INSTANCE EventLog WITH Events <- Event, MaxEntries <- Cap, log <- lists

\* However the pipelines interleave and break, what List returns is the events pushed
\* since the last Clear, in their order, without some of the oldest: an LTRIM removes
\* nothing of the last Cap, neither its own event nor one that was pushed in between.
ImplementsEventLog == Log!PersistentSpec

\* The pipelines that have pushed an event and have not trimmed.
PendingTrims(a) ==
    Cardinality({w \in Writers : writers[w].at = "trim" /\ writers[w].agent = a})
        + untrimmed[a]

\* What List returns beyond the cap is what pipelines in progress or broken ones have
\* not trimmed: the list cannot creep up, as the next LTRIM makes up for those lost.
ListBounded == \A a \in Agents : Len(lists[a]) <= Cap + PendingTrims(a)

=============================================================================
