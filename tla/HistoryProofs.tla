----------------------------- MODULE HistoryProofs -----------------------------
(***************************************************************************)
(* Both stores implement the log of EventLog.  For RedisHistory this rests *)
(* on what its commands do to the list that List returns: RPUSH records an *)
(* event, and LTRIM leaves the latest, whoever sends it and whenever.  How *)
(* long a list can get needs an account of the pipelines that have still   *)
(* to trim it.                                                             *)
(***************************************************************************)
EXTENDS MCStores, SequenceTheorems, FiniteSetTheorems, TLAPS

-----------------------------------------------------------------------------
(* What the commands do to a list.                                         *)

\* A cap that is not positive was replaced.
LEMMA CapPositive == Cap \in Nat /\ Cap > 0
BY HistoryBoundsAssumption DEF Cap

\* The latest events of a list are a list of at most Cap events.
LEMMA LatestBounded ==
    ASSUME NEW S, NEW s \in Seq(S)
    PROVE  Log!Latest(s) \in Seq(S) /\ Len(Log!Latest(s)) <= Cap
<1> DEFINE m == Len(s) - Cap + 1
<1>0. Cap \in Nat /\ Cap > 0 /\ Len(s) \in Nat
  BY CapPositive, LenProperties
<1>1. CASE Len(s) <= Cap
  BY <1>1 DEF Log!Latest
<1>2. CASE Len(s) > Cap
  <2>1. m \in Int /\ Len(s) \in Int /\ m <= Len(s) /\ Len(s) - m + 1 = Cap
    BY <1>0, <1>2
  <2>2. \A i \in m .. Len(s) : s[i] \in S
    BY <1>0, <1>2, ElementOfSeq
  <2>3. Log!Latest(s) = SubSeq(s, m, Len(s))
    BY <1>0, <1>2 DEF Log!Latest
  <2> HIDE DEF m
  <2>4. SubSeq(s, m, Len(s)) \in Seq(S) /\ Len(SubSeq(s, m, Len(s))) = Cap
    BY <2>1, <2>2, SubSeqProperties
  <2> QED BY <1>0, <2>3, <2>4
<1> QED BY <1>0, <1>1, <1>2

\* LTRIM leaves the latest events, and a list within the cap as it is.
LEMMA TrimLeavesLatest ==
    ASSUME NEW S, NEW s \in Seq(S)
    PROVE  LTrim(s) = Log!Latest(s) /\ (Len(s) <= Cap => LTrim(s) = s)
<1>0. Cap \in Nat /\ Cap > 0 /\ Len(s) \in Nat
  BY CapPositive, LenProperties
<1>1. CASE Len(s) < Cap
  BY <1>0, <1>1, SubSeqFull DEF LTrim, Log!Latest
<1>2. CASE Len(s) = Cap
  <2>1. Len(s) - Cap + 1 = 1
    BY <1>0, <1>2
  <2> QED BY <1>0, <1>2, <2>1, SubSeqFull DEF LTrim, Log!Latest
<1>3. CASE Len(s) > Cap
  <2>1. ~(Len(s) < Cap) /\ ~(Len(s) <= Cap)
    BY <1>0, <1>3
  <2> QED BY <2>1 DEF LTrim, Log!Latest
<1> QED BY <1>0, <1>1, <1>2, <1>3

-----------------------------------------------------------------------------
(* The invariant of RedisHistory.                                          *)

\* All lists are empty at the start, and no writer is at work.
LEMMA TypeInit == HistoryInit => TypeOK
<1> SUFFICES ASSUME HistoryInit PROVE TypeOK
  OBVIOUS
<1>1. seconds \in 0..MaxSeconds
  BY HistoryBoundsAssumption DEF HistoryInit
<1>2. <<>> \in Seq(Event)
  BY EmptySeq
<1> QED BY <1>1, <1>2 DEF HistoryInit, TypeOK

\* Each command finds, in the pipeline that sends it, an agent and an event.
LEMMA TypeInductive ==
    ASSUME TypeOK, [HistoryNext]_historyVars
    PROVE  TypeOK'
<1>1. ASSUME NEW w \in Writers, Stamp(w)
      PROVE  TypeOK'
  <2>1. PICK a \in Agents, r \in Reasons :
           writers' = [writers EXCEPT ![w] = [at |-> "push", agent |-> a,
                                              event |-> [time |-> seconds, reason |-> r]]]
    BY <1>1 DEF Stamp
  <2>2. [at |-> "push", agent |-> a, event |-> [time |-> seconds, reason |-> r]] \in Appending
    BY DEF TypeOK, Appending, Event
  <2>3. writers' \in [Writers -> Appending \cup {NotAppending}]
    BY <2>1, <2>2 DEF TypeOK
  <2>4. spent' \in [appends : Nat, faults : Nat]
    <3>1. spent \in [appends : Nat, faults : Nat]
      BY DEF TypeOK
    <3>2. spent' = [spent EXCEPT !.appends = @ + 1]
      BY <1>1 DEF Stamp
    <3> QED BY <3>1, <3>2
  <2> QED BY <1>1, <2>3, <2>4 DEF Stamp, TypeOK
<1>2. ASSUME NEW w \in Writers, Push(w)
      PROVE  TypeOK'
  <2>1. writers[w] \in Appending
    BY <1>2 DEF Push, TypeOK, NotAppending
  <2>2. [writers[w] EXCEPT !.at = "trim"] \in Appending
    BY <2>1 DEF Appending
  <2>3. writers' \in [Writers -> Appending \cup {NotAppending}]
    BY <1>2, <2>2 DEF Push, TypeOK
  <2>4. Append(lists[writers[w].agent], writers[w].event) \in Seq(Event)
    BY <2>1, AppendProperties DEF TypeOK, Appending
  <2>5. lists' \in [Agents -> Seq(Event)]
    BY <1>2, <2>4 DEF Push, TypeOK
  <2> QED BY <1>2, <2>3, <2>5 DEF Push, TypeOK
<1>3. ASSUME NEW w \in Writers, Trim(w)
      PROVE  TypeOK'
  <2>1. writers[w] \in Appending
    BY <1>3 DEF Trim, TypeOK, NotAppending
  <2>2. LTrim(lists[writers[w].agent]) \in Seq(Event)
    BY <2>1, TrimLeavesLatest, LatestBounded DEF TypeOK, Appending
  <2>3. lists' \in [Agents -> Seq(Event)]
    BY <1>3, <2>2 DEF Trim, TypeOK
  <2> QED BY <1>3, <2>3 DEF Trim, TypeOK
<1>4. ASSUME NEW w \in Writers, BreakPipeline(w)
      PROVE  TypeOK'
  <2>1. writers[w] \in Appending
    BY <1>4 DEF BreakPipeline, TypeOK, NotAppending
  <2>2. untrimmed' \in [Agents -> Nat]
    BY <1>4, <2>1 DEF BreakPipeline, TypeOK, Appending
  <2>3. spent' \in [appends : Nat, faults : Nat]
    <3>1. spent \in [appends : Nat, faults : Nat]
      BY DEF TypeOK
    <3>2. spent' = [spent EXCEPT !.faults = @ + 1]
      BY <1>4 DEF BreakPipeline
    <3> QED BY <3>1, <3>2
  <2> QED BY <1>4, <2>2, <2>3 DEF BreakPipeline, TypeOK
<1>5. ASSUME NEW a \in Agents, Clear(a)
      PROVE  TypeOK'
  <2>1. <<>> \in Seq(Event)
    BY EmptySeq
  <2> QED BY <1>5, <2>1 DEF Clear, TypeOK
<1>6. CASE NextSecond
  BY <1>6, HistoryBoundsAssumption DEF NextSecond, TypeOK
<1>7. CASE UNCHANGED historyVars
  BY <1>7 DEF historyVars, TypeOK
<1> QED BY <1>1, <1>2, <1>3, <1>4, <1>5, <1>6, <1>7 DEF HistoryNext

\* The pipelines that have pushed an event of agent a and are about to trim.
Trimmers(a) == {w \in Writers : writers[w].at = "trim" /\ writers[w].agent = a}

\* Finitely many goroutines can be counted.
LEMMA WritersFinite ==
    ASSUME NEW T, T \subseteq Writers
    PROVE  IsFiniteSet(T) /\ Cardinality(T) \in Nat
BY WritersAssumption, FS_Subset, FS_CardinalityType

\* The account of one list.
Accounted(a) == Len(lists[a]) <= Cap + (Cardinality(Trimmers(a)) + untrimmed[a])

\* ListBounded is the account of every list.
LEMMA BoundIsAccount == ListBounded <=> \A a \in Agents : Accounted(a)
BY DEF ListBounded, PendingTrims, Accounted, Trimmers

\* The account of a list that no step of its own touches, or that is within the cap.
LEMMA AccountKept ==
    ASSUME TypeOK, TypeOK', NEW a \in Agents,
           \/ /\ Accounted(a) /\ UNCHANGED <<lists[a], untrimmed[a]>>
              /\ Trimmers(a)' = Trimmers(a)
           \/ Len(lists[a])' <= Cap
    PROVE  Accounted(a)'
<1>1. CASE Len(lists[a])' <= Cap
  <2>1. Trimmers(a)' \subseteq Writers
    BY DEF Trimmers
  <2>2. Cardinality(Trimmers(a)') \in Nat
    BY <2>1, WritersFinite
  <2>3. Len(lists[a])' \in Nat /\ untrimmed[a]' \in Nat
    BY LenProperties DEF TypeOK
  <2>4. Len(lists[a])' <= Cap + (Cardinality(Trimmers(a)') + untrimmed[a]')
    BY <1>1, <2>2, <2>3, CapPositive
  <2> QED BY <2>4 DEF Accounted
<1>2. CASE Accounted(a) /\ UNCHANGED <<lists[a], untrimmed[a]>> /\ Trimmers(a)' = Trimmers(a)
  BY <1>2 DEF Accounted
<1> QED BY <1>1, <1>2

\* A pipeline that pushes an event answers for it until it trims; one that breaks
\* before is still counted.
LEMMA BoundInductive ==
    ASSUME TypeOK, ListBounded, [HistoryNext]_historyVars
    PROVE  ListBounded'
<1> SUFFICES ASSUME NEW a \in Agents PROVE Accounted(a)'
  BY DEF ListBounded, PendingTrims, Accounted, Trimmers
<1>0. TypeOK' /\ Accounted(a)
  BY TypeInductive, BoundIsAccount
<1> DEFINE Same == UNCHANGED <<lists[a], untrimmed[a]>> /\ Trimmers(a)' = Trimmers(a)
<1>n. /\ Trimmers(a) \subseteq Writers /\ IsFiniteSet(Trimmers(a))
      /\ Cardinality(Trimmers(a)) \in Nat /\ untrimmed[a] \in Nat
      /\ lists[a] \in Seq(Event) /\ Len(lists[a]) \in Nat
      /\ Cap \in Nat
  <2>1. Trimmers(a) \subseteq Writers
    BY DEF Trimmers
  <2> QED BY <2>1, WritersFinite, CapPositive, LenProperties DEF TypeOK
<1>1. ASSUME NEW w \in Writers, Stamp(w)
      PROVE  Same
  BY <1>1 DEF Stamp, Trimmers, TypeOK
<1>2. ASSUME NEW w \in Writers, Push(w)
      PROVE  Accounted(a)'
  <2>1. CASE writers[w].agent = a
    <3>1. writers[w].event \in Event
      BY <1>2 DEF Push, TypeOK, NotAppending, Appending
    <3>2. lists'[a] = Append(lists[a], writers[w].event) /\ untrimmed' = untrimmed
      BY <1>2, <2>1 DEF Push, TypeOK
    <3>3. Trimmers(a)' = Trimmers(a) \cup {w} /\ w \notin Trimmers(a)
      BY <1>2, <2>1 DEF Push, Trimmers, TypeOK
    <3>4. Cardinality(Trimmers(a)') = Cardinality(Trimmers(a)) + 1
      BY <1>n, <3>3, FS_AddElement
    <3>5. Len(lists'[a]) = Len(lists[a]) + 1
      BY <1>n, <3>1, <3>2, AppendProperties
    <3> QED BY <1>0, <1>n, <3>2, <3>4, <3>5 DEF Accounted
  <2>2. CASE writers[w].agent # a
    <3>1. Same
      BY <1>2, <2>2 DEF Push, Trimmers, TypeOK
    <3> QED BY <1>0, <3>1, AccountKept
  <2> QED BY <2>1, <2>2
<1>3. ASSUME NEW w \in Writers, Trim(w)
      PROVE  Accounted(a)'
  <2>1. CASE writers[w].agent = a
    <3>1. lists'[a] = Log!Latest(lists[a])
      BY <1>3, <1>n, <2>1, TrimLeavesLatest DEF Trim, TypeOK
    <3>2. Len(lists'[a]) <= Cap
      BY <1>n, <3>1, LatestBounded
    <3> QED BY <1>0, <3>2, AccountKept
  <2>2. CASE writers[w].agent # a
    <3>1. Same
      BY <1>3, <2>2 DEF Trim, Trimmers, TypeOK, NotAppending
    <3> QED BY <1>0, <3>1, AccountKept
  <2> QED BY <2>1, <2>2
<1>4. ASSUME NEW w \in Writers, BreakPipeline(w)
      PROVE  Accounted(a)'
  <2>1. CASE w \in Trimmers(a)
    <3>1. lists' = lists /\ untrimmed'[a] = untrimmed[a] + 1
      BY <1>4, <2>1 DEF BreakPipeline, Trimmers, TypeOK
    <3>2. Trimmers(a)' = Trimmers(a) \ {w}
      BY <1>4 DEF BreakPipeline, Trimmers, TypeOK, NotAppending
    <3>3. Cardinality(Trimmers(a)') = Cardinality(Trimmers(a)) - 1
      BY <1>n, <2>1, <3>2, FS_RemoveElement
    <3> QED BY <1>0, <1>n, <3>1, <3>3 DEF Accounted
  <2>2. CASE w \notin Trimmers(a)
    <3>1. lists' = lists /\ untrimmed'[a] = untrimmed[a]
      BY <1>4, <2>2 DEF BreakPipeline, Trimmers, TypeOK
    <3>2. Trimmers(a)' = Trimmers(a)
      BY <1>4, <2>2 DEF BreakPipeline, Trimmers, TypeOK, NotAppending
    <3> QED BY <1>0, <3>1, <3>2, AccountKept
  <2> QED BY <2>1, <2>2
<1>5. ASSUME NEW b \in Agents, Clear(b)
      PROVE  Accounted(a)'
  <2>1. CASE a = b
    <3>1. Len(lists'[a]) = 0
      BY <1>5, <2>1, EmptySeq DEF Clear, TypeOK
    <3> QED BY <1>0, <1>n, <3>1, AccountKept
  <2>2. CASE a # b
    <3>1. Same
      BY <1>5, <2>2 DEF Clear, Trimmers, TypeOK
    <3> QED BY <1>0, <3>1, AccountKept
  <2> QED BY <2>1, <2>2
<1>6. CASE NextSecond \/ UNCHANGED historyVars
  <2>1. Same
    BY <1>6 DEF NextSecond, historyVars, Trimmers
  <2> QED BY <1>0, <2>1, AccountKept
<1> QED BY <1>0, <1>1, <1>2, <1>3, <1>4, <1>5, <1>6, AccountKept DEF HistoryNext

-----------------------------------------------------------------------------
(* The invariant of the two stores.                                        *)

\* While the orchestrator uses its memory, nothing writes to Redis.
MemoryTypeOK ==
    /\ events \in [Agents -> Seq(Event)]
    /\ writers \in [Writers -> [at : {"lock"}, agent : Agents, event : Event] \cup {NotAppending}]
    /\ seconds \in 0..MaxSeconds
    /\ lists = [a \in Agents |-> <<>>] /\ untrimmed = [a \in Agents |-> 0]

HistoryInv ==
    /\ redis \in BOOLEAN
    /\ redis => TypeOK /\ ListBounded
    /\ ~redis => MemoryTypeOK

\* Whichever store main chooses, it starts empty.
LEMMA StoreInitial == StoresInit => HistoryInv
<1> SUFFICES ASSUME StoresInit PROVE HistoryInv
  OBVIOUS
<1>0. <<>> \in Seq(Event) /\ Len(<<>>) = 0 /\ 0 \in 0..MaxSeconds
  BY EmptySeq, HistoryBoundsAssumption
<1>1. CASE redis = TRUE /\ HistoryInit
  <2>1. TypeOK
    BY <1>1, TypeInit
  <2>2. ASSUME NEW a \in Agents PROVE Accounted(a)
    <3>1. Trimmers(a) \subseteq Writers
      BY DEF Trimmers
    <3>2. Cardinality(Trimmers(a)) \in Nat /\ Len(lists[a]) = 0 /\ untrimmed[a] = 0
      BY <1>0, <1>1, <3>1, WritersFinite DEF HistoryInit
    <3> QED BY <3>2, CapPositive DEF Accounted
  <2> QED BY <1>1, <2>1, <2>2, BoundIsAccount DEF HistoryInv
<1>2. CASE /\ redis = FALSE /\ MemoryHistory!Init
           /\ lists = [a \in Agents |-> <<>>] /\ untrimmed = [a \in Agents |-> 0]
  BY <1>0, <1>2 DEF MemoryHistory!Init, MemoryHistory!Idle, NotAppending, HistoryInv, MemoryTypeOK
<1> QED BY <1>1, <1>2 DEF StoresInit

\* InMemoryHistory evicts just what an LTRIM would.
LEMMA CappedIsLatest ==
    ASSUME NEW S, NEW s \in Seq(S)
    PROVE  MemoryHistory!Capped(s) = Log!Latest(s)
<1>0. Cap \in Nat /\ Len(s) \in Nat /\ MemoryHistory!Cap = Cap
  BY CapPositive, LenProperties DEF Cap, MemoryHistory!Cap
<1> QED BY <1>0 DEF MemoryHistory!Capped, Log!Latest

\* Every step of InMemoryHistory keeps its types.
LEMMA MemoryInductive ==
    ASSUME MemoryTypeOK, MemoryHistory!Next, UNCHANGED <<lists, untrimmed>>
    PROVE  MemoryTypeOK'
<1> DEFINE Locking == [at : {"lock"}, agent : Agents, event : Event]
<1>1. ASSUME NEW w \in Writers, MemoryHistory!Stamp(w)
      PROVE  MemoryTypeOK'
  <2>1. PICK a \in Agents, r \in Reasons :
           writers' = [writers EXCEPT ![w] = [at |-> "lock", agent |-> a,
                                              event |-> [time |-> seconds, reason |-> r]]]
    BY <1>1 DEF MemoryHistory!Stamp
  <2>2. [at |-> "lock", agent |-> a, event |-> [time |-> seconds, reason |-> r]] \in Locking
    BY DEF MemoryTypeOK, Event
  <2> QED BY <1>1, <2>1, <2>2 DEF MemoryHistory!Stamp, MemoryTypeOK
<1>2. ASSUME NEW w \in Writers, MemoryHistory!Store(w)
      PROVE  MemoryTypeOK'
  <2>1. writers[w] \in Locking
    BY <1>2 DEF MemoryHistory!Store, MemoryTypeOK, NotAppending
  <2>2. Append(events[writers[w].agent], writers[w].event) \in Seq(Event)
    BY <2>1, AppendProperties DEF MemoryTypeOK
  <2>3. MemoryHistory!Capped(Append(events[writers[w].agent], writers[w].event)) \in Seq(Event)
    BY <2>2, CappedIsLatest, LatestBounded
  <2>4. events' \in [Agents -> Seq(Event)]
    BY <1>2, <2>3 DEF MemoryHistory!Store, MemoryTypeOK
  <2> QED BY <1>2, <2>4 DEF MemoryHistory!Store, MemoryHistory!Idle, NotAppending, MemoryTypeOK
<1>3. ASSUME NEW a \in Agents, MemoryHistory!Clear(a)
      PROVE  MemoryTypeOK'
  <2>1. <<>> \in Seq(Event)
    BY EmptySeq
  <2> QED BY <1>3, <2>1 DEF MemoryHistory!Clear, MemoryTypeOK
<1>4. CASE MemoryHistory!Restart
  <2>1. <<>> \in Seq(Event)
    BY EmptySeq
  <2> QED BY <1>4, <2>1 DEF MemoryHistory!Restart, MemoryHistory!Idle, NotAppending, MemoryTypeOK
<1>5. CASE MemoryHistory!Tick
  BY <1>5, HistoryBoundsAssumption DEF MemoryHistory!Tick, MemoryTypeOK
<1> QED BY <1>1, <1>2, <1>3, <1>4, <1>5 DEF MemoryHistory!Next

\* The store in use keeps its invariant, and the other one stays as it was.
LEMMA StoreInductive ==
    ASSUME HistoryInv, [StoresNext]_storesVars
    PROVE  HistoryInv'
<1>1. CASE redis /\ HistoryNext /\ UNCHANGED <<redis, events>>
  BY <1>1, TypeInductive, BoundInductive DEF HistoryInv
<1>2. CASE ~redis /\ MemoryHistory!Next /\ UNCHANGED <<redis, lists, untrimmed>>
  BY <1>2, MemoryInductive DEF HistoryInv
<1>3. CASE UNCHANGED <<redis, historyVars, events>>
  <2>1. redis => (TypeOK /\ ListBounded)'
    BY <1>3, TypeInductive, BoundInductive DEF HistoryInv
  <2>2. ~redis => MemoryTypeOK'
    BY <1>3 DEF HistoryInv, historyVars, MemoryTypeOK
  <2> QED BY <1>3, <2>1, <2>2 DEF HistoryInv
<1>4. UNCHANGED storesVars => UNCHANGED <<redis, historyVars, events>>
  BY DEF storesVars, storeVars
<1>5. StoreNext => UNCHANGED redis
  BY DEF StoreNext
<1> QED BY <1>1, <1>2, <1>3, <1>4, <1>5 DEF StoresNext, storeVars

\* Hence the invariant holds of either choice.
LEMMA StoreInvariant == StoresSpec => []HistoryInv
BY StoreInitial, StoreInductive, PTL DEF StoresSpec

-----------------------------------------------------------------------------
(* The theorems.                                                           *)

\* Whatever the number of goroutines and the cap: a Redis list holds no more beyond its
\* cap than there are pipelines that have pushed and not trimmed.
THEOREM ListsAreBounded == StoresSpec => []ListBounded
<1>1. HistoryInv => ListBounded
  <2>1. CASE redis
    BY <2>1 DEF HistoryInv
  <2>2. CASE ~redis
    <3> SUFFICES ASSUME MemoryTypeOK, NEW a \in Agents PROVE Accounted(a)
      BY <2>2, BoundIsAccount DEF HistoryInv
    <3>1. Trimmers(a) \subseteq Writers
      BY DEF Trimmers
    <3>2. Cardinality(Trimmers(a)) \in Nat /\ Len(lists[a]) = 0 /\ untrimmed[a] = 0
      BY <3>1, WritersFinite, EmptySeq DEF MemoryTypeOK
    <3> QED BY <3>2, CapPositive DEF Accounted
  <2> QED BY <2>1, <2>2
<1> QED BY <1>1, StoreInvariant, PTL

\* Each step of RedisHistory records an event, evicts old ones, clears the events of an
\* agent, or changes nothing of what List returns.
LEMMA RedisStep ==
    ASSUME TypeOK, [HistoryNext]_historyVars
    PROVE  [Log!PersistentNext]_lists
<1>1. ASSUME NEW w \in Writers, Push(w)
      PROVE  Log!PersistentNext
  <2>1. writers[w].agent \in Agents /\ writers[w].event \in Event
    BY <1>1 DEF Push, TypeOK, Appending, NotAppending
  <2>2. Log!Recorded(writers[w].agent, writers[w].event)
    BY <1>1 DEF Push, Log!Recorded
  <2> QED BY <2>1, <2>2 DEF Log!PersistentNext
<1>2. ASSUME NEW w \in Writers, Trim(w)
      PROVE  [Log!PersistentNext]_lists
  <2> DEFINE b == writers[w].agent
  <2>1. b \in Agents /\ lists[b] \in Seq(Event) /\ Len(lists[b]) \in Nat
    BY <1>2, LenProperties DEF Trim, TypeOK, Appending, NotAppending
  <2>2. lists' = [lists EXCEPT ![b] = LTrim(lists[b])]
    BY <1>2 DEF Trim
  <2> HIDE DEF b
  <2>3. CASE Len(lists[b]) <= Cap
    <3>1. LTrim(lists[b]) = lists[b]
      BY <2>1, <2>3, TrimLeavesLatest
    <3>2. lists' = lists
      BY <2>1, <2>2, <3>1 DEF TypeOK
    <3> QED BY <3>2
  <2>4. CASE Len(lists[b]) > Cap
    <3>1. LTrim(lists[b]) = Log!Latest(lists[b])
      BY <2>1, TrimLeavesLatest
    <3>2. Log!Evicted(b)
      BY <2>2, <2>4, <3>1 DEF Log!Evicted
    <3> QED BY <2>1, <3>2 DEF Log!PersistentNext
  <2> QED BY <2>1, <2>3, <2>4, CapPositive
<1>3. ASSUME NEW a \in Agents, Clear(a)
      PROVE  Log!PersistentNext
  BY <1>3 DEF Clear, Log!Cleared, Log!PersistentNext
<1>4. ASSUME NEW w \in Writers, Stamp(w) \/ BreakPipeline(w)
      PROVE  UNCHANGED lists
  BY <1>4 DEF Stamp, BreakPipeline
<1>5. CASE NextSecond \/ UNCHANGED historyVars
  BY <1>5 DEF NextSecond, historyVars
<1> QED BY <1>1, <1>2, <1>3, <1>4, <1>5 DEF HistoryNext

\* However the pipelines of any number of goroutines interleave and break, List
\* returns the events pushed since the last Clear, in their order, and what LTRIM has
\* evicted of them is the oldest beyond the last Cap.
THEOREM RedisImplementsLog == StoresSpec => ImplementsEventLog
<1>1. StoresInit => Log!Init
  BY DEF StoresInit, HistoryInit, Log!Init
<1>2. HistoryInv /\ [StoresNext]_storesVars => [Log!PersistentNext]_lists
  <2> SUFFICES ASSUME HistoryInv, [StoresNext]_storesVars
               PROVE  [Log!PersistentNext]_lists
    OBVIOUS
  <2>1. CASE redis /\ HistoryNext
    BY <2>1, RedisStep DEF HistoryInv
  <2>2. CASE UNCHANGED lists
    BY <2>2
  <2> QED BY <2>1, <2>2 DEF StoresNext, storesVars, historyVars
<1> QED BY <1>1, <1>2, StoreInvariant, PTL
        DEF StoresSpec, ImplementsEventLog, Log!PersistentSpec

\* InMemoryHistory implements the log that a restart empties.
LEMMA MemoryStep ==
    ASSUME MemoryTypeOK, MemoryHistory!Next
    PROVE  [MemoryHistory!Log!VolatileNext]_events
<1>1. ASSUME NEW w \in Writers, MemoryHistory!Store(w)
      PROVE  MemoryHistory!Log!VolatileNext
  <2> DEFINE b == writers[w].agent
             e == writers[w].event
  <2>1. b \in Agents /\ e \in MemoryHistory!Event
    BY <1>1 DEF MemoryHistory!Store, MemoryTypeOK, NotAppending, Event, MemoryHistory!Event
  <2>2. MemoryHistory!Capped(Append(events[b], e)) = MemoryHistory!Log!Latest(Append(events[b], e))
    <3>0. events[b] \in Seq(Event) /\ e \in Event
      BY <2>1 DEF MemoryTypeOK, Event, MemoryHistory!Event
    <3>1. Len(Append(events[b], e)) \in Nat
      BY <3>0, AppendProperties, LenProperties
    <3>2. MemoryHistory!Cap \in Nat
      BY HistoryBoundsAssumption DEF MemoryHistory!Cap
    <3> QED BY <3>1, <3>2 DEF MemoryHistory!Capped, MemoryHistory!Log!Latest
  <2>3. MemoryHistory!Log!RecordedAndEvicted(b, e)
    BY <1>1, <2>2 DEF MemoryHistory!Store, MemoryHistory!Log!RecordedAndEvicted
  <2> QED BY <2>1, <2>3 DEF MemoryHistory!Log!VolatileNext
<1>2. ASSUME NEW a \in Agents, MemoryHistory!Clear(a)
      PROVE  MemoryHistory!Log!VolatileNext
  BY <1>2 DEF MemoryHistory!Clear, MemoryHistory!Log!Cleared, MemoryHistory!Log!VolatileNext
<1>3. CASE MemoryHistory!Restart
  BY <1>3 DEF MemoryHistory!Restart, MemoryHistory!Log!Forgotten, MemoryHistory!Log!VolatileNext
<1>4. CASE MemoryHistory!Tick \/ \E w \in Writers : MemoryHistory!Stamp(w)
  BY <1>4 DEF MemoryHistory!Tick, MemoryHistory!Stamp
<1> QED BY <1>1, <1>2, <1>3, <1>4 DEF MemoryHistory!Next

\* Without Redis, what List returns is the log of the events stored since the last
\* Clear or restart, whichever goroutine gets the mutex first.
THEOREM MemoryImplementsLog == StoresSpec => ImplementsVolatileLog
<1>1. StoresInit => MemoryHistory!Log!Init
  BY DEF StoresInit, MemoryHistory!Init, MemoryHistory!Log!Init
<1>2. HistoryInv /\ [StoresNext]_storesVars => [MemoryHistory!Log!VolatileNext]_events
  BY MemoryStep DEF HistoryInv, StoresNext, storesVars
<1> QED BY <1>1, <1>2, StoreInvariant, PTL
        DEF StoresSpec, ImplementsVolatileLog, MemoryHistory!ImplementsVolatileLog,
            MemoryHistory!Log!VolatileSpec

=============================================================================
