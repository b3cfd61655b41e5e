----------------------------- MODULE InMemoryCache -----------------------------
(***************************************************************************)
(* InMemoryCache of internal/cache/cache.go, for one agent, by the REST    *)
(* handlers, the idle watcher and the loop that collects expired entries.  *)
(*                                                                         *)
(* There are two levels of locks: m.mu guards the map from agents to       *)
(* agentCache objects, ac.mu the entries of one object.  A call finds its  *)
(* object under the first and works on it under the second, so that        *)
(* ClearAgent, which drops the object from the map, can come in between.   *)
(***************************************************************************)
EXTENDS Integers

CONSTANTS
    Fields,     \* the field names
    Callers,    \* the goroutines that use the cache
    Missing,    \* no entry
    MaxObjects, \* bound: agentCache objects
    MaxCalls    \* bound: calls

VARIABLES
    heap,       \* the entries of each agentCache object
    current,    \* the object in the map, 0 if the agent has none
    last,       \* the object that was made last
    callers,    \* the call each goroutine is in
    calls,      \* the number of calls so far, which are the ids of entries
    clears      \* how many calls of ClearAgent have taken effect

vars == <<heap, current, last, callers, calls, clears>>

Empty == [f \in Fields |-> Missing]

Idle == [at |-> "idle"]

Init ==
    /\ heap = [o \in 1..MaxObjects |-> Empty]
    /\ current = 0 /\ last = 0
    /\ callers = [c \in Callers |-> Idle]
    /\ calls = 0 /\ clears = 0

Goto(c, call) == callers' = [callers EXCEPT ![c] = call]

\* A call begins; since is how many calls of ClearAgent came before it.
Call(c, op) ==
    /\ callers[c].at = "idle"
    /\ calls < MaxCalls
    /\ calls' = calls + 1
    /\ \E f \in Fields, ttl \in BOOLEAN :
          /\ ttl => op = "set"
          /\ Goto(c, [at |-> "lookup", op |-> op, field |-> f, ttl |-> ttl,
                      id |-> calls + 1, since |-> clears, object |-> 0])
    /\ UNCHANGED <<heap, current, last, clears>>

\* m.agents[key] under the read lock.  Without an object, Set goes on to make one
\* and the other calls return.
Lookup(c) ==
    /\ callers[c].at = "lookup"
    /\ \/ /\ current # 0
          /\ Goto(c, [callers[c] EXCEPT !.at = "object", !.object = current])
       \/ /\ current = 0 /\ callers[c].op = "set"
          /\ Goto(c, [callers[c] EXCEPT !.at = "create"])
       \/ /\ current = 0 /\ callers[c].op # "set"
          /\ Goto(c, Idle)
    /\ UNCHANGED <<heap, current, last, calls, clears>>

\* Bug: the object is made without a second look at the map.
CreateUnchecked(c) ==
    /\ callers[c].at = "create"
    /\ last < MaxObjects
    /\ last' = last + 1 /\ current' = last'
    /\ Goto(c, [callers[c] EXCEPT !.at = "object", !.object = current'])
    /\ UNCHANGED <<heap, calls, clears>>

\* The rest of getOrCreate, under the write lock: look again, then make the object.
Create(c) ==
    /\ callers[c].at = "create"
    /\ \/ current # 0 /\ UNCHANGED <<last, current>>
       \/ /\ current = 0
          /\ last < MaxObjects
          /\ last' = last + 1 /\ current' = last'
    /\ Goto(c, [callers[c] EXCEPT !.at = "object", !.object = current'])
    /\ UNCHANGED <<heap, calls, clears>>

\* At its object under ac.mu, and done.
At(c, op) ==
    /\ callers[c].at = "object" /\ callers[c].op = op
    /\ Goto(c, Idle)
    /\ UNCHANGED <<current, last, calls, clears>>

NewEntry(c) ==
    [id |-> callers[c].id, ttl |-> callers[c].ttl, expired |-> FALSE, epoch |-> clears]

Set(c) ==
    /\ At(c, "set")
    /\ heap' = [heap EXCEPT ![callers[c].object][callers[c].field] = NewEntry(c)]

Delete(c) ==
    /\ At(c, "delete")
    /\ heap' = [heap EXCEPT ![callers[c].object][callers[c].field] = Missing]

\* Get, GetEntry and List: they see the entries that have not expired.
Get(c) == At(c, "get") /\ UNCHANGED heap

Unexpired(e) == IF e # Missing /\ ~e.expired THEN e ELSE Missing

\* Bug: every entry with a ttl is taken for expired.
GcKeepsNoTtl(e) == IF e # Missing /\ ~e.ttl THEN e ELSE Missing

\* What the loop gcLoop leaves of an entry.
GcKeeps(e) == Unexpired(e)

gc(c) ==
    /\ At(c, "gc")
    /\ heap' = [heap EXCEPT ![callers[c].object] = [f \in Fields |-> GcKeeps(@[f])]]

\* Bug: ClearAgent removes the entries of the fields without a ttl only.
ClearAgentKeepingTtl ==
    /\ calls < MaxCalls
    /\ calls' = calls + 1
    /\ clears' = clears + 1
    /\ current # 0
    /\ heap' = [heap EXCEPT ![current] =
                   [f \in Fields |-> IF @[f] # Missing /\ @[f].ttl THEN @[f] ELSE Missing]]
    /\ UNCHANGED <<last, current, callers>>

\* ClearAgent is one step under the write lock.
ClearAgent ==
    /\ calls < MaxCalls
    /\ calls' = calls + 1
    /\ clears' = clears + 1
    /\ current' = 0
    /\ UNCHANGED <<heap, last, callers>>

\* Time passes: an entry with a ttl expires.
Elapse(o, f) ==
    /\ heap[o][f] # Missing
    /\ heap[o][f].ttl /\ ~heap[o][f].expired
    /\ heap' = [heap EXCEPT ![o][f].expired = TRUE]
    /\ UNCHANGED <<current, last, callers, calls, clears>>

Next ==
    \/ \E c \in Callers :
          \/ \E op \in {"set", "get", "delete", "gc"} : Call(c, op)
          \/ Lookup(c) \/ Create(c)
          \/ Set(c) \/ Delete(c) \/ Get(c) \/ gc(c)
    \/ ClearAgent
    \/ \E o \in 1..MaxObjects, f \in Fields : Elapse(o, f)

Spec == Init /\ [][Next]_vars

-----------------------------------------------------------------------------
\* What a Get that starts now would find.
Visible(f) == IF current = 0 THEN Missing ELSE Unexpired(heap[current][f])

\* Caller c ends a call of op on field f.
Ends(c, op, f) ==
    /\ callers[c].at = "object" /\ callers[c].op = op /\ callers[c].field = f
    /\ callers'[c].at = "idle"

\* A Set or a Delete reaches the object in the map, whatever other calls made or found
\* the object at the same time: it has no effect only if a ClearAgent overlapped it.
WritesReach ==
    [][\A c \in Callers, f \in Fields :
          callers[c].at # "idle" /\ callers[c].since = clears =>
              /\ Ends(c, "set", f) => Visible(f)' = NewEntry(c)
              /\ Ends(c, "delete", f) => Visible(f)' = Missing]_vars

\* An entry that can be seen stays, until a call sets or deletes its own field, or the
\* cache is cleared, or it expires: neither the collection of expired entries nor two
\* goroutines that make the agentCache object at the same time lose it.
EntriesStay ==
    [][\A f \in Fields :
          Visible(f) # Missing /\ Visible(f)' # Visible(f) =>
              \/ clears' # clears
              \/ \E c \in Callers : Ends(c, "set", f) \/ Ends(c, "delete", f)
              \/ heap'[current][f] # Missing /\ heap'[current][f].expired]_vars

\* What ClearAgent removed is not seen again by a call that starts later, although
\* calls that started before it may still write to the object that it dropped.
ClearedIsGone ==
    \A c \in Callers :
        callers[c].at = "object" =>
            \A f \in Fields :
                LET e == Unexpired(heap[callers[c].object][f])
                IN  e # Missing => e.epoch >= callers[c].since

=============================================================================
