-------------------------------- MODULE MCCache --------------------------------
(***************************************************************************)
(* The cache of the orchestrator for one agent: main uses Redis if it has  *)
(* its address and the memory of the process otherwise.                    *)
(***************************************************************************)
EXTENDS RedisCache

CONSTANTS
    MemoryCallers,  \* the goroutines that use InMemoryCache
    MaxMemoryCalls, \* bound: calls of InMemoryCache
    MaxObjects      \* bound: agentCache objects

ASSUME MemoryBoundsAssumption == {MaxMemoryCalls, MaxObjects} \subseteq Nat
ASSUME NoEntryAssumption ==
    Missing \notin [id : Nat, ttl : BOOLEAN, expired : BOOLEAN, epoch : Nat]

VARIABLES
    redis,                      \* the orchestrator uses Redis
    heap, current, last,        \* the state of InMemoryCache
    memoryCallers, calls, clears

Memory == INSTANCE InMemoryCache
          WITH Callers <- MemoryCallers, MaxCalls <- MaxMemoryCalls,
               callers <- memoryCallers

memoryVars == <<heap, current, last, memoryCallers, calls, clears>>
storeVars == <<vars, redis, memoryVars>>

StoreInit == redis \in BOOLEAN /\ Init /\ Memory!Init

StoreNext ==
    \/ redis /\ Next /\ UNCHANGED <<redis, memoryVars>>
    \/ ~redis /\ Memory!Next /\ UNCHANGED <<redis, vars>>

StoreSpec == StoreInit /\ [][StoreNext]_storeVars

\* A Set or a Delete of InMemoryCache reaches the object in the map, whatever other
\* calls made or found the object at the same time: it has no effect only if a
\* ClearAgent overlapped it.
WritesReach == Memory!WritesReach

\* An entry of InMemoryCache that can be seen stays, until a call sets or deletes its
\* own field, or the cache is cleared, or it expires.
EntriesStay == Memory!EntriesStay

\* What ClearAgent removed from InMemoryCache is not seen again by a call that starts
\* later.
ClearedIsGone == Memory!ClearedIsGone

=============================================================================
