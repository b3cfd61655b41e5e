------------------------------- MODULE MCStores -------------------------------
(***************************************************************************)
(* The stores of the orchestrator: main makes the cache and the history    *)
(* with Redis if it has its address, and both in the memory of the process *)
(* otherwise.  They share nothing else and no call uses both, so a         *)
(* behaviour is one of the cache or one of the history.                    *)
(***************************************************************************)
EXTENDS MCCache, RedisHistory

VARIABLES
    caching,    \* the cache is used, and not the history
    events      \* the slices of InMemoryHistory

MemoryHistory == INSTANCE InMemoryHistory

storesVars == <<caching, storeVars, historyVars, events>>

StoresInit ==
    /\ caching \in BOOLEAN
    /\ StoreInit
    /\ \/ redis = TRUE /\ HistoryInit /\ events = [a \in Agents |-> <<>>]
       \/ /\ redis = FALSE /\ MemoryHistory!Init
          /\ lists = [a \in Agents |-> <<>>] /\ untrimmed = [a \in Agents |-> 0]

StoresNext ==
    \/ caching /\ StoreNext /\ UNCHANGED <<caching, historyVars, events>>
    \/ ~caching /\ redis /\ HistoryNext /\ UNCHANGED <<caching, storeVars, events>>
    \/ ~caching /\ ~redis /\ MemoryHistory!Next
       /\ UNCHANGED <<caching, storeVars, lists, untrimmed>>

StoresSpec == StoresInit /\ [][StoresNext]_storesVars

\* The slice that InMemoryHistory keeps under its mutex is the log, until a restart:
\* eviction drops the oldest events only, and only Clear loses the others.
ImplementsVolatileLog == MemoryHistory!ImplementsVolatileLog

=============================================================================
