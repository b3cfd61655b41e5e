------------------------------ MODULE CacheProofs ------------------------------
(***************************************************************************)
(* InMemoryCache: a write reaches the object in the map unless a           *)
(* ClearAgent overlapped it, entries stay until they are set, deleted,     *)
(* cleared or expired, and what was cleared stays away from later calls.   *)
(* RedisCache: the index covers what is stored, apart from the fields that *)
(* a named mishap may have taken out of it.                                *)
(***************************************************************************)
EXTENDS MCCache, TLAPS

-----------------------------------------------------------------------------
(* The invariant of InMemoryCache.                                         *)

Ops == {"set", "get", "delete", "gc"}

Entry == [id : Nat, ttl : BOOLEAN, expired : BOOLEAN, epoch : Nat]

MemoryCall ==
    [at : {"lookup", "create", "object"}, op : Ops, field : Fields, ttl : BOOLEAN,
     id : Nat, since : Nat, object : Nat]

MemoryTypeOK ==
    /\ heap \in [1..MaxObjects -> [Fields -> Entry \cup {Missing}]]
    /\ current \in Nat /\ last \in 0..MaxObjects
    /\ memoryCallers \in [MemoryCallers -> MemoryCall \cup {Idle}]
    /\ calls \in Nat /\ clears \in Nat

\* The map holds the object made last or none, and those to come are empty.
ObjectsInOrder ==
    /\ current \in {0, last}
    /\ \A o \in 1..MaxObjects : o > last => heap[o] = Memory!Empty

\* A call holds an object that was made, and the one in the map unless a ClearAgent
\* overlapped it.
CallsHoldObjects ==
    \A c \in MemoryCallers :
        LET call == memoryCallers[c]
        IN  /\ call.at # "idle" => call.since <= clears
            /\ call.at = "object" =>
                  /\ call.object \in 1..last
                  /\ call.since = clears => call.object = current

\* The entries of the object in the map are of this epoch, and a call that holds an
\* object finds no entry in it from before the last ClearAgent that the call saw.
EntriesInEpoch ==
    /\ current # 0 => \A f \in Fields :
          heap[current][f] # Missing => heap[current][f].epoch >= clears
    /\ \A c \in MemoryCallers : memoryCallers[c].at = "object" =>
          \A f \in Fields :
              LET e == heap[memoryCallers[c].object][f]
              IN  e # Missing => e.epoch >= memoryCallers[c].since

MemoryInv == MemoryTypeOK /\ ObjectsInOrder /\ CallsHoldObjects /\ EntriesInEpoch

-----------------------------------------------------------------------------
(* MemoryInv is inductive.                                                 *)

MemoryEntries == [1..MaxObjects -> [Fields -> Entry \cup {Missing}]]

\* An entry is told from no entry.
LEMMA NoEntryIsMissing == \A e \in Entry : e # Missing
BY NoEntryAssumption DEF Entry

\* At the start no agentCache object has been made.
LEMMA MemoryInitial == Memory!Init => MemoryInv
<1> SUFFICES ASSUME Memory!Init PROVE MemoryInv
  OBVIOUS
<1>1. MemoryTypeOK
  BY MemoryBoundsAssumption DEF Memory!Init, Memory!Empty, Memory!Idle, Idle, MemoryTypeOK
<1>2. ObjectsInOrder /\ CallsHoldObjects /\ EntriesInEpoch
  BY DEF Memory!Init, Memory!Idle, ObjectsInOrder, CallsHoldObjects, EntriesInEpoch
<1> QED BY <1>1, <1>2 DEF MemoryInv

\* An entry that the step leaves was there before, with its epoch, or is of this epoch;
\* objects that were not made stay as they are.
EntriesEdited ==
    /\ heap' \in MemoryEntries
    /\ \A o \in 1..MaxObjects :
          /\ o > last => heap'[o] = heap[o]
          /\ \A f \in Fields :
                heap'[o][f] # Missing =>
                    \/ heap'[o][f].epoch = clears
                    \/ heap[o][f] # Missing /\ heap'[o][f].epoch = heap[o][f].epoch

\* Calls go on or end.
CallsEnd ==
    \E C \in SUBSET MemoryCallers :
        memoryCallers' = [c \in MemoryCallers |-> IF c \in C THEN Idle ELSE memoryCallers[c]]

\* A step that edits entries in this way and starts no call keeps the invariant.
LEMMA EditMemoryInv ==
    ASSUME MemoryInv, EntriesEdited, CallsEnd, UNCHANGED <<current, last, clears>>, calls' \in Nat
    PROVE  MemoryInv'
<1>0. MemoryTypeOK /\ last <= MaxObjects /\ last \in Nat /\ MaxObjects \in Nat /\ clears \in Nat
  BY MemoryBoundsAssumption DEF MemoryInv, MemoryTypeOK
<1>1. MemoryTypeOK'
  BY <1>0 DEF EntriesEdited, MemoryEntries, CallsEnd, MemoryTypeOK
<1>2. \A c \in MemoryCallers : memoryCallers'[c].at # "idle" => memoryCallers'[c] = memoryCallers[c]
  BY DEF CallsEnd, Idle
<1>3. ObjectsInOrder'
  BY DEF MemoryInv, ObjectsInOrder, EntriesEdited, Memory!Empty
<1>4. CallsHoldObjects'
  BY <1>2 DEF MemoryInv, CallsHoldObjects
<1>5. \A f \in Fields : current # 0 /\ heap'[current][f] # Missing => heap'[current][f].epoch >= clears
  <2> SUFFICES ASSUME NEW f \in Fields, current # 0, heap'[current][f] # Missing
               PROVE  heap'[current][f].epoch >= clears
    OBVIOUS
  <2>1. current \in 1..MaxObjects
    BY <1>0 DEF MemoryInv, ObjectsInOrder
  <2>2. \/ heap'[current][f].epoch = clears
        \/ heap[current][f] # Missing /\ heap'[current][f].epoch = heap[current][f].epoch
    BY <2>1 DEF EntriesEdited
  <2> QED BY <1>0, <2>2 DEF MemoryInv, EntriesInEpoch
<1>6. ASSUME NEW c \in MemoryCallers, memoryCallers'[c].at = "object",
             NEW f \in Fields, heap'[memoryCallers'[c].object][f] # Missing
      PROVE  heap'[memoryCallers'[c].object][f].epoch >= memoryCallers'[c].since
  <2> DEFINE o == memoryCallers[c].object
  <2>1. memoryCallers'[c] = memoryCallers[c]
    BY <1>2, <1>6
  <2>2. o \in 1..last /\ memoryCallers[c].since <= clears
    BY <1>6, <2>1 DEF MemoryInv, CallsHoldObjects
  <2>3. o \in 1..MaxObjects
    BY <1>0, <2>2
  <2>4. \/ heap'[o][f].epoch = clears
        \/ heap[o][f] # Missing /\ heap'[o][f].epoch = heap[o][f].epoch
    BY <1>6, <2>1, <2>3 DEF EntriesEdited
  <2> QED BY <1>6, <2>1, <2>2, <2>4 DEF MemoryInv, EntriesInEpoch
<1>7. EntriesInEpoch'
  BY <1>5, <1>6 DEF EntriesInEpoch
<1> QED BY <1>1, <1>3, <1>4, <1>7 DEF MemoryInv

\* A call that has its object works on it and ends.
LEMMA AtObject ==
    ASSUME MemoryInv, NEW c \in MemoryCallers, NEW op, Memory!At(c, op)
    PROVE  /\ memoryCallers[c] \in MemoryCall /\ memoryCallers[c].at = "object"
           /\ memoryCallers[c].op = op
           /\ memoryCallers[c].object \in 1..last /\ memoryCallers[c].object \in 1..MaxObjects
           /\ memoryCallers' = [memoryCallers EXCEPT ![c] = Idle] /\ CallsEnd
           /\ UNCHANGED <<current, last, calls, clears>>
<1>1. memoryCallers' = [memoryCallers EXCEPT ![c] = Idle] /\ UNCHANGED <<current, last, calls, clears>>
  BY DEF Memory!At, Memory!Goto, Memory!Idle, Idle
<1>2. memoryCallers[c].at = "object" /\ memoryCallers[c].op = op
  BY DEF Memory!At
<1>3. memoryCallers[c].object \in 1..last /\ last \in 0..MaxObjects
  BY <1>2 DEF MemoryInv, MemoryTypeOK, CallsHoldObjects
<1>4. memoryCallers[c].object \in 1..MaxObjects
  BY <1>3, MemoryBoundsAssumption
<1>5. memoryCallers[c] \in MemoryCall
  BY <1>2 DEF MemoryInv, MemoryTypeOK, Idle
<1>6. memoryCallers' = [d \in MemoryCallers |-> IF d \in {c} THEN Idle ELSE memoryCallers[d]]
  BY <1>1 DEF MemoryInv, MemoryTypeOK
<1>7. CallsEnd
  BY <1>6 DEF CallsEnd
<1> QED BY <1>1, <1>2, <1>3, <1>4, <1>5, <1>7

\* What the entries of one object become, the others staying as they are.
LEMMA ObjectEdited ==
    ASSUME MemoryInv, NEW o \in 1..MaxObjects, o <= last,
           NEW entries \in [Fields -> Entry \cup {Missing}],
           heap' = [heap EXCEPT ![o] = entries],
           \A f \in Fields : entries[f] # Missing =>
               \/ entries[f].epoch = clears
               \/ heap[o][f] # Missing /\ entries[f].epoch = heap[o][f].epoch
    PROVE  EntriesEdited
<1>1. heap \in MemoryEntries /\ last \in Nat
  BY DEF MemoryInv, MemoryTypeOK, MemoryEntries
<1>2. heap' \in MemoryEntries
  BY <1>1 DEF MemoryEntries
<1>3. \A p \in 1..MaxObjects : heap'[p] = IF p = o THEN entries ELSE heap[p]
  BY <1>1 DEF MemoryEntries
<1> QED BY <1>1, <1>2, <1>3 DEF EntriesEdited

\* The entry that a Set makes.
LEMMA NewEntryType ==
    ASSUME MemoryTypeOK, NEW c \in MemoryCallers, memoryCallers[c] \in MemoryCall
    PROVE  /\ Memory!NewEntry(c) \in Entry /\ Memory!NewEntry(c).epoch = clears
           /\ ~Memory!NewEntry(c).expired
BY DEF MemoryTypeOK, MemoryCall, Memory!NewEntry, Entry

\* What each call does to the object it holds.
LEMMA SetEffect ==
    ASSUME MemoryInv, NEW c \in MemoryCallers, Memory!Set(c)
    PROVE  /\ EntriesEdited
           /\ heap' = [heap EXCEPT ![memoryCallers[c].object] =
                          [@ EXCEPT ![memoryCallers[c].field] = Memory!NewEntry(c)]]
<1> DEFINE o == memoryCallers[c].object
           entries == [heap[o] EXCEPT ![memoryCallers[c].field] = Memory!NewEntry(c)]
<1>1. Memory!At(c, "set") /\ heap' = [heap EXCEPT ![o] = entries]
  BY DEF Memory!Set
<1>2. o \in 1..MaxObjects /\ o <= last /\ memoryCallers[c] \in MemoryCall
  BY <1>1, AtObject
<1>3. heap[o] \in [Fields -> Entry \cup {Missing}]
  BY <1>2 DEF MemoryInv, MemoryTypeOK
<1>4. Memory!NewEntry(c) \in Entry /\ Memory!NewEntry(c).epoch = clears
  BY <1>2, NewEntryType DEF MemoryInv
<1>5. entries \in [Fields -> Entry \cup {Missing}]
  BY <1>3, <1>4
<1>6. \A f \in Fields : entries[f] = heap[o][f] \/ entries[f] = Memory!NewEntry(c)
  BY <1>3
<1> HIDE DEF entries
<1>7. EntriesEdited
  BY <1>1, <1>2, <1>4, <1>5, <1>6, ObjectEdited
<1> QED BY <1>1, <1>7 DEF entries

\* Delete takes away the entry of its field, in the object that the call holds.
LEMMA DeleteEffect ==
    ASSUME MemoryInv, NEW c \in MemoryCallers, Memory!Delete(c)
    PROVE  /\ EntriesEdited
           /\ heap' = [heap EXCEPT ![memoryCallers[c].object] =
                          [@ EXCEPT ![memoryCallers[c].field] = Missing]]
<1> DEFINE o == memoryCallers[c].object
           entries == [heap[o] EXCEPT ![memoryCallers[c].field] = Missing]
<1>1. Memory!At(c, "delete") /\ heap' = [heap EXCEPT ![o] = entries]
  BY DEF Memory!Delete
<1>2. o \in 1..MaxObjects /\ o <= last
  BY <1>1, AtObject
<1>3. heap[o] \in [Fields -> Entry \cup {Missing}]
  BY <1>2 DEF MemoryInv, MemoryTypeOK
<1>4. entries \in [Fields -> Entry \cup {Missing}]
  BY <1>3
<1>5. \A f \in Fields : entries[f] # Missing =>
         heap[o][f] # Missing /\ entries[f].epoch = heap[o][f].epoch
  BY <1>3
<1> HIDE DEF entries
<1>6. EntriesEdited
  BY <1>1, <1>2, <1>4, <1>5, ObjectEdited
<1> QED BY <1>1, <1>6 DEF entries

\* The collection loop takes away entries that have expired, and no other.
LEMMA gcEffect ==
    ASSUME MemoryInv, NEW c \in MemoryCallers, Memory!gc(c)
    PROVE  /\ EntriesEdited
           /\ heap' = [heap EXCEPT ![memoryCallers[c].object] =
                          [f \in Fields |-> Memory!Unexpired(@[f])]]
<1> DEFINE o == memoryCallers[c].object
           entries == [f \in Fields |-> Memory!Unexpired(heap[o][f])]
<1>1. Memory!At(c, "gc") /\ heap' = [heap EXCEPT ![o] = entries]
  BY DEF Memory!gc, Memory!GcKeeps
<1>2. o \in 1..MaxObjects /\ o <= last
  BY <1>1, AtObject
<1>3. heap[o] \in [Fields -> Entry \cup {Missing}]
  BY <1>2 DEF MemoryInv, MemoryTypeOK
<1>4. \A f \in Fields : entries[f] # Missing =>
         heap[o][f] # Missing /\ entries[f].epoch = heap[o][f].epoch
  BY DEF Memory!Unexpired
<1>5. entries \in [Fields -> Entry \cup {Missing}]
  BY <1>3 DEF Memory!Unexpired
<1> HIDE DEF entries
<1>6. EntriesEdited
  BY <1>1, <1>2, <1>4, <1>5, ObjectEdited
<1> QED BY <1>1, <1>6 DEF entries

\* An entry that expires is otherwise as it was.
LEMMA ElapseEffect ==
    ASSUME MemoryInv, NEW o \in 1..MaxObjects, NEW g \in Fields, Memory!Elapse(o, g)
    PROVE  /\ EntriesEdited
           /\ heap[o][g] \in Entry
           /\ heap' = [heap EXCEPT ![o] =
                          [@ EXCEPT ![g] = [heap[o][g] EXCEPT !.expired = TRUE]]]
<1> DEFINE e == [heap[o][g] EXCEPT !.expired = TRUE]
           entries == [heap[o] EXCEPT ![g] = e]
<1>1. heap' = [heap EXCEPT ![o] = entries]
  BY DEF Memory!Elapse
<1>2. heap[o] \in [Fields -> Entry \cup {Missing}] /\ heap[o][g] # Missing
  BY DEF Memory!Elapse, MemoryInv, MemoryTypeOK
<1>3. heap[o][g] \in Entry
  BY <1>2
<1>4. e \in Entry /\ e.epoch = heap[o][g].epoch
  BY <1>3 DEF Entry
<1>5. o <= last
  BY <1>2 DEF MemoryInv, MemoryTypeOK, ObjectsInOrder, Memory!Empty
<1> HIDE DEF e
<1>6. entries \in [Fields -> Entry \cup {Missing}]
  BY <1>2, <1>4
<1>7. \A f \in Fields : entries[f] # Missing =>
         heap[o][f] # Missing /\ entries[f].epoch = heap[o][f].epoch
  BY <1>2, <1>4
<1> HIDE DEF entries
<1>8. EntriesEdited
  BY <1>1, <1>2, <1>4, <1>5, <1>6, <1>7, ObjectEdited
<1> QED BY <1>1, <1>3, <1>8 DEF entries, e

\* A call that begins, or that has just found its object, which is the one in the map.
LEMMA CallMemoryInv ==
    ASSUME MemoryInv, NEW c \in MemoryCallers, NEW call \in MemoryCall,
           memoryCallers' = [memoryCallers EXCEPT ![c] = call],
           call.since <= clears, call.at = "object" => call.object = current',
           calls' \in Nat, UNCHANGED <<heap, clears>>,
           \/ UNCHANGED <<current, last>> /\ (call.at = "object" => current # 0)
           \/ current = 0 /\ last < MaxObjects /\ last' = last + 1 /\ current' = last'
    PROVE  MemoryInv'
<1>0. /\ MemoryTypeOK /\ last \in Nat /\ MaxObjects \in Nat /\ clears \in Nat
      /\ last <= MaxObjects
  BY MemoryBoundsAssumption DEF MemoryInv, MemoryTypeOK
<1>1. MemoryTypeOK'
  BY <1>0 DEF MemoryTypeOK
<1>2. ObjectsInOrder'
  BY <1>0 DEF MemoryInv, ObjectsInOrder, Memory!Empty
<1>3. memoryCallers'[c] = call /\ \A d \in MemoryCallers \ {c} : memoryCallers'[d] = memoryCallers[d]
  BY <1>0 DEF MemoryTypeOK
<1>4. last' >= last /\ last' \in Nat
  BY <1>0
<1>5. call.at = "object" => call.object \in 1..last'
  BY <1>0 DEF MemoryInv, ObjectsInOrder
<1>6. CallsHoldObjects'
  <2> SUFFICES ASSUME NEW d \in MemoryCallers
               PROVE  /\ memoryCallers'[d].at # "idle" => memoryCallers'[d].since <= clears
                      /\ memoryCallers'[d].at = "object" =>
                            /\ memoryCallers'[d].object \in 1..last'
                            /\ memoryCallers'[d].since = clears =>
                                  memoryCallers'[d].object = current'
    BY DEF CallsHoldObjects
  <2>1. CASE d = c
    BY <1>3, <1>5, <2>1
  <2>2. CASE d # c
    BY <1>0, <1>3, <1>4, <2>2 DEF MemoryInv, CallsHoldObjects
  <2> QED BY <2>1, <2>2
<1>7. current' # 0 => \A f \in Fields :
          heap[current'][f] # Missing => heap[current'][f].epoch >= clears
  <2>1. CASE UNCHANGED current
    BY <2>1 DEF MemoryInv, EntriesInEpoch
  <2>2. CASE last < MaxObjects /\ last' = last + 1 /\ current' = last'
    <3>1. last' \in 1..MaxObjects /\ last' > last
      BY <1>0, <2>2
    <3>2. heap[current'] = Memory!Empty
      BY <2>2, <3>1 DEF MemoryInv, ObjectsInOrder
    <3> QED BY <3>2 DEF Memory!Empty
  <2> QED BY <2>1, <2>2
<1>8. current' # 0 => \A f \in Fields :
          heap[current'][f] # Missing => heap[current'][f] \in Entry
  <2>1. current' # 0 => current' \in 1..MaxObjects
    BY <1>0 DEF MemoryInv, ObjectsInOrder
  <2> QED BY <1>0, <2>1 DEF MemoryTypeOK
<1>9. ASSUME NEW d \in MemoryCallers, memoryCallers'[d].at = "object", NEW f \in Fields,
             heap[memoryCallers'[d].object][f] # Missing
      PROVE  heap[memoryCallers'[d].object][f].epoch >= memoryCallers'[d].since
  <2>1. CASE d = c
    <3>1. memoryCallers'[d].object = current' /\ current' # 0
      BY <1>3, <1>5, <1>9, <2>1
    <3>2. heap[current'][f].epoch >= clears /\ heap[current'][f].epoch \in Nat
      BY <1>7, <1>8, <1>9, <3>1 DEF Entry
    <3>3. memoryCallers'[d].since <= clears /\ memoryCallers'[d].since \in Nat
      BY <1>3, <2>1 DEF MemoryCall
    <3> QED BY <1>0, <3>1, <3>2, <3>3
  <2>2. CASE d # c
    BY <1>3, <1>9, <2>2 DEF MemoryInv, EntriesInEpoch
  <2> QED BY <2>1, <2>2
<1>10. EntriesInEpoch'
  BY <1>7, <1>9 DEF EntriesInEpoch
<1> QED BY <1>1, <1>2, <1>6, <1>10 DEF MemoryInv

\* The steps that edit no entries are those that give a call its object, with the number
\* of clears it has seen, and ClearAgent, which starts a new epoch.
LEMMA MemoryInductive ==
    ASSUME MemoryInv, [Memory!Next]_memoryVars
    PROVE  MemoryInv'
<1>0. /\ MemoryTypeOK /\ calls \in Nat /\ clears \in Nat /\ heap \in MemoryEntries
      /\ \A c \in MemoryCallers : memoryCallers[c].at # "idle" => memoryCallers[c] \in MemoryCall
  BY DEF MemoryInv, MemoryTypeOK, MemoryEntries, Idle
<1>1. ASSUME NEW c \in MemoryCallers, NEW op \in Ops, Memory!Call(c, op)
      PROVE  MemoryInv'
  <2>1. PICK f \in Fields, ttl \in BOOLEAN :
           memoryCallers' = [memoryCallers EXCEPT ![c] =
               [at |-> "lookup", op |-> op, field |-> f, ttl |-> ttl,
                id |-> calls + 1, since |-> clears, object |-> 0]]
    BY <1>1 DEF Memory!Call, Memory!Goto
  <2> DEFINE call == [at |-> "lookup", op |-> op, field |-> f, ttl |-> ttl,
                      id |-> calls + 1, since |-> clears, object |-> 0]
  <2>2. call \in MemoryCall /\ call.since <= clears /\ call.at # "object"
    BY <1>0 DEF MemoryCall
  <2>3. memoryCallers' = [memoryCallers EXCEPT ![c] = call]
    BY <2>1
  <2>4. calls' \in Nat /\ UNCHANGED <<heap, current, last, clears>>
    BY <1>0, <1>1 DEF Memory!Call
  <2> HIDE DEF call
  <2> QED BY <2>2, <2>3, <2>4, CallMemoryInv
<1>2. ASSUME NEW c \in MemoryCallers, Memory!Lookup(c)
      PROVE  MemoryInv'
  <2>0. /\ memoryCallers[c] \in MemoryCall /\ memoryCallers[c].since <= clears
        /\ current \in Nat
        /\ UNCHANGED <<heap, current, last, calls, clears>>
    BY <1>0, <1>2 DEF Memory!Lookup, MemoryInv, MemoryTypeOK, CallsHoldObjects
  <2>1. CASE /\ current # 0
             /\ Memory!Goto(c, [memoryCallers[c] EXCEPT !.at = "object", !.object = current])
    <3> DEFINE call == [memoryCallers[c] EXCEPT !.at = "object", !.object = current]
    <3>1. call \in MemoryCall /\ call.since <= clears /\ call.object = current
      BY <2>0 DEF MemoryCall
    <3>2. memoryCallers' = [memoryCallers EXCEPT ![c] = call]
      BY <2>1 DEF Memory!Goto
    <3> HIDE DEF call
    <3> QED BY <1>0, <2>0, <2>1, <3>1, <3>2, CallMemoryInv
  <2>2. CASE Memory!Goto(c, [memoryCallers[c] EXCEPT !.at = "create"])
    <3> DEFINE call == [memoryCallers[c] EXCEPT !.at = "create"]
    <3>1. call \in MemoryCall /\ call.since <= clears /\ call.at # "object"
      BY <2>0 DEF MemoryCall
    <3>2. memoryCallers' = [memoryCallers EXCEPT ![c] = call]
      BY <2>2 DEF Memory!Goto
    <3> HIDE DEF call
    <3> QED BY <1>0, <2>0, <3>1, <3>2, CallMemoryInv
  <2>3. CASE Memory!Goto(c, Memory!Idle)
    <3>1. memoryCallers' = [d \in MemoryCallers |-> IF d \in {c} THEN Idle ELSE memoryCallers[d]]
      BY <1>0, <2>3 DEF Memory!Goto, Memory!Idle, Idle, MemoryTypeOK
    <3>2. CallsEnd
      BY <3>1 DEF CallsEnd
    <3>3. EntriesEdited
      BY <1>0, <2>0 DEF EntriesEdited
    <3> QED BY <1>0, <2>0, <3>2, <3>3, EditMemoryInv
  <2> QED BY <1>2, <2>1, <2>2, <2>3 DEF Memory!Lookup
<1>3. ASSUME NEW c \in MemoryCallers, Memory!Create(c)
      PROVE  MemoryInv'
  <2> DEFINE call == [memoryCallers[c] EXCEPT !.at = "object", !.object = current']
  <2>0. /\ memoryCallers[c] \in MemoryCall /\ memoryCallers[c].since <= clears
        /\ UNCHANGED <<heap, calls, clears>>
    BY <1>0, <1>3 DEF Memory!Create, MemoryInv, CallsHoldObjects
  <2>1. \/ UNCHANGED <<current, last>> /\ current # 0
        \/ current = 0 /\ last < MaxObjects /\ last' = last + 1 /\ current' = last'
    BY <1>3 DEF Memory!Create
  <2>2. current' \in Nat
    BY <1>0, <2>1 DEF MemoryTypeOK
  <2>3. call \in MemoryCall /\ call.since <= clears /\ call.object = current'
    BY <2>0, <2>2 DEF MemoryCall
  <2>4. memoryCallers' = [memoryCallers EXCEPT ![c] = call]
    BY <1>3 DEF Memory!Create, Memory!Goto
  <2> HIDE DEF call
  <2> QED BY <1>0, <2>0, <2>1, <2>3, <2>4, CallMemoryInv
<1>4. ASSUME NEW c \in MemoryCallers, Memory!Set(c) \/ Memory!Delete(c) \/ Memory!gc(c)
      PROVE  MemoryInv'
  <2>1. EntriesEdited
    BY <1>4, SetEffect, DeleteEffect, gcEffect
  <2>2. PICK op : Memory!At(c, op)
    BY <1>4 DEF Memory!Set, Memory!Delete, Memory!gc
  <2> QED BY <1>0, <2>1, <2>2, AtObject, EditMemoryInv
<1>5. ASSUME NEW c \in MemoryCallers, Memory!Get(c)
      PROVE  MemoryInv'
  <2>1. EntriesEdited
    BY <1>0, <1>5 DEF Memory!Get, EntriesEdited
  <2>2. Memory!At(c, "get")
    BY <1>5 DEF Memory!Get
  <2> QED BY <1>0, <2>1, <2>2, AtObject, EditMemoryInv
<1>6. CASE Memory!ClearAgent
  <2>1. MemoryTypeOK'
    BY <1>0, <1>6 DEF Memory!ClearAgent, MemoryTypeOK
  <2>2. ObjectsInOrder' /\ EntriesInEpoch'
    BY <1>6 DEF Memory!ClearAgent, MemoryInv, ObjectsInOrder, EntriesInEpoch, Memory!Empty
  <2>3. CallsHoldObjects'
    <3>1. \A c \in MemoryCallers : memoryCallers[c].at # "idle" =>
             memoryCallers[c].since <= clears + 1 /\ memoryCallers[c].since # clears + 1
      BY <1>0 DEF MemoryInv, CallsHoldObjects, MemoryCall
    <3> QED BY <1>6, <3>1 DEF Memory!ClearAgent, MemoryInv, CallsHoldObjects
  <2> QED BY <2>1, <2>2, <2>3 DEF MemoryInv
<1>7. ASSUME NEW o \in 1..MaxObjects, NEW f \in Fields, Memory!Elapse(o, f)
      PROVE  MemoryInv'
  <2>1. EntriesEdited
    BY <1>7, ElapseEffect
  <2>2. UNCHANGED <<current, last, memoryCallers, calls, clears>>
    BY <1>7 DEF Memory!Elapse
  <2>3. memoryCallers' = [d \in MemoryCallers |-> IF d \in {} THEN Idle ELSE memoryCallers[d]]
    BY <1>0, <2>2 DEF MemoryTypeOK
  <2>4. CallsEnd
    <3>1. {} \in SUBSET MemoryCallers
      OBVIOUS
    <3> QED BY <2>3, <3>1 DEF CallsEnd
  <2> QED BY <1>0, <2>1, <2>2, <2>4, EditMemoryInv
<1>8. CASE UNCHANGED memoryVars
  BY <1>8 DEF memoryVars, MemoryInv, MemoryTypeOK, ObjectsInOrder, CallsHoldObjects,
              EntriesInEpoch, Memory!Empty
<1> QED BY <1>1, <1>2, <1>3, <1>4, <1>5, <1>6, <1>7, <1>8 DEF Memory!Next, Ops

\* While the orchestrator uses Redis, the memory cache stays as it was.
LEMMA MemoryInvariant == StoreSpec => []MemoryInv
<1>1. StoreInit => MemoryInv
  BY MemoryInitial DEF StoreInit
<1>2. MemoryInv /\ [StoreNext]_storeVars => MemoryInv'
  BY MemoryInductive DEF StoreNext, storeVars, memoryVars
<1> QED BY <1>1, <1>2, PTL DEF StoreSpec

-----------------------------------------------------------------------------
(* The theorems about InMemoryCache.                                       *)

\* Whatever the number of goroutines: a call never finds an entry that was there when
\* a ClearAgent took effect before the call began.
THEOREM ClearedStaysGone == StoreSpec => []ClearedIsGone
<1>1. MemoryInv => ClearedIsGone
  BY DEF MemoryInv, EntriesInEpoch, ClearedIsGone, Memory!ClearedIsGone, Memory!Unexpired
<1> QED BY <1>1, MemoryInvariant, PTL

\* Only the Set or Delete of its own goroutine ends a call of that kind.
LEMMA EndsAtObject ==
    ASSUME MemoryInv, Memory!Next, NEW c \in MemoryCallers, NEW f \in Fields,
           NEW op \in {"set", "delete"}, Memory!Ends(c, op, f)
    PROVE  IF op = "set" THEN Memory!Set(c) ELSE Memory!Delete(c)
<1>0. /\ memoryCallers[c].at = "object" /\ memoryCallers[c].op = op
      /\ memoryCallers'[c] # memoryCallers[c]
  BY DEF Memory!Ends
<1>1. memoryCallers \in [MemoryCallers -> MemoryCall \cup {Idle}]
  BY DEF MemoryInv, MemoryTypeOK
<1>2. ASSUME NEW d \in MemoryCallers, NEW o, Memory!Call(d, o) PROVE FALSE
  BY <1>0, <1>1, <1>2 DEF Memory!Call, Memory!Goto
<1>3. ASSUME NEW d \in MemoryCallers, Memory!Lookup(d) \/ Memory!Create(d) PROVE FALSE
  BY <1>0, <1>1, <1>3 DEF Memory!Lookup, Memory!Create, Memory!Goto
<1>4. ASSUME NEW d \in MemoryCallers, NEW o, Memory!At(d, o) PROVE d = c /\ o = op
  BY <1>0, <1>1, <1>4 DEF Memory!At, Memory!Goto
<1>5. ~Memory!ClearAgent /\ \A o \in 1..MaxObjects, g \in Fields : ~Memory!Elapse(o, g)
  BY <1>0 DEF Memory!ClearAgent, Memory!Elapse
<1>6. ASSUME NEW d \in MemoryCallers, Memory!Get(d) \/ Memory!gc(d) PROVE FALSE
  <2>1. Memory!At(d, "get") \/ Memory!At(d, "gc")
    BY <1>6 DEF Memory!Get, Memory!gc
  <2> QED BY <1>4, <2>1
<1>7. ASSUME NEW d \in MemoryCallers, Memory!Set(d) PROVE d = c /\ op = "set"
  BY <1>4, <1>7 DEF Memory!Set
<1>8. ASSUME NEW d \in MemoryCallers, Memory!Delete(d) PROVE d = c /\ op = "delete"
  BY <1>4, <1>8 DEF Memory!Delete
<1>9. PICK d \in MemoryCallers : Memory!Set(d) \/ Memory!Delete(d)
  BY <1>2, <1>3, <1>5, <1>6 DEF Memory!Next
<1> QED BY <1>7, <1>8, <1>9

\* Whatever the number of goroutines: a Set or a Delete that no ClearAgent overlaps is
\* seen by the calls that start after it, also if other goroutines made the agentCache
\* object meanwhile.
THEOREM WritesReachTheMap == StoreSpec => WritesReach
<1> DEFINE Reach ==
      \A c \in MemoryCallers, f \in Fields :
          memoryCallers[c].at # "idle" /\ memoryCallers[c].since = clears =>
              /\ Memory!Ends(c, "set", f) => Memory!Visible(f)' = Memory!NewEntry(c)
              /\ Memory!Ends(c, "delete", f) => Memory!Visible(f)' = Missing
<1>1. MemoryInv /\ [StoreNext]_storeVars => [Reach]_memoryVars
  <2> SUFFICES ASSUME MemoryInv, Memory!Next, NEW c \in MemoryCallers, NEW f \in Fields,
                      memoryCallers[c].since = clears
               PROVE  /\ Memory!Ends(c, "set", f) =>
                            Memory!Visible(f)' = Memory!NewEntry(c)
                      /\ Memory!Ends(c, "delete", f) => Memory!Visible(f)' = Missing
    BY DEF StoreNext, storeVars, memoryVars
  <2>0. heap \in MemoryEntries
    BY DEF MemoryInv, MemoryTypeOK, MemoryEntries
  <2>1. ASSUME NEW op, Memory!At(c, op)
        PROVE  /\ current \in 1..MaxObjects /\ current = memoryCallers[c].object
               /\ UNCHANGED current /\ memoryCallers[c] \in MemoryCall
    <3>1. memoryCallers[c].object = current
      BY <2>1, AtObject DEF MemoryInv, CallsHoldObjects
    <3> QED BY <2>1, <3>1, AtObject
  <2>2. ASSUME Memory!Ends(c, "set", f)
        PROVE  Memory!Visible(f)' = Memory!NewEntry(c)
    <3>1. Memory!Set(c) /\ memoryCallers[c].field = f
      BY <2>2, EndsAtObject DEF Memory!Ends
    <3>2. Memory!At(c, "set")
      BY <3>1 DEF Memory!Set
    <3>3. Memory!NewEntry(c) # Missing /\ ~Memory!NewEntry(c).expired
      BY <2>1, <3>2, NewEntryType, NoEntryIsMissing DEF MemoryInv
    <3>4. heap'[current][f] = Memory!NewEntry(c)
      <4>1. heap' = [heap EXCEPT ![current] = [heap[current] EXCEPT ![f] = Memory!NewEntry(c)]]
        BY <2>1, <3>1, <3>2, SetEffect
      <4>2. heap'[current] = [heap[current] EXCEPT ![f] = Memory!NewEntry(c)]
        BY <2>0, <2>1, <3>2, <4>1 DEF MemoryEntries
      <4>3. heap[current] \in [Fields -> Entry \cup {Missing}]
        BY <2>0, <2>1, <3>2 DEF MemoryEntries
      <4> QED BY <4>2, <4>3
    <3> QED BY <2>1, <3>2, <3>3, <3>4 DEF Memory!Visible, Memory!Unexpired
  <2>3. ASSUME Memory!Ends(c, "delete", f)
        PROVE  Memory!Visible(f)' = Missing
    <3>1. Memory!Delete(c) /\ memoryCallers[c].field = f
      BY <2>3, EndsAtObject DEF Memory!Ends
    <3>2. Memory!At(c, "delete")
      BY <3>1 DEF Memory!Delete
    <3>3. heap'[current][f] = Missing
      <4>1. heap' = [heap EXCEPT ![current] = [heap[current] EXCEPT ![f] = Missing]]
        BY <2>1, <3>1, <3>2, DeleteEffect
      <4>2. heap'[current] = [heap[current] EXCEPT ![f] = Missing]
        BY <2>0, <2>1, <3>2, <4>1 DEF MemoryEntries
      <4>3. heap[current] \in [Fields -> Entry \cup {Missing}]
        BY <2>0, <2>1, <3>2 DEF MemoryEntries
      <4> QED BY <4>2, <4>3
    <3> QED BY <2>1, <3>2, <3>3 DEF Memory!Visible, Memory!Unexpired
  <2> QED BY <2>2, <2>3
<1> QED BY <1>1, MemoryInvariant, PTL
        DEF StoreSpec, WritesReach, Memory!WritesReach, Memory!vars, memoryVars

\* What a call that ends does to the entry of field f that can be seen.
LEMMA VisibleAfter ==
    ASSUME MemoryInv, NEW f \in Fields, Memory!Visible(f) # Missing,
           NEW o \in 1..MaxObjects, NEW entries \in [Fields -> Entry \cup {Missing}],
           heap' = [heap EXCEPT ![o] = entries], UNCHANGED current,
           o = current => entries[f] = heap[current][f]
    PROVE  Memory!Visible(f)' = Memory!Visible(f)
<1>1. heap \in MemoryEntries
  BY DEF MemoryInv, MemoryTypeOK, MemoryEntries
<1>2. current # 0
  BY DEF Memory!Visible
<1>3. current \in 1..MaxObjects
  BY <1>2, MemoryBoundsAssumption DEF MemoryInv, MemoryTypeOK, ObjectsInOrder
<1>4. heap'[current][f] = heap[current][f]
  BY <1>1, <1>3 DEF MemoryEntries
<1> QED BY <1>4 DEF Memory!Visible, Memory!Unexpired

\* Whatever the number of goroutines: neither the collection of expired entries, nor
\* two goroutines that make the agentCache object at the same time, nor a write to
\* another field or to a dropped object loses an entry that can be seen.
THEOREM EntriesStayVisible == StoreSpec => EntriesStay
<1> DEFINE Stays ==
      \A f \in Fields :
          Memory!Visible(f) # Missing /\ Memory!Visible(f)' # Memory!Visible(f) =>
              \/ clears' # clears
              \/ \E c \in MemoryCallers : Memory!Ends(c, "set", f) \/ Memory!Ends(c, "delete", f)
              \/ heap'[current][f] # Missing /\ heap'[current][f].expired
<1>1. MemoryInv /\ [StoreNext]_storeVars => [Stays]_memoryVars
  <2> SUFFICES ASSUME MemoryInv, Memory!Next, NEW f \in Fields,
                      Memory!Visible(f) # Missing, Memory!Visible(f)' # Memory!Visible(f),
                      clears' = clears,
                      ~(heap'[current][f] # Missing /\ heap'[current][f].expired)
               PROVE  \E c \in MemoryCallers :
                          Memory!Ends(c, "set", f) \/ Memory!Ends(c, "delete", f)
    BY DEF StoreNext, storeVars, memoryVars
  <2>0. heap \in MemoryEntries /\ current # 0
    BY DEF MemoryInv, MemoryTypeOK, MemoryEntries, Memory!Visible
  <2>1. heap' # heap \/ current' # current
    BY DEF Memory!Visible
  <2>2. current \in 1..MaxObjects
    BY <2>0, MemoryBoundsAssumption DEF MemoryInv, MemoryTypeOK, ObjectsInOrder
  <2>3. ASSUME NEW c \in MemoryCallers, NEW op, Memory!At(c, op)
        PROVE  /\ memoryCallers[c].object \in 1..MaxObjects /\ UNCHANGED current
               /\ heap[memoryCallers[c].object] \in [Fields -> Entry \cup {Missing}]
               /\ memoryCallers'[c].at = "idle"
    <3>1. memoryCallers \in [MemoryCallers -> MemoryCall \cup {Idle}]
      BY DEF MemoryInv, MemoryTypeOK
    <3> QED BY <2>0, <2>3, <3>1, AtObject DEF MemoryEntries, Idle
  <2>4. ~Memory!ClearAgent
    BY DEF Memory!ClearAgent, MemoryInv, MemoryTypeOK
  <2>5. ASSUME NEW c \in MemoryCallers,
               \/ \E op \in Ops : Memory!Call(c, op)
               \/ Memory!Lookup(c) \/ Memory!Create(c) \/ Memory!Get(c)
        PROVE  FALSE
    BY <2>0, <2>1, <2>5 DEF Memory!Call, Memory!Lookup, Memory!Create, Memory!Get, Memory!At
  <2>6. ASSUME NEW o \in 1..MaxObjects, NEW g \in Fields, Memory!Elapse(o, g)
        PROVE  FALSE
    <3> DEFINE e == [heap[o][g] EXCEPT !.expired = TRUE]
               entries == [heap[o] EXCEPT ![g] = e]
    <3>1. heap[o][g] \in Entry /\ heap' = [heap EXCEPT ![o] = entries]
      BY <2>6, ElapseEffect
    <3>2. heap[o] \in [Fields -> Entry \cup {Missing}]
      BY <2>0 DEF MemoryEntries
    <3>3. e \in Entry /\ e # Missing /\ e.expired
      BY <3>1, NoEntryIsMissing DEF Entry
    <3> HIDE DEF e
    <3>4. entries \in [Fields -> Entry \cup {Missing}] /\ entries[g] = e
          /\ \A h \in Fields \ {g} : entries[h] = heap[o][h]
      BY <3>2, <3>3
    <3> HIDE DEF entries
    <3>5. heap'[o] = entries
      BY <2>0, <3>1 DEF MemoryEntries
    <3>6. o # current \/ g # f
      BY <3>3, <3>4, <3>5
    <3>7. UNCHANGED current
      BY <2>6 DEF Memory!Elapse
    <3>8. o = current => entries[f] = heap[current][f]
      BY <3>4, <3>6
    <3> QED BY <3>1, <3>4, <3>7, <3>8, VisibleAfter
  <2>7. ASSUME NEW c \in MemoryCallers, Memory!gc(c)
        PROVE  FALSE
    <3> DEFINE o == memoryCallers[c].object
               entries == [g \in Fields |-> Memory!Unexpired(heap[o][g])]
    <3>1. heap' = [heap EXCEPT ![o] = entries]
      BY <2>7, gcEffect
    <3>2. Memory!At(c, "gc")
      BY <2>7 DEF Memory!gc
    <3>3. entries \in [Fields -> Entry \cup {Missing}]
      BY <2>3, <3>2 DEF Memory!Unexpired
    <3>4. o = current => entries[f] = heap[current][f]
      BY DEF Memory!Visible, Memory!Unexpired
    <3> HIDE DEF entries
    <3> QED BY <2>3, <3>1, <3>2, <3>3, <3>4, VisibleAfter
  <2>8. ASSUME NEW c \in MemoryCallers, Memory!Set(c)
        PROVE  Memory!Ends(c, "set", f)
    <3> DEFINE o == memoryCallers[c].object
               entries == [heap[o] EXCEPT ![memoryCallers[c].field] = Memory!NewEntry(c)]
    <3>1. heap' = [heap EXCEPT ![o] = entries]
      BY <2>8, SetEffect
    <3>2. Memory!At(c, "set")
      BY <2>8 DEF Memory!Set
    <3>3. Memory!NewEntry(c) \in Entry
      BY <3>2, AtObject, NewEntryType DEF MemoryInv
    <3>4. entries \in [Fields -> Entry \cup {Missing}]
          /\ \A g \in Fields : g # memoryCallers[c].field => entries[g] = heap[o][g]
      BY <2>3, <3>2, <3>3
    <3> HIDE DEF entries
    <3>5. memoryCallers[c].field = f
      BY <2>3, <3>1, <3>2, <3>4, VisibleAfter
    <3> QED BY <2>3, <3>2, <3>5, AtObject DEF Memory!Ends
  <2>9. ASSUME NEW c \in MemoryCallers, Memory!Delete(c)
        PROVE  Memory!Ends(c, "delete", f)
    <3> DEFINE o == memoryCallers[c].object
               entries == [heap[o] EXCEPT ![memoryCallers[c].field] = Missing]
    <3>1. heap' = [heap EXCEPT ![o] = entries]
      BY <2>9, DeleteEffect
    <3>2. Memory!At(c, "delete")
      BY <2>9 DEF Memory!Delete
    <3>3. entries \in [Fields -> Entry \cup {Missing}]
          /\ \A g \in Fields : g # memoryCallers[c].field => entries[g] = heap[o][g]
      BY <2>3, <3>2
    <3> HIDE DEF entries
    <3>4. memoryCallers[c].field = f
      BY <2>3, <3>1, <3>2, <3>3, VisibleAfter
    <3> QED BY <2>3, <3>2, <3>4, AtObject DEF Memory!Ends
  <2> QED BY <2>4, <2>5, <2>6, <2>7, <2>8, <2>9 DEF Memory!Next, Ops
<1> QED BY <1>1, MemoryInvariant, PTL
        DEF StoreSpec, EntriesStay, Memory!EntriesStay, Memory!vars, memoryVars

-----------------------------------------------------------------------------
(* The invariant of RedisCache.                                            *)

String == [value : Values, expiresAt : 0..Never]

SetCall ==
    [at : Sets, field : Fields, value : Values, ttl : Ttls, clean : BOOLEAN]
DeleteCall == [at : {"del", "srem"}, field : Fields]
StartingCall == [at : {"smembers", "clear"}]
ListCall == [at : {"get", "prune"}, field : Fields, todo : SUBSET Fields]
ClearCall == [at : {"wipe"}, fields : SUBSET Fields]

RedisCall == {Idle} \cup SetCall \cup DeleteCall \cup StartingCall \cup ListCall \cup ClearCall

RedisTypeOK ==
    /\ strings \in [Fields -> String \cup {Missing}]
    /\ index \in SUBSET Fields
    /\ indexTtl \in 0..Never
    /\ callers \in [Callers -> RedisCall]
    /\ now \in 0..MaxTime

\* The field is not stored, or nothing is claimed of it.
Excused(f) == f \notin Stored \/ f \in hurt \/ BeingSet(f)

\* The index lives as long as the last Set gave it.
IndexLives == until \in 0..Never /\ until <= indexTtl

\* The index covers the other fields.
IndexCovers == \A f \in Fields : Excused(f) \/ f \in index

\* A clean Set has its field in the index, from SADD to its end.
CleanSetsAdd ==
    \A c \in Callers :
        callers[c].at = "expire" /\ callers[c].clean => callers[c].field \in index

\* No call that may remove its field is at work with a clean Set.
CleanSetsAlone ==
    \A c, d \in Callers :
        callers[c].at \in Sets /\ callers[c].clean => ~Removes(callers[d], callers[c].field)

\* What List and Delete are about to take from the index is excused, and so is what
\* ClearAgent is not going to delete.
RemovalsAreSafe ==
    \A c \in Callers :
        /\ callers[c].at \in {"srem", "prune"} => Excused(callers[c].field)
        /\ callers[c].at = "wipe" => \A f \in Fields \ callers[c].fields : Excused(f)

IndexInv == IndexLives /\ IndexCovers /\ CleanSetsAdd /\ CleanSetsAlone /\ RemovalsAreSafe

-----------------------------------------------------------------------------
(* Types and expiry times.                                                 *)

\* The constants that bound time are numbers, and Never is after all of it.
LEMMA Bounds == MaxTime \in Nat /\ Never \in Nat /\ Never > MaxTime /\ Day \in Nat /\ Day > 0
BY BoundsAssumption, TtlAssumption DEF Never

\* A time that is now plus a ttl is a time or Never.
LEMMA AfterType ==
    ASSUME now \in 0..MaxTime, NEW t \in Int, t > 0
    PROVE  After(t) \in 0..Never
BY Bounds DEF After

\* The fields of a call are those of its kind.
LEMMA CallFields ==
    ASSUME RedisTypeOK, NEW c \in Callers
    PROVE  /\ callers[c].at \in Sets => callers[c] \in SetCall
           /\ callers[c].at \in {"del", "srem"} => callers[c] \in DeleteCall
           /\ callers[c].at \in {"get", "prune"} => callers[c] \in ListCall
           /\ callers[c].at = "wipe" => callers[c] \in ClearCall
<1>1. callers[c] \in RedisCall
  BY DEF RedisTypeOK
<1> QED BY <1>1 DEF RedisCall, Idle, Sets, SetCall, DeleteCall, StartingCall, ListCall, ClearCall

\* Nothing is stored at the start.
LEMMA RedisTypeInit == Init => RedisTypeOK
BY Bounds DEF Init, RedisTypeOK, RedisCall

\* A call that moves on stays a call.
LEMMA GotoType ==
    ASSUME RedisTypeOK, NEW c \in Callers, NEW call \in RedisCall, Goto(c, call)
    PROVE  callers' \in [Callers -> RedisCall]
BY DEF RedisTypeOK, Goto

\* List goes on to a field or ends.
LEMMA NextFieldType ==
    ASSUME RedisTypeOK, NEW c \in Callers, NEW todo \in SUBSET Fields, NextField(c, todo)
    PROVE  callers' \in [Callers -> RedisCall]
<1>1. CASE todo = {}
  BY <1>1, GotoType DEF NextField, RedisCall
<1>2. CASE todo # {}
  <2>1. PICK f \in todo : Goto(c, [at |-> "get", field |-> f, todo |-> todo \ {f}])
    BY <1>2 DEF NextField
  <2>2. [at |-> "get", field |-> f, todo |-> todo \ {f}] \in RedisCall
    BY DEF RedisCall, ListCall
  <2> QED BY <2>1, <2>2, GotoType
<1> QED BY <1>1, <1>2

\* So does a Set that another call overlaps.
LEMMA OverlappedType ==
    ASSUME NEW s \in RedisCall, NEW call
    PROVE  Overlapped(s, call) \in RedisCall
<1>1. CASE s.at \in Sets
  <2>1. s \in SetCall
    BY <1>1 DEF RedisCall, Idle, Sets, SetCall, DeleteCall, StartingCall, ListCall, ClearCall
  <2>2. [s EXCEPT !.clean = FALSE] \in SetCall
    BY <2>1 DEF SetCall
  <2> QED BY <2>2 DEF Overlapped, RedisCall
<1> QED BY <1>1 DEF Overlapped

\* What a command makes of the index is an index with an expiry.
LEMMA SetIndexType ==
    ASSUME RedisTypeOK, NEW fields \in SUBSET Fields, SetIndex(fields)
    PROVE  index' \in SUBSET Fields /\ indexTtl' \in 0..Never
BY Bounds DEF RedisTypeOK, SetIndex

\* Each command finds, in the call that sends it, what it needs.
LEMMA RedisTypeInductive ==
    ASSUME RedisTypeOK, [Next]_vars
    PROVE  RedisTypeOK'
<1>0. /\ index \in SUBSET Fields /\ now \in 0..MaxTime
      /\ strings \in [Fields -> String \cup {Missing}]
  BY DEF RedisTypeOK
<1>1. ASSUME NEW c \in Callers, NEW call \in RedisCall, Enter(c, call)
      PROVE  RedisTypeOK'
  <2>1. callers' \in [Callers -> RedisCall]
    BY <1>1, OverlappedType DEF Enter, RedisTypeOK
  <2> QED BY <1>1, <2>1 DEF Enter, KeepIndex, RedisTypeOK
<1>2. ASSUME NEW c \in Callers, CallSet(c) \/ CallDelete(c) \/ CallList(c) \/ CallClear(c)
      PROVE  RedisTypeOK'
  <2>1. \A f \in Fields, v \in Values, ttl \in Ttls, clean \in BOOLEAN :
           [at |-> "set", field |-> f, value |-> v, ttl |-> ttl, clean |-> clean] \in RedisCall
    BY DEF RedisCall, SetCall, Sets
  <2>2. \A f \in Fields : [at |-> "del", field |-> f] \in RedisCall
    BY DEF RedisCall, DeleteCall
  <2>3. [at |-> "smembers"] \in RedisCall /\ [at |-> "clear"] \in RedisCall
    BY DEF RedisCall, StartingCall
  <2>4. \A f : (~\E d \in Callers : Removes(callers[d], f)) \in BOOLEAN
    OBVIOUS
  <2> QED BY <1>1, <1>2, <2>1, <2>2, <2>3, <2>4 DEF CallSet, CallDelete, CallList, CallClear
<1>3. ASSUME NEW c \in Callers, Set(c)
      PROVE  RedisTypeOK'
  <2> DEFINE s == callers[c]
             e == [value |-> s.value,
                   expiresAt |-> IF s.ttl > 0 THEN After(s.ttl) ELSE Never]
  <2>1. s \in SetCall
    BY <1>3, CallFields DEF Set, Sets
  <2>2. [s EXCEPT !.at = "sadd"] \in RedisCall
    BY <2>1 DEF RedisCall, SetCall, Sets
  <2>3. callers' \in [Callers -> RedisCall]
    BY <1>3, <2>2, GotoType DEF Set
  <2>4. s.ttl \in Int /\ s.field \in Fields /\ s.value \in Values
    BY <2>1, TtlAssumption DEF SetCall
  <2>5. e \in String
    BY <1>0, <2>4, AfterType, Bounds DEF String
  <2>6. strings' = [strings EXCEPT ![s.field] = e]
    BY <1>3 DEF Set
  <2> HIDE DEF e
  <2>7. strings' \in [Fields -> String \cup {Missing}]
    BY <1>0, <2>5, <2>6
  <2> QED BY <1>3, <2>3, <2>7 DEF Set, KeepIndex, RedisTypeOK
<1>4. ASSUME NEW c \in Callers, SAdd(c)
      PROVE  RedisTypeOK'
  <2>1. callers[c] \in SetCall
    BY <1>4, CallFields DEF SAdd, Sets
  <2>2. [callers[c] EXCEPT !.at = "expire"] \in RedisCall /\ callers[c].field \in Fields
    BY <2>1 DEF RedisCall, SetCall, Sets
  <2>3. callers' \in [Callers -> RedisCall]
    BY <1>4, <2>2, GotoType DEF SAdd
  <2>4. index' \in SUBSET Fields /\ indexTtl' \in 0..Never
    BY <1>0, <1>4, <2>2, SetIndexType DEF SAdd
  <2> QED BY <1>4, <2>3, <2>4 DEF SAdd, RedisTypeOK
<1>5. ASSUME NEW c \in Callers, Expire(c)
      PROVE  RedisTypeOK'
  <2>1. callers[c].ttl \in Int
    BY <1>5, CallFields, TtlAssumption DEF Expire, Sets, SetCall
  <2>2. IndexExpiry(callers[c].ttl) \in 0..Never
    BY <1>0, <2>1, AfterType, Bounds DEF IndexExpiry
  <2>3. callers' \in [Callers -> RedisCall]
    BY <1>5, GotoType DEF Expire, RedisCall
  <2> QED BY <1>5, <2>2, <2>3, Bounds DEF Expire, RedisTypeOK
<1>6. ASSUME NEW c \in Callers, Del(c)
      PROVE  RedisTypeOK'
  <2>1. callers[c] \in DeleteCall
    BY <1>6, CallFields DEF Del
  <2>2. [callers[c] EXCEPT !.at = "srem"] \in RedisCall
    BY <2>1 DEF RedisCall, DeleteCall
  <2>3. callers' \in [Callers -> RedisCall]
    BY <1>6, <2>2, GotoType DEF Del
  <2> QED BY <1>6, <2>3 DEF Del, KeepIndex, RedisTypeOK
<1>7. ASSUME NEW c \in Callers, SRem(c)
      PROVE  RedisTypeOK'
  <2>1. callers' \in [Callers -> RedisCall]
    BY <1>7, GotoType DEF SRem, RedisCall
  <2>2. index' \in SUBSET Fields /\ indexTtl' \in 0..Never
    BY <1>0, <1>7, SetIndexType DEF SRem
  <2> QED BY <1>7, <2>1, <2>2 DEF SRem, RedisTypeOK
<1>8. ASSUME NEW c \in Callers, SMembers(c)
      PROVE  RedisTypeOK'
  <2>1. callers' \in [Callers -> RedisCall]
    BY <1>0, <1>8, NextFieldType DEF SMembers
  <2> QED BY <1>8, <2>1 DEF SMembers, KeepIndex, RedisTypeOK
<1>9. ASSUME NEW c \in Callers, Get(c) \/ Prune(c)
      PROVE  RedisTypeOK'
  <2>1. callers[c] \in ListCall
    BY <1>9, CallFields DEF Get, Prune
  <2>2. callers[c].todo \in SUBSET Fields
    BY <2>1 DEF ListCall
  <2>3. [callers[c] EXCEPT !.at = "prune"] \in RedisCall
    BY <2>1 DEF RedisCall, ListCall
  <2>4. callers' \in [Callers -> RedisCall]
    BY <1>9, <2>2, <2>3, NextFieldType, GotoType DEF Get, Prune
  <2>5. index' \in SUBSET Fields /\ indexTtl' \in 0..Never
    BY <1>0, <1>9, SetIndexType DEF Get, Prune, KeepIndex, RedisTypeOK
  <2> QED BY <1>9, <2>4, <2>5 DEF Get, Prune, RedisTypeOK
<1>10. ASSUME NEW c \in Callers, ClearAgent(c)
       PROVE  RedisTypeOK'
  <2>1. [at |-> "wipe", fields |-> index] \in RedisCall
    BY <1>0 DEF RedisCall, ClearCall
  <2>2. callers' \in [Callers -> RedisCall]
    BY <1>10, <2>1, GotoType DEF ClearAgent
  <2> QED BY <1>10, <2>2 DEF ClearAgent, KeepIndex, RedisTypeOK
<1>11. ASSUME NEW c \in Callers, Wipe(c)
       PROVE  RedisTypeOK'
  <2>1. callers' \in [Callers -> RedisCall]
    BY <1>11, GotoType DEF Wipe, RedisCall
  <2>2. index' \in SUBSET Fields /\ indexTtl' \in 0..Never
    BY <1>11, SetIndexType DEF Wipe
  <2> QED BY <1>11, <2>1, <2>2 DEF Wipe, RedisTypeOK
<1>12. ASSUME NEW c \in Callers, Break(c)
       PROVE  RedisTypeOK'
  <2>1. callers[c].at \in {"get", "prune"} =>
            /\ callers[c].todo \in SUBSET Fields
            /\ [callers[c] EXCEPT !.at = "prune"] \in RedisCall
    BY CallFields DEF RedisCall, ListCall
  <2>2. callers' \in [Callers -> RedisCall]
    BY <1>12, <2>1, NextFieldType, GotoType DEF Break, RedisCall
  <2> QED BY <1>12, <2>2 DEF Break, KeepIndex, RedisTypeOK
<1>13. CASE Tick
  <2>1. index' \in SUBSET Fields /\ indexTtl' \in 0..Never
    BY <1>13, SetIndexType DEF Tick, KeepIndex, RedisTypeOK
  <2>2. now' \in 0..MaxTime
    BY <1>0, <1>13, Bounds DEF Tick
  <2>3. callers' \in [Callers -> RedisCall]
    <3>1. \A c \in Callers : callers[c].at = "expire" =>
              [callers[c] EXCEPT !.clean = FALSE] \in RedisCall
      BY CallFields DEF RedisCall, Sets, SetCall
    <3> QED BY <1>13, <3>1 DEF Tick, RedisTypeOK
  <2> QED BY <1>13, <2>1, <2>2, <2>3 DEF Tick, RedisTypeOK
<1>14. CASE UNCHANGED vars
  BY <1>14 DEF vars, RedisTypeOK
<1> QED BY <1>2, <1>3, <1>4, <1>5, <1>6, <1>7, <1>8, <1>9, <1>10, <1>11, <1>12, <1>13, <1>14
        DEF Next

-----------------------------------------------------------------------------
(* IndexInv is inductive.                                                  *)

\* The call of one goroutine moves on, and the others stay where they are.
LEMMA GotoEffect ==
    ASSUME RedisTypeOK, NEW c \in Callers, NEW call, Goto(c, call)
    PROVE  callers'[c] = call /\ \A d \in Callers \ {c} : callers'[d] = callers[d]
BY DEF RedisTypeOK, Goto

\* Where a List goes next is neither a Set nor about to remove anything.
LEMMA NextFieldEffect ==
    ASSUME RedisTypeOK, NEW c \in Callers, NEW todo, NextField(c, todo)
    PROVE  /\ callers'[c].at \in {"idle", "get"}
           /\ \A d \in Callers \ {c} : callers'[d] = callers[d]
<1>1. CASE todo = {}
  BY <1>1, GotoEffect DEF NextField, Idle
<1>2. CASE todo # {}
  <2>1. PICK f \in todo : Goto(c, [at |-> "get", field |-> f, todo |-> todo \ {f}])
    BY <1>2 DEF NextField
  <2> QED BY <2>1, GotoEffect
<1> QED BY <1>1, <1>2

\* A field that is excused, or that is in the index and that no call is about to remove.
Safe(f) == Excused(f) \/ (f \in index /\ \A d \in Callers : ~Removes(callers[d], f))

\* What a step of one call has to keep.
LEMMA MovesOn ==
    ASSUME RedisTypeOK, IndexInv, NEW c \in Callers,
           \A d \in Callers \ {c} : callers'[d] = callers[d],
           IndexLives',
           \A f \in Fields : Excused(f) => Safe(f)',
           \A f \in Fields : f \in index => f \in index' \/ Excused(f)',
           \A d \in Callers \ {c} :
              callers[d].at = "expire" /\ callers[d].clean => callers[d].field \in index',
           callers'[c].at = "expire" /\ callers'[c].clean => callers'[c].field \in index',
           callers'[c].at \in Sets =>
              callers[c].at \in Sets /\ callers'[c].clean = callers[c].clean
                                     /\ callers'[c].field = callers[c].field,
           \A f \in Fields : Removes(callers'[c], f) => Removes(callers[c], f),
           callers'[c].at \in {"srem", "prune"} => Excused(callers[c].field)',
           callers'[c].at = "wipe" => \A f \in Fields \ callers'[c].fields : Excused(f)'
    PROVE  IndexInv'
<1>1. IndexCovers'
  BY DEF IndexInv, IndexCovers, Safe
<1>2. CleanSetsAdd'
  BY DEF CleanSetsAdd
<1>3. CleanSetsAlone'
  <2> SUFFICES ASSUME NEW a \in Callers, NEW d \in Callers,
                      callers'[a].at \in Sets, callers'[a].clean
               PROVE  ~Removes(callers'[d], callers'[a].field)
    BY DEF CleanSetsAlone, Removes, Sets
  <2>1. callers[a].at \in Sets /\ callers[a].clean /\ callers'[a].field = callers[a].field
    OBVIOUS
  <2>2. callers[a].field \in Fields
    BY <2>1, CallFields DEF SetCall
  <2>3. ~Removes(callers[d], callers[a].field)
    BY <2>1 DEF IndexInv, CleanSetsAlone
  <2> QED BY <2>1, <2>2, <2>3
<1>4. RemovalsAreSafe'
  <2>1. ASSUME NEW d \in Callers \ {c}, callers[d].at \in {"srem", "prune"}
        PROVE  Excused(callers[d].field)'
    <3>1. callers[d].field \in Fields
      BY <2>1, CallFields DEF DeleteCall, ListCall
    <3>2. Excused(callers[d].field)
      BY <2>1 DEF IndexInv, RemovalsAreSafe
    <3>3. Removes(callers'[d], callers[d].field)
      BY <2>1 DEF Removes
    <3>4. Safe(callers[d].field)'
      BY <3>1, <3>2
    <3> QED BY <3>3, <3>4 DEF Safe, Removes
  <2>2. ASSUME NEW d \in Callers \ {c}, callers[d].at = "wipe",
               NEW f \in Fields \ callers[d].fields
        PROVE  Excused(f)'
    <3>1. Excused(f)
      BY <2>2 DEF IndexInv, RemovalsAreSafe
    <3>2. Removes(callers'[d], f)
      BY <2>2 DEF Removes
    <3> QED BY <3>1, <3>2 DEF Safe, Removes
  <2> QED BY <2>1, <2>2 DEF RemovalsAreSafe
<1> QED BY <1>1, <1>2, <1>3, <1>4 DEF IndexInv

\* A field stays excused unless it is stored, taken from hurt, or no longer being set.
LEMMA StaysExcused ==
    ASSUME NEW c \in Callers, NEW f \in Fields, Excused(f),
           \A d \in Callers \ {c} : callers'[d] = callers[d],
           f \in Stored' => f \in Stored,
           hurt \subseteq hurt',
           callers[c].at \in {"sadd", "expire"} /\ callers[c].field = f =>
              \/ f \in hurt'
              \/ callers'[c].at \in {"sadd", "expire"} /\ callers'[c].field = f
    PROVE  Excused(f)'
<1>1. CASE BeingSet(f)
  <2>1. PICK d \in Callers : callers[d].at \in {"sadd", "expire"} /\ callers[d].field = f
    BY <1>1 DEF BeingSet
  <2> QED BY <2>1 DEF Excused, BeingSet
<1> QED BY <1>1 DEF Excused

\* Commands on the index give it no less time than it had.
LEMMA IndexLivesOn ==
    ASSUME RedisTypeOK, IndexLives, until' = until,
           KeepIndex \/ \E fields : SetIndex(fields)
    PROVE  IndexLives'
BY Bounds DEF RedisTypeOK, IndexLives, KeepIndex, SetIndex, Never

\* SET stores a field that is being set from then on.
LEMMA SetIndexInv ==
    ASSUME RedisTypeOK, IndexInv, NEW c \in Callers, Set(c)
    PROVE  IndexInv'
<1> DEFINE f == callers[c].field
<1>1. callers[c].at = "set" /\ callers[c] \in SetCall
  BY CallFields DEF Set, Sets
<1>2. /\ callers'[c] = [callers[c] EXCEPT !.at = "sadd"]
      /\ \A d \in Callers \ {c} : callers'[d] = callers[d]
  BY GotoEffect DEF Set
<1>3. callers'[c].at = "sadd" /\ callers'[c].field = f /\ callers'[c].clean = callers[c].clean
  BY <1>1, <1>2 DEF SetCall
<1>4. /\ UNCHANGED <<index, indexTtl, until, hurt>>
      /\ \A g \in Fields \ {f} : strings'[g] = strings[g]
  BY DEF Set, KeepIndex, RedisTypeOK
<1>5. IndexLives'
  BY <1>4, IndexLivesOn DEF IndexInv, KeepIndex
<1>6. ASSUME NEW g \in Fields, Excused(g) PROVE Excused(g)'
  <2>1. CASE g = f
    BY <1>3, <2>1 DEF Excused, BeingSet
  <2>2. CASE g # f
    BY <1>1, <1>2, <1>4, <1>6, <2>2, StaysExcused DEF Stored
  <2> QED BY <2>1, <2>2
<1> QED BY <1>1, <1>2, <1>3, <1>4, <1>5, <1>6, MovesOn
        DEF Safe, Sets, Removes, IndexInv, CleanSetsAdd

\* SADD puts the field into the index.
LEMMA SAddIndexInv ==
    ASSUME RedisTypeOK, IndexInv, NEW c \in Callers, SAdd(c)
    PROVE  IndexInv'
<1> DEFINE f == callers[c].field
<1>1. callers[c].at = "sadd" /\ callers[c] \in SetCall
  BY CallFields DEF SAdd, Sets
<1>2. /\ callers'[c] = [callers[c] EXCEPT !.at = "expire"]
      /\ \A d \in Callers \ {c} : callers'[d] = callers[d]
  BY GotoEffect DEF SAdd
<1>3. callers'[c].at = "expire" /\ callers'[c].field = f /\ callers'[c].clean = callers[c].clean
  BY <1>1, <1>2 DEF SetCall
<1>4. UNCHANGED <<strings, until, hurt>> /\ index' = index \cup {f}
  BY DEF SAdd, SetIndex
<1>5. IndexLives'
  BY <1>4, IndexLivesOn DEF IndexInv, SAdd
<1>6. ASSUME NEW g \in Fields, Excused(g) PROVE Excused(g)'
  BY <1>1, <1>2, <1>3, <1>4, <1>6, StaysExcused DEF Stored
<1> QED BY <1>1, <1>2, <1>3, <1>4, <1>5, <1>6, MovesOn
        DEF Safe, Sets, Removes, IndexInv, CleanSetsAdd

\* EXPIRE ends a Set: its field is in the index, or counted among the hurt ones.
LEMMA ExpireIndexInv ==
    ASSUME RedisTypeOK, IndexInv, NEW c \in Callers, Expire(c)
    PROVE  IndexInv'
<1> DEFINE f == callers[c].field
<1>1. callers[c].at = "expire" /\ callers[c] \in SetCall /\ f \in Fields
  BY CallFields DEF Expire, Sets, SetCall
<1>2. callers'[c] = Idle /\ \A d \in Callers \ {c} : callers'[d] = callers[d]
  BY GotoEffect DEF Expire
<1>3. callers'[c].at = "idle"
  BY <1>2 DEF Idle
<1>4. /\ UNCHANGED <<strings, index>>
      /\ hurt' = IF callers[c].clean THEN hurt \ {f} ELSE hurt \cup {f}
  BY DEF Expire
<1>5. IndexLives'
  <2>1. callers[c].ttl \in Int
    BY <1>1, TtlAssumption DEF SetCall
  <2>2. until' = IndexExpiry(callers[c].ttl)
    BY DEF Expire, IndexExpiry
  <2>3. IndexExpiry(callers[c].ttl) \in 0..Never
    BY <2>1, AfterType, Bounds DEF IndexExpiry, RedisTypeOK
  <2>4. indexTtl' \in {Never, IndexExpiry(callers[c].ttl)} /\ Never' = Never
    BY DEF Expire, Never
  <2> HIDE DEF f
  <2> QED BY <2>2, <2>3, <2>4, Bounds DEF IndexLives
<1>6. ASSUME NEW g \in Fields, Excused(g) PROVE Safe(g)'
  <2>1. CASE callers[c].clean /\ g = f
    <3>1. g \in index'
      BY <1>1, <1>4, <2>1 DEF IndexInv, CleanSetsAdd
    <3>2. ASSUME NEW d \in Callers PROVE ~Removes(callers'[d], g)
      BY <1>1, <1>2, <1>3, <2>1 DEF IndexInv, CleanSetsAlone, Removes, Sets
    <3> QED BY <3>1, <3>2 DEF Safe, Removes
  <2>2. CASE ~callers[c].clean
    <3>1. Excused(g)'
      BY <1>1, <1>2, <1>4, <1>6, <2>2, StaysExcused DEF Stored
    <3> QED BY <3>1 DEF Safe
  <2>3. CASE callers[c].clean /\ g # f
    <3>1. CASE BeingSet(g)
      <4>1. PICK d \in Callers : callers[d].at \in {"sadd", "expire"} /\ callers[d].field = g
        BY <3>1 DEF BeingSet
      <4>2. callers'[d] = callers[d]
        BY <1>2, <2>3, <4>1
      <4> QED BY <4>1, <4>2 DEF Safe, Excused, BeingSet
    <3>2. CASE ~BeingSet(g)
      BY <1>4, <1>6, <2>3, <3>2 DEF Safe, Excused, Stored
    <3> QED BY <3>1, <3>2
  <2> QED BY <2>1, <2>2, <2>3
<1> QED BY <1>1, <1>2, <1>3, <1>4, <1>5, <1>6, MovesOn
        DEF Sets, Removes, IndexInv, CleanSetsAdd

\* DEL leaves nothing of the field that SREM then takes from the index.
LEMMA DelIndexInv ==
    ASSUME RedisTypeOK, IndexInv, NEW c \in Callers, Del(c)
    PROVE  IndexInv'
<1> DEFINE f == callers[c].field
<1>1. callers[c].at = "del" /\ callers[c] \in DeleteCall /\ f \in Fields
  BY CallFields DEF Del, DeleteCall
<1>2. /\ callers'[c] = [callers[c] EXCEPT !.at = "srem"]
      /\ \A d \in Callers \ {c} : callers'[d] = callers[d]
  BY GotoEffect DEF Del
<1>3. callers'[c].at = "srem" /\ callers'[c].field = f
  BY <1>1, <1>2 DEF DeleteCall
<1>4. /\ UNCHANGED <<index, indexTtl, until, hurt>>
      /\ strings' = [strings EXCEPT ![f] = Missing]
  BY DEF Del, KeepIndex
<1>5. IndexLives'
  BY <1>4, IndexLivesOn DEF IndexInv, KeepIndex
<1>6. ASSUME NEW g \in Fields, Excused(g) PROVE Excused(g)'
  BY <1>1, <1>2, <1>4, <1>6, StaysExcused DEF Stored, RedisTypeOK
<1>7. Excused(callers[c].field)'
  BY <1>1, <1>3, <1>4 DEF Excused, Stored, RedisTypeOK
<1>8. \A g \in Fields : Removes(callers'[c], g) => Removes(callers[c], g)
  BY <1>1, <1>3 DEF Removes
<1> QED BY <1>1, <1>2, <1>3, <1>4, <1>5, <1>6, <1>7, <1>8, MovesOn
        DEF Safe, Sets, IndexInv, CleanSetsAdd

\* What SREM takes from the index is excused, and no clean Set has just added it.
LEMMA RemoveIndexInv ==
    ASSUME RedisTypeOK, IndexInv, NEW c \in Callers, SRem(c) \/ Prune(c)
    PROVE  IndexInv'
<1> DEFINE f == callers[c].field
<1>1. callers[c].at \in {"srem", "prune"} /\ f \in Fields /\ Excused(f)
  BY CallFields DEF SRem, Prune, IndexInv, RemovalsAreSafe, DeleteCall, ListCall
<1>2. /\ callers'[c].at \in {"idle", "get"}
      /\ \A d \in Callers \ {c} : callers'[d] = callers[d]
  <2>1. CASE SRem(c)
    BY <2>1, GotoEffect DEF SRem, Idle
  <2>2. CASE Prune(c)
    BY <2>2, NextFieldEffect DEF Prune
  <2> QED BY <2>1, <2>2
<1>3. UNCHANGED <<strings, until, hurt>> /\ SetIndex(index \ {f})
  BY DEF SRem, Prune
<1>4. index' = index \ {f}
  BY <1>3 DEF SetIndex
<1>5. IndexLives'
  BY <1>3, IndexLivesOn DEF IndexInv
<1>6. ASSUME NEW g \in Fields, Excused(g) PROVE Excused(g)'
  BY <1>1, <1>2, <1>3, <1>6, StaysExcused DEF Stored
<1>7. ASSUME NEW d \in Callers \ {c}, callers[d].at = "expire", callers[d].clean
      PROVE  callers[d].field \in index'
  <2>1. callers[d].field \in index /\ ~Removes(callers[c], callers[d].field)
    BY <1>7 DEF IndexInv, CleanSetsAdd, CleanSetsAlone, Sets
  <2> QED BY <1>1, <1>4, <2>1 DEF Removes
<1>8. \A g \in Fields : Removes(callers'[c], g) => Removes(callers[c], g)
  <2>1. CASE SRem(c)
    BY <2>1, <1>2, GotoEffect DEF SRem, Idle, Removes
  <2>2. CASE Prune(c)
    BY <2>2 DEF Prune, Removes
  <2> QED BY <2>1, <2>2
<1> QED BY <1>1, <1>2, <1>4, <1>5, <1>6, <1>7, <1>8, MovesOn DEF Safe, Sets

\* What ClearAgent does not delete with the index is excused.
LEMMA WipeIndexInv ==
    ASSUME RedisTypeOK, IndexInv, NEW c \in Callers, Wipe(c)
    PROVE  IndexInv'
<1>1. callers[c].at = "wipe" /\ \A f \in Fields \ callers[c].fields : Excused(f)
  BY DEF Wipe, IndexInv, RemovalsAreSafe
<1>2. callers'[c].at = "idle" /\ \A d \in Callers \ {c} : callers'[d] = callers[d]
  BY GotoEffect DEF Wipe, Idle
<1>3. /\ UNCHANGED <<until, hurt>> /\ SetIndex({})
      /\ \A f \in Fields : strings'[f] = IF f \in callers[c].fields THEN Missing ELSE strings[f]
  BY DEF Wipe
<1>4. IndexLives'
  BY <1>3, IndexLivesOn DEF IndexInv
<1>5. ASSUME NEW g \in Fields, Excused(g) PROVE Excused(g)'
  BY <1>1, <1>2, <1>3, <1>5, StaysExcused DEF Stored
<1>6. ASSUME NEW g \in Fields PROVE Excused(g)'
  <2>1. CASE g \in callers[c].fields
    BY <1>3, <2>1 DEF Excused, Stored
  <2> QED BY <1>1, <1>5, <2>1
<1>7. ASSUME NEW d \in Callers, callers[d].at = "expire", callers[d].clean
      PROVE  FALSE
  BY <1>1, <1>7 DEF IndexInv, CleanSetsAlone, Removes, Sets
<1> QED BY <1>1, <1>2, <1>4, <1>6, <1>7, MovesOn DEF Safe, Sets, Removes

\* SMEMBERS, GET and a connection that breaks write nothing.
LEMMA ReadIndexInv ==
    ASSUME RedisTypeOK, IndexInv, NEW c \in Callers,
           SMembers(c) \/ Get(c) \/ ClearAgent(c) \/ Break(c)
    PROVE  IndexInv'
<1>1. UNCHANGED <<strings, index, indexTtl, until>> /\ hurt \subseteq hurt'
  BY DEF SMembers, Get, ClearAgent, Break, KeepIndex
<1>2. IndexLives'
  BY <1>1, IndexLivesOn DEF IndexInv, KeepIndex
<1>3. ASSUME \A d \in Callers \ {c} : callers'[d] = callers[d],
             callers'[c].at \notin Sets,
             callers[c].at = "sadd" => callers[c].field \in hurt',
             callers[c].at = "expire" => callers[c].clean \/ callers[c].field \in hurt',
             \A f \in Fields : Removes(callers'[c], f) => Removes(callers[c], f),
             callers'[c].at \in {"srem", "prune"} => Excused(callers[c].field)',
             callers'[c].at = "wipe" => \A f \in Fields \ callers'[c].fields : Excused(f)'
      PROVE  IndexInv'
  <2>1. ASSUME NEW g \in Fields, Excused(g) PROVE Safe(g)'
    <3>1. CASE callers[c].at = "expire" /\ callers[c].clean /\ callers[c].field = g
      <4>1. g \in index'
        BY <1>1, <3>1 DEF IndexInv, CleanSetsAdd
      <4>2. ASSUME NEW d \in Callers PROVE ~Removes(callers'[d], g)
        <5>1. ~Removes(callers[d], g)
          BY <3>1 DEF IndexInv, CleanSetsAlone, Sets
        <5> QED BY <1>3, <2>1, <5>1
      <4> QED BY <4>1, <4>2 DEF Safe, Removes
    <3>2. CASE ~(callers[c].at = "expire" /\ callers[c].clean /\ callers[c].field = g)
      <4>1. Excused(g)'
        BY <1>1, <1>3, <2>1, <3>2, StaysExcused DEF Stored
      <4> QED BY <4>1 DEF Safe
    <3> QED BY <3>1, <3>2
  <2> QED BY <1>1, <1>2, <1>3, <2>1, MovesOn DEF Sets, IndexInv, CleanSetsAdd
<1>4. ASSUME NEW g \in Fields, Excused(g),
             callers[c].at \notin {"sadd", "expire"},
             \A d \in Callers \ {c} : callers'[d] = callers[d]
      PROVE  Excused(g)'
  BY <1>1, <1>4, StaysExcused DEF Stored
<1>5. CASE SMembers(c)
  <2>1. /\ callers[c].at = "smembers" /\ callers'[c].at \in {"idle", "get"}
        /\ \A d \in Callers \ {c} : callers'[d] = callers[d]
    BY <1>5, NextFieldEffect DEF SMembers
  <2> QED BY <1>3, <2>1 DEF Sets, Removes
<1>6. CASE Get(c)
  <2>0. callers[c].at = "get" /\ callers[c] \in ListCall /\ callers[c].field \in Fields
    BY <1>6, CallFields DEF Get, ListCall
  <2>1. CASE strings[callers[c].field] = Missing
    <3>1. /\ callers'[c] = [callers[c] EXCEPT !.at = "prune"]
          /\ \A d \in Callers \ {c} : callers'[d] = callers[d]
      BY <1>6, <2>1, GotoEffect DEF Get
    <3>2. callers'[c].at = "prune" /\ callers'[c].field = callers[c].field
      BY <2>0, <3>1 DEF ListCall
    <3>3. Excused(callers[c].field)'
      BY <1>1, <2>1, <3>2 DEF Excused, Stored
    <3> QED BY <1>3, <2>0, <3>1, <3>2, <3>3 DEF Sets, Removes
  <2>2. CASE strings[callers[c].field] # Missing
    <3>1. /\ callers'[c].at \in {"idle", "get"}
          /\ \A d \in Callers \ {c} : callers'[d] = callers[d]
      BY <1>6, <2>2, NextFieldEffect DEF Get
    <3> QED BY <1>3, <2>0, <3>1 DEF Sets, Removes
  <2> QED BY <2>1, <2>2
<1>7. CASE ClearAgent(c)
  <2>1. /\ callers[c].at = "clear" /\ callers'[c] = [at |-> "wipe", fields |-> index]
        /\ \A d \in Callers \ {c} : callers'[d] = callers[d]
    BY <1>7, GotoEffect DEF ClearAgent
  <2>2. ASSUME NEW f \in Fields \ index PROVE Excused(f)'
    <3>1. Excused(f)
      BY DEF IndexInv, IndexCovers
    <3> QED BY <1>4, <2>1, <3>1
  <2>3. callers'[c].at = "wipe" /\ callers'[c].fields = index
    BY <2>1
  <2> QED BY <1>3, <2>1, <2>2, <2>3 DEF Sets, Removes
<1>8. CASE Break(c)
  <2>1. /\ callers[c].at \in {"sadd", "get"} => callers[c].field \in hurt'
        /\ callers[c].at = "expire" => callers[c].clean \/ callers[c].field \in hurt'
        /\ callers[c].at # "idle"
    BY <1>8 DEF Break
  <2>2. CASE callers[c].at = "get"
    <3>1. callers[c] \in ListCall
      BY <2>2, CallFields
    <3>2. /\ callers'[c] = [callers[c] EXCEPT !.at = "prune"]
          /\ \A d \in Callers \ {c} : callers'[d] = callers[d]
      BY <1>8, <2>2, GotoEffect DEF Break
    <3>3. callers'[c].at = "prune" /\ callers'[c].field = callers[c].field
      BY <3>1, <3>2 DEF ListCall
    <3>4. Excused(callers[c].field)'
      BY <2>1, <2>2, <3>3 DEF Excused
    <3> QED BY <1>3, <2>2, <3>2, <3>3, <3>4 DEF Sets, Removes
  <2>3. CASE callers[c].at = "prune"
    <3>1. /\ callers'[c].at \in {"idle", "get"}
          /\ \A d \in Callers \ {c} : callers'[d] = callers[d]
      BY <1>8, <2>3, NextFieldEffect DEF Break
    <3> QED BY <1>3, <2>3, <3>1 DEF Sets, Removes
  <2>4. CASE callers[c].at \notin {"get", "prune"}
    <3>1. /\ callers'[c].at = "idle"
          /\ \A d \in Callers \ {c} : callers'[d] = callers[d]
      BY <1>8, <2>4, GotoEffect DEF Break, Idle
    <3> QED BY <1>3, <2>1, <3>1 DEF Sets, Removes
  <2> QED BY <2>2, <2>3, <2>4
<1> QED BY <1>5, <1>6, <1>7, <1>8

\* A call that begins takes its cleanness from the Sets whose field it may remove.
LEMMA EnterIndexInv ==
    ASSUME RedisTypeOK, IndexInv, NEW c \in Callers, NEW call, Enter(c, call),
           call.at \in {"set", "del", "smembers", "clear"},
           call.at = "set" /\ call.clean =>
              \A d \in Callers : ~Removes(callers[d], call.field)
    PROVE  IndexInv'
<1>1. /\ UNCHANGED <<strings, index, indexTtl, until, hurt>> /\ callers[c].at = "idle"
      /\ callers'[c] = call
      /\ \A d \in Callers \ {c} : callers'[d] = Overlapped(callers[d], call)
  BY DEF Enter, KeepIndex
<1>2. ASSUME NEW d \in Callers \ {c}
      PROVE  /\ callers'[d].at = callers[d].at
             /\ callers'[d].field = callers[d].field
             /\ callers[d].at = "wipe" => callers'[d].fields = callers[d].fields
             /\ callers'[d].at \in Sets /\ callers'[d].clean =>
                    callers[d].clean /\ ~Removes(call, callers[d].field)
  <2>1. CASE callers[d].at \in Sets
    <3>1. callers[d] \in SetCall
      BY <2>1, CallFields
    <3> QED BY <1>1, <2>1, <3>1 DEF Overlapped, SetCall, Sets
  <2>2. CASE callers[d].at \notin Sets
    BY <1>1, <2>2 DEF Overlapped
  <2> QED BY <2>1, <2>2
<1>3. IndexLives'
  BY <1>1, IndexLivesOn DEF IndexInv, KeepIndex
<1>4. ASSUME NEW f PROVE BeingSet(f) <=> BeingSet(f)'
  BY <1>1, <1>2 DEF BeingSet
<1>5. ASSUME NEW f PROVE Excused(f) <=> Excused(f)'
  BY <1>1, <1>4 DEF Excused, Stored
<1>6. IndexCovers'
  BY <1>1, <1>5 DEF IndexInv, IndexCovers
<1>7. CleanSetsAdd'
  <2>1. ASSUME NEW d \in Callers, callers'[d].at = "expire", callers'[d].clean
        PROVE  callers'[d].field \in index'
    BY <1>1, <1>2, <2>1 DEF IndexInv, CleanSetsAdd, Sets
  <2> QED BY <2>1 DEF CleanSetsAdd
<1>8. CleanSetsAlone'
  <2>1. ASSUME NEW a \in Callers, NEW d \in Callers,
               callers'[a].at \in Sets, callers'[a].clean
        PROVE  ~Removes(callers'[d], callers'[a].field)
    <3>1. CASE a = c
      BY <1>1, <1>2, <2>1, <3>1 DEF Removes, Sets
    <3>2. CASE a # c /\ d = c
      BY <1>1, <1>2, <2>1, <3>2
    <3>3. CASE a # c /\ d # c
      BY <1>2, <2>1, <3>3 DEF IndexInv, CleanSetsAlone, Removes
    <3> QED BY <3>1, <3>2, <3>3
  <2> QED BY <2>1 DEF CleanSetsAlone, Removes, Sets
<1>9. RemovalsAreSafe'
  <2>1. ASSUME NEW d \in Callers, callers'[d].at \in {"srem", "prune"}
        PROVE  Excused(callers[d].field)'
    <3>1. d # c /\ callers[d].at \in {"srem", "prune"} /\ callers'[d].field = callers[d].field
      BY <1>1, <1>2, <2>1
    <3>2. Excused(callers[d].field)
      BY <3>1 DEF IndexInv, RemovalsAreSafe
    <3>3. PICK h : h = callers[d].field
      OBVIOUS
    <3>4. Excused(h)'
      BY <1>5, <3>2, <3>3
    <3> QED BY <3>1, <3>3, <3>4 DEF Excused, BeingSet, Stored
  <2>2. ASSUME NEW d \in Callers, callers'[d].at = "wipe",
               NEW f \in Fields \ callers'[d].fields
        PROVE  Excused(f)'
    BY <1>1, <1>2, <1>5, <2>2 DEF IndexInv, RemovalsAreSafe
  <2> QED BY <2>1, <2>2 DEF RemovalsAreSafe
<1> QED BY <1>3, <1>6, <1>7, <1>8, <1>9 DEF IndexInv

\* Every call begins as EnterIndexInv says.
LEMMA CallIndexInv ==
    ASSUME RedisTypeOK, IndexInv, NEW c \in Callers,
           CallSet(c) \/ CallDelete(c) \/ CallList(c) \/ CallClear(c)
    PROVE  IndexInv'
<1>1. CASE CallSet(c)
  <2>1. PICK f \in Fields, v \in Values, ttl \in Ttls :
           Enter(c, [at |-> "set", field |-> f, value |-> v, ttl |-> ttl,
                     clean |-> ~\E d \in Callers : Removes(callers[d], f)])
    BY <1>1 DEF CallSet
  <2> DEFINE call == [at |-> "set", field |-> f, value |-> v, ttl |-> ttl,
                      clean |-> ~\E d \in Callers : Removes(callers[d], f)]
  <2>2. /\ call.at = "set" /\ call.field = f
        /\ call.clean = ~\E d \in Callers : Removes(callers[d], f)
    OBVIOUS
  <2>3. Enter(c, call)
    BY <2>1
  <2> HIDE DEF call
  <2> QED BY <2>2, <2>3, EnterIndexInv
<1>2. CASE CallDelete(c)
  <2>1. PICK f \in Fields : Enter(c, [at |-> "del", field |-> f])
    BY <1>2 DEF CallDelete
  <2> QED BY <2>1, EnterIndexInv
<1>3. CASE CallList(c) \/ CallClear(c)
  BY <1>3, EnterIndexInv DEF CallList, CallClear
<1> QED BY <1>1, <1>2, <1>3

\* As long as the time that the last Set gave the index has not passed, neither the
\* index nor a field in it is lost.
LEMMA TickIndexInv ==
    ASSUME RedisTypeOK, IndexInv, Tick
    PROVE  IndexInv'
<1>0. /\ now \in Nat /\ now' = now + 1 /\ now' \in Nat /\ until' = until
      /\ indexTtl \in Nat /\ until \in Nat /\ until <= indexTtl /\ Stored' \subseteq Stored
  BY Bounds DEF Tick, RedisTypeOK, IndexInv, IndexLives, Stored
<1>1. IndexLives'
  BY <1>0, IndexLivesOn DEF IndexInv, Tick
<1>2. CASE until > now'
  <2>1. UNCHANGED <<index, callers, hurt>>
    BY <1>0, <1>2 DEF Tick, KeepIndex
  <2>2. \A f : Excused(f) => Excused(f)'
    BY <1>0, <2>1 DEF Excused, BeingSet
  <2>3. IndexCovers' /\ CleanSetsAdd' /\ CleanSetsAlone'
    BY <2>1, <2>2 DEF IndexInv, IndexCovers, CleanSetsAdd, CleanSetsAlone, Removes
  <2>4. RemovalsAreSafe'
    BY <2>1, <2>2, <1>0 DEF IndexInv, RemovalsAreSafe, Excused, BeingSet
  <2> QED BY <1>1, <2>3, <2>4 DEF IndexInv
<1>3. CASE until <= now'
  <2>0. ~(until > now')
    BY <1>0, <1>3
  <2>1. /\ hurt' = Fields
        /\ callers' = [c \in Callers |->
                          IF callers[c].at = "expire" THEN [callers[c] EXCEPT !.clean = FALSE]
                                                      ELSE callers[c]]
    BY <2>0, Zenon DEF Tick
  <2>2. ASSUME NEW d \in Callers
        PROVE  /\ callers'[d].at = callers[d].at /\ callers'[d].field = callers[d].field
               /\ callers'[d].at = "expire" => ~callers'[d].clean
               /\ callers'[d].at # "expire" => callers'[d] = callers[d]
    <3>1. callers'[d] = IF callers[d].at = "expire" THEN [callers[d] EXCEPT !.clean = FALSE]
                                                    ELSE callers[d]
      BY <2>1
    <3>2. callers[d].at = "expire" => callers[d] \in SetCall
      BY CallFields DEF Sets
    <3> QED BY <3>1, <3>2 DEF SetCall
  <2>3. \A f \in Fields : Excused(f)'
    BY <2>1 DEF Excused
  <2>4. CleanSetsAdd'
    BY <2>2 DEF CleanSetsAdd
  <2>5. CleanSetsAlone'
    <3>1. ASSUME NEW a \in Callers, NEW d \in Callers,
                 callers'[a].at \in Sets, callers'[a].clean
          PROVE  ~Removes(callers'[d], callers'[a].field)
      BY <2>2, <3>1 DEF IndexInv, CleanSetsAlone, Removes
    <3> QED BY <3>1 DEF CleanSetsAlone, Removes, Sets
  <2>6. ASSUME NEW d \in Callers, callers'[d].at \in {"srem", "prune"}
        PROVE  callers'[d].field \in Fields
    BY <2>2, <2>6, CallFields DEF DeleteCall, ListCall
  <2>7. RemovalsAreSafe'
    BY <2>1, <2>3, <2>6 DEF RemovalsAreSafe, Excused
  <2> QED BY <1>1, <2>3, <2>4, <2>5, <2>7 DEF IndexInv, IndexCovers
<1> QED BY <1>0, <1>2, <1>3

\* Every step keeps the invariant of the index.
LEMMA IndexInductive ==
    ASSUME RedisTypeOK, IndexInv, [Next]_vars
    PROVE  IndexInv'
<1>1. CASE UNCHANGED vars
  BY <1>1 DEF vars, IndexInv, IndexLives, IndexCovers, CleanSetsAdd, CleanSetsAlone,
              RemovalsAreSafe, Excused, Stored, BeingSet, Removes
<1> QED BY <1>1, SetIndexInv, SAddIndexInv, ExpireIndexInv, DelIndexInv, RemoveIndexInv,
           WipeIndexInv, ReadIndexInv, CallIndexInv, TickIndexInv DEF Next

\* Whatever is stored and is not hurt can be found through the index, with any number
\* of goroutines, any ttls and any faults: nothing but what EntriesIndexed names takes
\* a field out of the index while it is stored.
THEOREM IndexIsComplete == StoreSpec => []EntriesIndexed
<1> DEFINE Inv == RedisTypeOK /\ IndexInv
<1>1. StoreInit => Inv
  <2>1. Init => IndexInv
    <3> SUFFICES ASSUME Init PROVE IndexInv
      OBVIOUS
    <3>1. \A c \in Callers : callers[c].at = "idle"
      BY DEF Init, Idle
    <3>2. \A f \in Fields : Excused(f)
      BY DEF Init, Excused, Stored
    <3>3. IndexLives
      BY Bounds DEF Init, IndexLives
    <3> QED BY <3>1, <3>2, <3>3 DEF IndexInv, IndexCovers, CleanSetsAdd, CleanSetsAlone,
                                    RemovalsAreSafe, Sets
  <2> QED BY <2>1, RedisTypeInit DEF StoreInit
<1>2. Inv /\ [StoreNext]_storeVars => Inv'
  BY RedisTypeInductive, IndexInductive DEF StoreNext, storeVars
<1>3. Inv => EntriesIndexed
  BY DEF EntriesIndexed, IndexInv, IndexCovers, Excused, Stored
<1> QED BY <1>1, <1>2, <1>3, PTL DEF StoreSpec

=============================================================================
