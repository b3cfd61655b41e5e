------------------------------ MODULE RedisCache ------------------------------
(***************************************************************************)
(* RedisCache of internal/cache/redis_cache.go, for one agent: a Redis     *)
(* string per field, which may expire, and the index, a Redis set of field *)
(* names, which expires too.  List and ClearAgent find the fields through  *)
(* the index.                                                              *)
(*                                                                         *)
(* The REST handlers and the idle watcher use the cache concurrently.  A   *)
(* pipeline is no transaction, so each command is a step of its own; the   *)
(* connection can break before any of them, and every error is ignored.    *)
(***************************************************************************)
EXTENDS Integers

CONSTANTS
    Fields,     \* the field names
    Values,     \* the values
    Callers,    \* the goroutines that use the cache
    Ttls,       \* the ttl arguments of Set, in units of time; <= 0: no expiration
    Day,        \* 24 hours in the same units
    Missing,    \* the answer nil
    MaxTime,    \* bound: units of time
    MaxCalls,   \* bound: calls
    MaxFaults   \* bound: connections that break

ASSUME TtlAssumption == Ttls \subseteq Int /\ Day \in Nat \ {0}
ASSUME MissingAssumption == Missing \notin [value : Values, expiresAt : Nat]
ASSUME BoundsAssumption == {MaxTime, MaxCalls, MaxFaults} \subseteq Nat

VARIABLES
    strings,    \* the string of each field, or Missing
    index,      \* the fields in the index
    indexTtl,   \* when the index expires
    callers,    \* the call each goroutine is in
    now,        \* the time
    until,      \* until when the last Set that was completed keeps the index
    hurt,       \* the fields that may be missing from the index: see EntriesIndexed
    used        \* how much of the bounds is used

vars == <<strings, index, indexTtl, callers, now, until, hurt, used>>

Never == MaxTime + 1

Idle == [at |-> "idle"]

Init ==
    /\ strings = [f \in Fields |-> Missing]
    /\ index = {} /\ indexTtl = Never
    /\ callers = [c \in Callers |-> Idle]
    /\ now = 0
    /\ until = Never /\ hurt = {}
    /\ used = [calls |-> 0, faults |-> 0]

-----------------------------------------------------------------------------
(* Redis.  A key that has expired does not exist, and neither does an      *)
(* empty set; a set that is created anew does not expire.                  *)

After(ttl) == IF now + ttl > MaxTime THEN Never ELSE now + ttl

KeepIndex == UNCHANGED <<index, indexTtl>>

SetIndex(fields) ==
    /\ index' = fields
    /\ indexTtl' = IF index = {} \/ fields = {} THEN Never ELSE indexTtl

Sets == {"set", "sadd", "expire"}

\* Time passes.  Once the last Set keeps the index no longer, it may be gone, with what
\* a Set at work has added to it.
Tick ==
    /\ now < MaxTime
    /\ now' = now + 1
    /\ strings' = [f \in Fields |->
                      IF strings[f] # Missing /\ strings[f].expiresAt <= now'
                      THEN Missing ELSE strings[f]]
    /\ IF indexTtl <= now' THEN SetIndex({}) ELSE KeepIndex
    /\ \/ /\ until <= now'
          /\ hurt' = Fields
          /\ callers' = [c \in Callers |->
                            IF callers[c].at = "expire" THEN [callers[c] EXCEPT !.clean = FALSE]
                                                        ELSE callers[c]]
       \/ until > now' /\ UNCHANGED <<hurt, callers>>
    /\ UNCHANGED <<until, used>>

-----------------------------------------------------------------------------
(* The calls.                                                              *)

\* The call may remove the field from the index.
Removes(call, f) ==
    \/ call.at \in {"smembers", "get", "prune", "clear", "wipe"}
    \/ call.at \in {"del", "srem"} /\ call.field = f

\* A Set at work once another call has begun: it is clean as long as it overlaps with
\* none that may remove its field from the index.
Overlapped(s, call) ==
    IF s.at \in Sets /\ Removes(call, s.field) THEN [s EXCEPT !.clean = FALSE] ELSE s

Enter(c, call) ==
    /\ callers[c].at = "idle"
    /\ used.calls < MaxCalls
    /\ used' = [used EXCEPT !.calls = @ + 1]
    /\ callers' = [d \in Callers |-> IF d = c THEN call ELSE Overlapped(callers[d], call)]
    /\ KeepIndex
    /\ UNCHANGED <<strings, now, until, hurt>>

Goto(c, call) == callers' = [callers EXCEPT ![c] = call]

CallSet(c) ==
    \E f \in Fields, v \in Values, ttl \in Ttls :
        Enter(c, [at |-> "set", field |-> f, value |-> v, ttl |-> ttl,
                  clean |-> ~\E d \in Callers : Removes(callers[d], f)])

\* SET key data [EX ttl].
Set(c) ==
    /\ callers[c].at = "set"
    /\ LET s == callers[c]
       IN  /\ strings' = [strings EXCEPT ![s.field] =
                             [value |-> s.value,
                              expiresAt |-> IF s.ttl > 0 THEN After(s.ttl) ELSE Never]]
           /\ Goto(c, [s EXCEPT !.at = "sadd"])
    /\ KeepIndex
    /\ UNCHANGED <<now, until, hurt, used>>

\* SADD.
SAdd(c) ==
    /\ callers[c].at = "sadd"
    /\ SetIndex(index \cup {callers[c].field})
    /\ Goto(c, [callers[c] EXCEPT !.at = "expire"])
    /\ UNCHANGED <<strings, now, until, hurt, used>>

\* Bug: the index keeps the expiry of the first write (EXPIRE ... NX).
IndexExpiryFirst(ttl) ==
    IF indexTtl # Never THEN indexTtl ELSE After(IF ttl > 0 THEN ttl * 2 ELSE Day)

\* The new expiry of the index.
IndexExpiry(ttl) == IF ttl > 0 THEN After(ttl * 2) ELSE After(Day)

\* EXPIRE, which does nothing if there is no such key: the index may have expired
\* since SADD.
Expire(c) ==
    /\ callers[c].at = "expire"
    /\ LET s == callers[c]
       IN  /\ indexTtl' = IF index = {} THEN Never ELSE IndexExpiry(s.ttl)
           /\ until' = After(IF s.ttl > 0 THEN s.ttl * 2 ELSE Day)
           /\ hurt' = IF s.clean THEN hurt \ {s.field} ELSE hurt \cup {s.field}
    /\ Goto(c, Idle)
    /\ UNCHANGED <<strings, index, now, used>>

CallDelete(c) == \E f \in Fields : Enter(c, [at |-> "del", field |-> f])

Del(c) ==
    /\ callers[c].at = "del"
    /\ strings' = [strings EXCEPT ![callers[c].field] = Missing]
    /\ Goto(c, [callers[c] EXCEPT !.at = "srem"])
    /\ KeepIndex
    /\ UNCHANGED <<now, until, hurt, used>>

SRem(c) ==
    /\ callers[c].at = "srem"
    /\ SetIndex(index \ {callers[c].field})
    /\ Goto(c, Idle)
    /\ UNCHANGED <<strings, now, until, hurt, used>>

CallList(c) == Enter(c, [at |-> "smembers"])

\* Go on with the fields that are left, in any order, or return.
NextField(c, todo) ==
    IF todo = {} THEN Goto(c, Idle)
    ELSE \E f \in todo : Goto(c, [at |-> "get", field |-> f, todo |-> todo \ {f}])

SMembers(c) ==
    /\ callers[c].at = "smembers"
    /\ NextField(c, index)
    /\ KeepIndex
    /\ UNCHANGED <<strings, now, until, hurt, used>>

\* GetEntry.
Get(c) ==
    /\ callers[c].at = "get"
    /\ LET l == callers[c]
       IN  IF strings[l.field] = Missing
           THEN Goto(c, [l EXCEPT !.at = "prune"])
           ELSE NextField(c, l.todo)
    /\ KeepIndex
    /\ UNCHANGED <<strings, now, until, hurt, used>>

\* List found an index entry without a string and removes it.
Prune(c) ==
    /\ callers[c].at = "prune"
    /\ SetIndex(index \ {callers[c].field})
    /\ NextField(c, callers[c].todo)
    /\ UNCHANGED <<strings, now, until, hurt, used>>

CallClear(c) == Enter(c, [at |-> "clear"])

\* ClearAgent: SMEMBERS, then DEL of the strings and of the index.
ClearAgent(c) ==
    /\ callers[c].at = "clear"
    /\ Goto(c, [at |-> "wipe", fields |-> index])
    /\ KeepIndex
    /\ UNCHANGED <<strings, now, until, hurt, used>>

Wipe(c) ==
    /\ callers[c].at = "wipe"
    /\ strings' = [f \in Fields |-> IF f \in callers[c].fields THEN Missing ELSE strings[f]]
    /\ SetIndex({})
    /\ Goto(c, Idle)
    /\ UNCHANGED <<now, until, hurt, used>>

\* The connection breaks; in List an error of GET counts as a missing field.
Break(c) ==
    /\ callers[c].at # "idle"
    /\ used.faults < MaxFaults
    /\ used' = [used EXCEPT !.faults = @ + 1]
    /\ CASE callers[c].at = "get" -> Goto(c, [callers[c] EXCEPT !.at = "prune"])
         [] callers[c].at = "prune" -> NextField(c, callers[c].todo)
         [] OTHER -> Goto(c, Idle)
    /\ hurt' = IF \/ callers[c].at \in {"sadd", "get"}
                  \/ callers[c].at = "expire" /\ ~callers[c].clean
               THEN hurt \cup {callers[c].field} ELSE hurt
    /\ KeepIndex
    /\ UNCHANGED <<strings, now, until>>

Next ==
    \/ \E c \in Callers :
          \/ CallSet(c) \/ Set(c) \/ SAdd(c) \/ Expire(c)
          \/ CallDelete(c) \/ Del(c) \/ SRem(c)
          \/ CallList(c) \/ SMembers(c) \/ Get(c) \/ Prune(c)
          \/ CallClear(c) \/ ClearAgent(c) \/ Wipe(c)
          \/ Break(c)
    \/ Tick

Spec == Init /\ [][Next]_vars

-----------------------------------------------------------------------------
Stored == {f \in Fields : strings[f] # Missing}

BeingSet(f) == \E c \in Callers : callers[c].at \in {"sadd", "expire"} /\ callers[c].field = f

\* What is stored can be found through the index, with any ttls and any calls at the
\* same time, except for the fields in hurt.  A field gets there by a Set that a List, a
\* ClearAgent or a Delete of the field overlapped, or by a connection that breaks after
\* SET or in a GET of List; all fields do when the time the last Set gave the index,
\* twice its own ttl or a day, has passed without another Set.  A Set of the field that
\* nothing overlaps makes it good again.
EntriesIndexed == \A f \in Stored \ hurt : ~BeingSet(f) => f \in index

-----------------------------------------------------------------------------
(* What a comment says and the code does not keep.                         *)

\* Set: "Keep index alive at least as long as the longest TTL entry".  Each Set
\* replaces the expiry of the index by twice its own ttl, which may be sooner.
IndexKeptAlive ==
    (\A c \in Callers : callers[c].at = "idle")
        => \A f \in Stored :
              strings[f].expiresAt # Never => strings[f].expiresAt <= indexTtl

=============================================================================
