-------------------------------- MODULE EnvVars --------------------------------
(***************************************************************************)
(* The lists of environment variables the env handlers of                  *)
(* internal/rest/handlers.go compute: mergeEnvVars and the filter of       *)
(* handleDeleteEnvKey.  The API server accepts a list that holds a name    *)
(* twice, and the container then sees the last value.                      *)
(***************************************************************************)
EXTENDS Integers, Sequences, FiniteSets

Var(name, value) == [name |-> name, value |-> value]

\* A list of variables, of any length.
IsList(env) == env \in Seq({env[i] : i \in DOMAIN env})

Indices(env, name) == {i \in DOMAIN env : env[i].name = name}

LastOf(indices) == CHOOSE i \in indices : \A j \in indices : j <= i

\* Bug: the index remembers the first variable of a name.
UpsertFirst(env, v) ==
    LET found == Indices(env, v.name)
    IN  IF found = {} THEN Append(env, v)
        ELSE [env EXCEPT ![CHOOSE i \in found : \A j \in found : i <= j] = v]

\* Replace the variable of this name, the last one if there are several; add it
\* at the end if there is none.
Upsert(env, v) ==
    LET found == Indices(env, v.name)
    IN  IF found = {} THEN Append(env, v) ELSE [env EXCEPT ![LastOf(found)] = v]

\* The variables of newVars, one after the other.
mergeEnvVars(existing, newVars) ==
    LET result[i \in 0..Len(newVars)] ==
            IF i = 0 THEN existing ELSE Upsert(result[i - 1], newVars[i])
    IN  result[Len(newVars)]

\* The list without every variable of this name.
deleteEnvKey(env, key) ==
    LET filtered[i \in 0..Len(env)] ==
            IF i = 0 THEN <<>>
            ELSE IF env[i].name = key THEN filtered[i - 1] ELSE Append(filtered[i - 1], env[i])
    IN  filtered[Len(env)]

-----------------------------------------------------------------------------
(* What the lists mean to the container.                                   *)

Names(env) == {env[i].name : i \in DOMAIN env}

\* The variable the container sees under this name.
Effective(env, name) == env[LastOf(Indices(env, name))]

\* "existing keys are updated, new keys are appended, unmentioned keys are left intact":
\* where they are, and a new key once.
Upserted(existing, newVars, merged) ==
    /\ Names(merged) = Names(existing) \cup Names(newVars)
    /\ \A n \in Names(newVars) : Effective(merged, n) = Effective(newVars, n)
    /\ DOMAIN existing \subseteq DOMAIN merged
    /\ \A i \in DOMAIN existing :
          existing[i].name \notin Names(newVars) => merged[i] = existing[i]
    /\ \A i, j \in DOMAIN merged \ DOMAIN existing :
          /\ merged[i].name \notin Names(existing)
          /\ merged[i].name = merged[j].name => i = j

\* "Removes a single environment variable by name": the variables of other names are
\* left, in their order, and none of this name.
Deleted(existing, key, filtered) ==
    LET others == {i \in DOMAIN existing : existing[i].name # key}
    IN  \E kept \in [DOMAIN filtered -> others] :
            /\ \A i \in DOMAIN filtered : filtered[i] = existing[kept[i]]
            /\ \A i, j \in DOMAIN filtered : i < j => kept[i] < kept[j]
            /\ \A k \in others : \E i \in DOMAIN filtered : kept[i] = k

=============================================================================
