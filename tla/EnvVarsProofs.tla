----------------------------- MODULE EnvVarsProofs -----------------------------
(***************************************************************************)
(* What mergeEnvVars and the filter of handleDeleteEnvKey make of lists of *)
(* every length.  Both are loops, and recursive functions in EnvVars: that *)
(* these are defined, and what holds after each round, is shown by the     *)
(* smallest round for which it would not hold.                             *)
(***************************************************************************)
EXTENDS EnvVars, WellFoundedInduction, TLAPS

\* A set of numbers has a smallest one: what holds of 0, and of a number if it holds of
\* the one before, holds of all, as there is no smallest exception.
LEMMA Smallest ==
    ASSUME NEW T, T \subseteq Nat, T # {}
    PROVE  \E x \in T : \A y \in T : x <= y
<1>1. PICK x \in T : \A y \in T : ~ (<<y, x>> \in OpToRel(<, Nat))
  BY WFMin, NatLessThanWellFounded, Zenon
<1>2. ASSUME NEW y \in T, ~(x <= y) PROVE FALSE
  <2>1. <<y, x>> \in Nat \X Nat /\ <<y, x>>[1] < <<y, x>>[2]
    BY <1>2
  <2>2. <<y, x>> \in OpToRel(<, Nat)
    BY <2>1 DEF OpToRel
  <2> QED BY <1>1, <2>2, Zenon
<1> QED BY <1>2

\* The last of some positions of a list.
LEMMA LastOfFacts ==
    ASSUME NEW k \in Nat, NEW T, T \subseteq 1..k, T # {}
    PROVE  LastOf(T) \in T /\ \A j \in T : j <= LastOf(T)
<1> DEFINE U == {k - y : y \in T}
<1>0. U \subseteq Nat /\ U # {} /\ \A j \in T : k - j \in U
  <2>1. \A j \in T : k - j \in U
    OBVIOUS
  <2>2. \A j \in T : k - j \in Nat
    OBVIOUS
  <2> QED BY <2>1, <2>2
<1>1. \A u \in U : \E x \in T : u = k - x
  OBVIOUS
<1> HIDE DEF U
<1>2. PICK u \in U : \A w \in U : u <= w
  BY <1>0, Smallest
<1>3. PICK x \in T : u = k - x
  BY <1>1
<1>5. \A j \in T : j <= x
  BY <1>0, <1>2, <1>3
<1>4. \E i \in T : \A j \in T : j <= i
  BY <1>5
<1> QED BY <1>4 DEF LastOf

-----------------------------------------------------------------------------
(* One variable, and recursion over a list.                                *)

\* A list with v appended as a new variable, or in the place of the last one of its name.
WithVar(env, v, m) ==
    \/ /\ Len(m) = Len(env) + 1 /\ m[Len(env) + 1] = v
       /\ \A i \in 1..Len(env) : m[i] = env[i] /\ env[i].name # v.name
    \/ /\ Len(m) = Len(env)
       /\ \E x \in 1..Len(env) :
             /\ m[x] = v /\ env[x].name = v.name
             /\ \A i \in 1..Len(env) : i # x => m[i] = env[i]
             /\ \A i \in x + 1..Len(env) : env[i].name # v.name

\* Upsert does one of the two.
LEMMA UpsertFacts ==
    ASSUME NEW V, NEW env \in Seq(V), NEW v \in V
    PROVE  Upsert(env, v) \in Seq(V) /\ WithVar(env, v, Upsert(env, v))
<1> DEFINE found == Indices(env, v.name)
<1>0. Len(env) \in Nat /\ DOMAIN env = 1..Len(env)
  OBVIOUS
<1>1. CASE found = {}
  <2>1. Upsert(env, v) = Append(env, v)
    BY <1>1 DEF Upsert
  <2>2. \A i \in 1..Len(env) : env[i].name # v.name
    BY <1>0, <1>1 DEF Indices
  <2> QED BY <2>1, <2>2 DEF WithVar
<1>2. CASE found # {}
  <2> DEFINE x == LastOf(found)
  <2>1. Upsert(env, v) = [env EXCEPT ![x] = v]
    BY <1>2 DEF Upsert
  <2>2. found \subseteq 1..Len(env)
    BY <1>0 DEF Indices
  <2>3. x \in found /\ \A j \in found : j <= x
    BY <1>0, <1>2, <2>2, LastOfFacts
  <2>4. x \in 1..Len(env) /\ env[x].name = v.name
    BY <2>2, <2>3 DEF Indices
  <2>5. \A i \in x + 1..Len(env) : env[i].name # v.name
    <3> SUFFICES ASSUME NEW i \in x + 1..Len(env), env[i].name = v.name PROVE FALSE
      OBVIOUS
    <3>1. i \in found
      BY <1>0, <2>4 DEF Indices
    <3> QED BY <2>3, <2>4, <3>1
  <2> HIDE DEF x
  <2>6. /\ [env EXCEPT ![x] = v] \in Seq(V) /\ Len([env EXCEPT ![x] = v]) = Len(env)
        /\ [env EXCEPT ![x] = v][x] = v
        /\ \A i \in 1..Len(env) : i # x => [env EXCEPT ![x] = v][i] = env[i]
    BY <1>0, <2>4
  <2> QED BY <2>1, <2>4, <2>5, <2>6 DEF WithVar
<1> QED BY <1>1, <1>2

\* What a recursive function over 0..N says of f.
Recursion(f, start, N, step) ==
    f = [i \in 0..N |-> IF i = 0 THEN start ELSE step[i][f[i - 1]]]

\* A recursive definition over 0..N defines a function.
LEMMA RecursionDefines ==
    ASSUME NEW X, NEW start \in X, NEW N \in Nat, NEW step \in [1..N -> [X -> X]]
    PROVE  \E f \in [0..N -> X] : Recursion(f, start, N, step)
<1> DEFINE Defined(n) ==
      \E f \in [0..n -> X] : f = [i \in 0..n |-> IF i = 0 THEN start ELSE step[i][f[i - 1]]]
           T == {n \in 0..N : ~Defined(n)}
<1>a. T \subseteq Nat /\ \A n \in T : n \in 0..N /\ ~Defined(n)
  OBVIOUS
<1>b. \A n \in 0..N : n \notin T => Defined(n)
  OBVIOUS
<1> HIDE DEF T
<1>1. SUFFICES ASSUME T # {} PROVE FALSE
  <2>1. N \in 0..N
    OBVIOUS
  <2> QED BY <1>b, <2>1 DEF Recursion
<1>2. PICK n \in T : \A m \in T : n <= m
  BY <1>1, <1>a, Smallest
<1>3. CASE n = 0
  <2> DEFINE f == [i \in 0..0 |-> start]
  <2>1. f \in [0..0 -> X] /\ f = [i \in 0..0 |-> IF i = 0 THEN start ELSE step[i][f[i - 1]]]
    OBVIOUS
  <2> QED BY <1>a, <1>3, <2>1
<1>4. CASE n # 0
  <2>1. n \in 1..N /\ n - 1 \in 0..N /\ n - 1 \notin T
    BY <1>a, <1>2, <1>4
  <2>2. PICK f \in [0..n - 1 -> X] :
            f = [i \in 0..n - 1 |-> IF i = 0 THEN start ELSE step[i][f[i - 1]]]
    BY <1>b, <2>1
  <2> DEFINE g == [i \in 0..n |-> IF i = n THEN step[n][f[n - 1]] ELSE f[i]]
  <2>3. f[n - 1] \in X /\ step[n][f[n - 1]] \in X
    BY <2>1
  <2>4. g \in [0..n -> X]
    BY <2>1, <2>3
  <2>5. \A i \in 0..n - 1 : g[i] = f[i]
    BY <2>1
  <2>6. \A i \in 0..n : g[i] = IF i = 0 THEN start ELSE step[i][g[i - 1]]
    <3> SUFFICES ASSUME NEW i \in 0..n PROVE g[i] = IF i = 0 THEN start ELSE step[i][g[i - 1]]
      OBVIOUS
    <3>1. CASE i = n
      BY <2>1, <2>5, <3>1
    <3>2. CASE i # n
      <4>1. i \in 0..n - 1 /\ (i # 0 => i - 1 \in 0..n - 1)
        BY <2>1, <3>2
      <4>2. f[i] = IF i = 0 THEN start ELSE step[i][f[i - 1]]
        BY <2>2, <4>1
      <4> QED BY <2>5, <4>1, <4>2
    <3> QED BY <3>1, <3>2
  <2> HIDE DEF g
  <2>7. g = [i \in 0..n |-> IF i = 0 THEN start ELSE step[i][g[i - 1]]]
    BY <2>4, <2>6
  <2> QED BY <1>a, <2>4, <2>7
<1> QED BY <1>3, <1>4

-----------------------------------------------------------------------------
(* mergeEnvVars.                                                           *)

\* The loop of mergeEnvVars: a list for each of the new variables.
LEMMA MergeLoop ==
    ASSUME NEW V, NEW existing \in Seq(V), NEW newVars \in Seq(V)
    PROVE  \E f : /\ f[0] = existing
                  /\ \A i \in 1..Len(newVars) : f[i] = Upsert(f[i - 1], newVars[i])
                  /\ mergeEnvVars(existing, newVars) = f[Len(newVars)]
<1> DEFINE N == Len(newVars)
           step == [i \in 1..N |-> [env \in Seq(V) |-> Upsert(env, newVars[i])]]
           IsLoop(f) == f = [i \in 0..N |-> IF i = 0 THEN existing ELSE Upsert(f[i - 1], newVars[i])]
           loop == CHOOSE f : IsLoop(f)
<1>1. N \in Nat /\ \A i \in 1..N : newVars[i] \in V
  OBVIOUS
<1>2. \E f : IsLoop(f)
  <2>1. step \in [1..N -> [Seq(V) -> Seq(V)]]
    BY <1>1, UpsertFacts
  <2>2. \A i \in 1..N, env \in Seq(V) : step[i][env] = Upsert(env, newVars[i])
    OBVIOUS
  <2> DEFINE L == Seq(V)
  <2>a. existing \in L /\ N \in Nat /\ step \in [1..N -> [L -> L]]
    BY <1>1, <2>1
  <2> HIDE DEF step, N, L
  <2>3. PICK f \in [0..N -> L] : Recursion(f, existing, N, step)
    BY <2>a, RecursionDefines
  <2>4. \A i \in 0..N : i # 0 => i \in 1..N /\ f[i - 1] \in Seq(V)
    BY <1>1 DEF L
  <2>5. IsLoop(f)
    BY <2>2, <2>3, <2>4 DEF Recursion
  <2> QED BY <2>5
<1>3. IsLoop(loop)
  BY <1>2, Zenon
<1>4. mergeEnvVars(existing, newVars) = loop[N]
  BY DEF mergeEnvVars
<1> HIDE DEF loop
<1>5. loop[0] = existing /\ \A i \in 1..N : loop[i] = Upsert(loop[i - 1], newVars[i])
  BY <1>1, <1>3
<1> QED BY <1>4, <1>5

\* What mergeEnvVars has made of the list after k of the new variables.
MergedUpTo(k, existing, newVars, m) ==
    /\ Len(m) >= Len(existing)
    /\ \A i \in 1..Len(existing) :
          /\ m[i].name = existing[i].name
          /\ m[i] = existing[i] \/ \E j \in 1..k : newVars[j].name = existing[i].name
    /\ \A i \in Len(existing) + 1..Len(m) :
          /\ \A j \in 1..Len(existing) : existing[j].name # m[i].name
          /\ \E j \in 1..k : newVars[j].name = m[i].name
          /\ \A j \in Len(existing) + 1..Len(m) : m[i].name = m[j].name => i = j
    /\ \A j \in 1..k : (\A l \in j + 1..k : newVars[l].name # newVars[j].name) =>
          \E i \in 1..Len(m) : /\ m[i] = newVars[j]
                               /\ \A l \in i + 1..Len(m) : m[l].name # newVars[j].name

\* One more variable.
LEMMA MergeStep ==
    ASSUME NEW V, NEW existing \in Seq(V), NEW newVars \in Seq(V), NEW k \in 1..Len(newVars),
           NEW m \in Seq(V), MergedUpTo(k - 1, existing, newVars, m)
    PROVE  /\ Upsert(m, newVars[k]) \in Seq(V)
           /\ MergedUpTo(k, existing, newVars, Upsert(m, newVars[k]))
<1> DEFINE v == newVars[k]
           u == Upsert(m, v)
<1>0. /\ v \in V /\ Len(m) \in Nat /\ Len(existing) \in Nat /\ k \in Nat /\ Len(m) >= Len(existing)
      /\ Len(newVars) \in Nat
  BY DEF MergedUpTo
<1>1. u \in Seq(V)
  BY <1>0, UpsertFacts
<1>2. CASE /\ Len(u) = Len(m) + 1 /\ u[Len(m) + 1] = v
           /\ \A i \in 1..Len(m) : u[i] = m[i] /\ m[i].name # v.name
  <2> HIDE DEF u
  <2>1. \A i \in 1..Len(existing) :
            /\ u[i].name = existing[i].name
            /\ u[i] = existing[i] \/ \E j \in 1..k : newVars[j].name = existing[i].name
    BY <1>0, <1>2 DEF MergedUpTo
  <2>2. ASSUME NEW i \in Len(existing) + 1..Len(u)
        PROVE  /\ \A j \in 1..Len(existing) : existing[j].name # u[i].name
               /\ \E j \in 1..k : newVars[j].name = u[i].name
               /\ \A j \in Len(existing) + 1..Len(u) : u[i].name = u[j].name => i = j
    <3>1. CASE i = Len(m) + 1
      <4>1. u[i] = v /\ k \in 1..k
        BY <1>0, <1>2, <3>1
      <4>2. \A j \in 1..Len(existing) : existing[j].name # v.name
        <5>1. \A j \in 1..Len(existing) : j \in 1..Len(m) /\ m[j].name = existing[j].name
          BY <1>0 DEF MergedUpTo
        <5> QED BY <1>2, <5>1
      <4>3. \A j \in Len(existing) + 1..Len(u) : j = i \/ u[j].name # v.name
        BY <1>0, <1>2, <3>1
      <4> QED BY <4>1, <4>2, <4>3
    <3>2. CASE i \in Len(existing) + 1..Len(m)
      <4>1. u[i] = m[i] /\ m[i].name # v.name
        BY <1>0, <1>2, <3>2
      <4>2. \A j \in Len(existing) + 1..Len(u) : j = Len(m) + 1 \/ (j \in Len(existing) + 1..Len(m) /\ u[j] = m[j])
        BY <1>0, <1>2
      <4>3. \A j \in 1..k - 1 : j \in 1..k
        BY <1>0
      <4>4. u[Len(m) + 1].name = v.name
        BY <1>2
      <4>5. /\ \A j \in 1..Len(existing) : existing[j].name # m[i].name
            /\ \E j \in 1..k - 1 : newVars[j].name = m[i].name
            /\ \A j \in Len(existing) + 1..Len(m) : m[i].name = m[j].name => i = j
        BY <3>2 DEF MergedUpTo
      <4> HIDE DEF v
      <4> QED BY <4>1, <4>2, <4>3, <4>4, <4>5
    <3>3. i = Len(m) + 1 \/ i \in Len(existing) + 1..Len(m)
      BY <1>0, <1>2
    <3> QED BY <3>1, <3>2, <3>3
  <2>3. ASSUME NEW j \in 1..k, \A l \in j + 1..k : newVars[l].name # newVars[j].name
        PROVE  \E i \in 1..Len(u) : /\ u[i] = newVars[j]
                                    /\ \A l \in i + 1..Len(u) : u[l].name # newVars[j].name
    <3>1. CASE j = k
      <4>1. u[Len(u)] = newVars[j] /\ Len(u) \in 1..Len(u) /\ \A l \in Len(u) + 1..Len(u) : FALSE
        BY <1>0, <1>2, <3>1
      <4> QED BY <4>1
    <3>2. CASE j # k
      <4>1. /\ j \in 1..k - 1 /\ newVars[j].name # v.name
            /\ \A l \in j + 1..k - 1 : newVars[l].name # newVars[j].name
        BY <1>0, <2>3, <3>2
      <4>2. PICK i \in 1..Len(m) : /\ m[i] = newVars[j]
                                   /\ \A l \in i + 1..Len(m) : m[l].name # newVars[j].name
        BY <4>1 DEF MergedUpTo
      <4>3. i \in 1..Len(u) /\ u[i] = newVars[j]
        BY <1>0, <1>2, <4>2
      <4>4. \A l \in i + 1..Len(u) : u[l].name # newVars[j].name
        <5>1. \A l \in i + 1..Len(u) :
                 l = Len(m) + 1 \/ (l \in i + 1..Len(m) /\ l \in 1..Len(m) /\ u[l] = m[l])
          BY <1>0, <1>2, <4>2
        <5>2. u[Len(m) + 1] = v
          BY <1>2
        <5> HIDE DEF v
        <5> QED BY <4>1, <4>2, <5>1, <5>2
      <4> QED BY <4>3, <4>4
    <3> QED BY <3>1, <3>2
  <2>4. Len(u) >= Len(existing)
    BY <1>0, <1>2
  <2>5. MergedUpTo(k, existing, newVars, u)
    BY <2>1, <2>2, <2>3, <2>4 DEF MergedUpTo
  <2> QED BY <1>1, <2>5 DEF u
<1>3. ASSUME Len(u) = Len(m), NEW x \in 1..Len(m), u[x] = v, m[x].name = v.name,
             \A i \in 1..Len(m) : i # x => u[i] = m[i],
             \A i \in x + 1..Len(m) : m[i].name # v.name
      PROVE  MergedUpTo(k, existing, newVars, u)
  <2> HIDE DEF u
  <2>0. \A i \in 1..Len(m) : u[i].name = m[i].name
    BY <1>3
  <2>1. \A i \in 1..Len(existing) :
            /\ u[i].name = existing[i].name
            /\ u[i] = existing[i] \/ \E j \in 1..k : newVars[j].name = existing[i].name
    BY <1>0, <1>3, <2>0 DEF MergedUpTo
  <2>2. ASSUME NEW i \in Len(existing) + 1..Len(u)
        PROVE  /\ \A j \in 1..Len(existing) : existing[j].name # u[i].name
               /\ \E j \in 1..k : newVars[j].name = u[i].name
               /\ \A j \in Len(existing) + 1..Len(u) : u[i].name = u[j].name => i = j
    <3>1. i \in Len(existing) + 1..Len(m) /\ u[i].name = m[i].name
      BY <1>0, <1>3, <2>0
    <3>2. \A j \in Len(existing) + 1..Len(u) : j \in Len(existing) + 1..Len(m) /\ u[j].name = m[j].name
      BY <1>0, <1>3, <2>0
    <3>3. \A j \in 1..k - 1 : j \in 1..k
      BY <1>0
    <3> QED BY <3>1, <3>2, <3>3 DEF MergedUpTo
  <2>3. ASSUME NEW j \in 1..k, \A l \in j + 1..k : newVars[l].name # newVars[j].name
        PROVE  \E i \in 1..Len(u) : /\ u[i] = newVars[j]
                                    /\ \A l \in i + 1..Len(u) : u[l].name # newVars[j].name
    <3>1. CASE j = k
      BY <1>0, <1>3, <2>0, <3>1
    <3>2. CASE j # k
      <4>1. /\ j \in 1..k - 1 /\ newVars[j].name # v.name
            /\ \A l \in j + 1..k - 1 : newVars[l].name # newVars[j].name
        BY <1>0, <2>3, <3>2
      <4>2. PICK i \in 1..Len(m) : /\ m[i] = newVars[j]
                                   /\ \A l \in i + 1..Len(m) : m[l].name # newVars[j].name
        BY <4>1 DEF MergedUpTo
      <4>3. i # x /\ u[i] = newVars[j]
        BY <1>3, <4>1, <4>2
      <4>4. \A l \in i + 1..Len(u) : u[l].name # newVars[j].name
        BY <1>0, <1>3, <2>0, <4>2
      <4> QED BY <1>3, <4>3, <4>4
    <3> QED BY <3>1, <3>2
  <2>4. Len(u) >= Len(existing)
    BY <1>0, <1>3
  <2> QED BY <2>1, <2>2, <2>3, <2>4 DEF MergedUpTo
<1>4. WithVar(m, v, u)
  BY <1>0, UpsertFacts
<1>5. CASE Len(u) = Len(m) + 1
  <2>1. ~(Len(u) = Len(m))
    BY <1>0, <1>5
  <2> HIDE DEF u, v
  <2> QED BY <1>2, <1>4, <2>1 DEF WithVar
<1>6. CASE Len(u) = Len(m)
  <2>1. ~(Len(u) = Len(m) + 1)
    BY <1>0, <1>6
  <2>3. MergedUpTo(k, existing, newVars, u)
    <3> HIDE DEF u, v
    <3> QED BY <1>3, <1>4, <2>1 DEF WithVar
  <2> QED BY <1>1, <2>3
<1> QED BY <1>4, <1>5, <1>6 DEF WithVar

\* All of them.
LEMMA AllMerged ==
    ASSUME NEW V, NEW existing \in Seq(V), NEW newVars \in Seq(V)
    PROVE  /\ mergeEnvVars(existing, newVars) \in Seq(V)
           /\ MergedUpTo(Len(newVars), existing, newVars, mergeEnvVars(existing, newVars))
<1>1. PICK f : /\ f[0] = existing
               /\ \A i \in 1..Len(newVars) : f[i] = Upsert(f[i - 1], newVars[i])
               /\ mergeEnvVars(existing, newVars) = f[Len(newVars)]
  BY MergeLoop
<1> DEFINE Good(k) == f[k] \in Seq(V) /\ MergedUpTo(k, existing, newVars, f[k])
           T == {k \in 0..Len(newVars) : ~Good(k)}
<1>2. T \subseteq Nat /\ Len(newVars) \in Nat /\ \A k \in T : k \in 0..Len(newVars) /\ ~Good(k)
  OBVIOUS
<1>3. \A k \in 0..Len(newVars) : k \notin T => Good(k)
  OBVIOUS
<1> HIDE DEF T
<1>4. T = {}
  <2> SUFFICES ASSUME T # {} PROVE FALSE
    OBVIOUS
  <2>1. PICK k \in T : \A j \in T : k <= j
    BY <1>2, Smallest
  <2>2. CASE k = 0
    <3>1. MergedUpTo(0, existing, newVars, existing)
      BY DEF MergedUpTo
    <3> QED BY <1>1, <1>2, <2>2, <3>1
  <2>3. CASE k # 0
    <3>1. k \in 1..Len(newVars) /\ k - 1 \in 0..Len(newVars) /\ k - 1 \notin T
      BY <1>2, <2>1, <2>3
    <3>2. Good(k - 1) /\ f[k] = Upsert(f[k - 1], newVars[k])
      BY <1>1, <1>3, <3>1
    <3>3. Good(k)
      BY <3>1, <3>2, MergeStep
    <3> QED BY <1>2, <3>3
  <2> QED BY <2>2, <2>3
<1>5. Good(Len(newVars))
  BY <1>2, <1>3, <1>4
<1> QED BY <1>1, <1>5

\* The variable the container sees.
LEMMA EffectiveIsLast ==
    ASSUME NEW V, NEW env \in Seq(V), NEW n \in Names(env)
    PROVE  \E i \in 1..Len(env) : /\ Effective(env, n) = env[i] /\ env[i].name = n
                                  /\ \A l \in i + 1..Len(env) : env[l].name # n
<1> DEFINE T == Indices(env, n)
           x == LastOf(T)
<1>1. T \subseteq 1..Len(env) /\ T # {} /\ Len(env) \in Nat
  BY DEF Indices, Names
<1>2. x \in T /\ \A j \in T : j <= x
  BY <1>1, LastOfFacts
<1>3. x \in 1..Len(env) /\ env[x].name = n
  BY <1>1, <1>2 DEF Indices
<1>4. \A l \in x + 1..Len(env) : env[l].name # n
  <2> SUFFICES ASSUME NEW l \in x + 1..Len(env), env[l].name = n PROVE FALSE
    OBVIOUS
  <2>1. l \in T
    BY <1>3 DEF Indices
  <2> HIDE DEF x, T
  <2> QED BY <1>1, <1>2, <2>1
<1>5. Effective(env, n) = env[x]
  BY DEF Effective
<1> QED BY <1>3, <1>4, <1>5

\* It is the last one of the name: there is only one last one.
LEMMA LastIsEffective ==
    ASSUME NEW V, NEW env \in Seq(V), NEW i \in 1..Len(env),
           \A l \in i + 1..Len(env) : env[l].name # env[i].name
    PROVE  env[i].name \in Names(env) /\ Effective(env, env[i].name) = env[i]
<1>1. env[i].name \in Names(env)
  BY DEF Names
<1>2. PICK x \in 1..Len(env) : /\ Effective(env, env[i].name) = env[x] /\ env[x].name = env[i].name
                               /\ \A l \in x + 1..Len(env) : env[l].name # env[i].name
  BY <1>1, EffectiveIsLast
<1>3. x = i
  BY <1>2
<1> QED BY <1>1, <1>2, <1>3

\* mergeEnvVars does what the comment in front of its handler says.
LEMMA MergeUpserts ==
    ASSUME NEW V, NEW existing \in Seq(V), NEW newVars \in Seq(V)
    PROVE  Upserted(existing, newVars, mergeEnvVars(existing, newVars))
<1> DEFINE m == mergeEnvVars(existing, newVars)
           N == Len(newVars)
<1>1. m \in Seq(V) /\ MergedUpTo(N, existing, newVars, m)
  BY AllMerged
<1> HIDE DEF m
<1>2. /\ DOMAIN m = 1..Len(m) /\ DOMAIN existing = 1..Len(existing) /\ DOMAIN newVars = 1..N
      /\ Len(m) \in Nat /\ Len(existing) \in Nat /\ N \in Nat /\ Len(m) >= Len(existing)
  BY <1>1 DEF MergedUpTo
<1>3. DOMAIN existing \subseteq DOMAIN m
  BY <1>2
<1>4. \A i \in 1..Len(existing) :
         /\ m[i].name = existing[i].name
         /\ m[i] = existing[i] \/ existing[i].name \in Names(newVars)
  BY <1>1, <1>2 DEF MergedUpTo, Names
<1>5. \A i \in Len(existing) + 1..Len(m) :
         /\ m[i].name \notin Names(existing) /\ m[i].name \in Names(newVars)
         /\ \A j \in Len(existing) + 1..Len(m) : m[i].name = m[j].name => i = j
  <2> SUFFICES ASSUME NEW i \in Len(existing) + 1..Len(m)
               PROVE  /\ m[i].name \notin Names(existing) /\ m[i].name \in Names(newVars)
                      /\ \A j \in Len(existing) + 1..Len(m) : m[i].name = m[j].name => i = j
    OBVIOUS
  <2>1. /\ \A j \in 1..Len(existing) : existing[j].name # m[i].name
        /\ \E j \in 1..N : newVars[j].name = m[i].name
        /\ \A j \in Len(existing) + 1..Len(m) : m[i].name = m[j].name => i = j
    BY <1>1 DEF MergedUpTo
  <2> QED BY <1>2, <2>1 DEF Names
<1>6. ASSUME NEW n \in Names(newVars)
      PROVE  n \in Names(m) /\ Effective(m, n) = Effective(newVars, n)
  <2>1. PICK j \in 1..N : /\ Effective(newVars, n) = newVars[j] /\ newVars[j].name = n
                          /\ \A l \in j + 1..N : newVars[l].name # n
    BY EffectiveIsLast
  <2>2. PICK i \in 1..Len(m) : m[i] = newVars[j] /\ \A l \in i + 1..Len(m) : m[l].name # n
    BY <1>1, <2>1 DEF MergedUpTo
  <2> QED BY <1>1, <2>1, <2>2, LastIsEffective
<1>7. Names(m) = Names(existing) \cup Names(newVars)
  <2>1. ASSUME NEW i \in DOMAIN m PROVE m[i].name \in Names(existing) \cup Names(newVars)
    <3>1. CASE i \in 1..Len(existing)
      BY <1>2, <1>4, <3>1 DEF Names
    <3>2. CASE i \in Len(existing) + 1..Len(m)
      BY <1>5, <3>2
    <3> QED BY <1>2, <3>1, <3>2
  <2>2. \A i \in DOMAIN existing : existing[i].name \in Names(m)
    BY <1>2, <1>3, <1>4 DEF Names
  <2> QED BY <1>6, <2>1, <2>2 DEF Names
<1>8. \A i \in DOMAIN m \ DOMAIN existing : i \in Len(existing) + 1..Len(m)
  BY <1>2
<1>9. /\ \A i \in DOMAIN existing : existing[i].name \notin Names(newVars) => m[i] = existing[i]
      /\ \A i, j \in DOMAIN m \ DOMAIN existing :
            /\ m[i].name \notin Names(existing)
            /\ m[i].name = m[j].name => i = j
  BY <1>2, <1>4, <1>5, <1>8
<1> QED BY <1>3, <1>6, <1>7, <1>9 DEF Upserted, m

-----------------------------------------------------------------------------
(* deleteEnvKey.                                                           *)

\* The loop of deleteEnvKey: a list for each of the variables.
LEMMA DeleteLoop ==
    ASSUME NEW V, NEW env \in Seq(V), NEW key
    PROVE  \E f : /\ f[0] = <<>>
                  /\ \A i \in 1..Len(env) :
                        f[i] = IF env[i].name = key THEN f[i - 1] ELSE Append(f[i - 1], env[i])
                  /\ deleteEnvKey(env, key) = f[Len(env)]
<1> DEFINE N == Len(env)
           After(i, e) == IF env[i].name = key THEN e ELSE Append(e, env[i])
           step == [i \in 1..N |-> [e \in Seq(V) |-> After(i, e)]]
           IsLoop(f) == f = [i \in 0..N |-> IF i = 0 THEN <<>> ELSE After(i, f[i - 1])]
           loop == CHOOSE f : IsLoop(f)
<1>1. N \in Nat /\ \A i \in 1..N : env[i] \in V
  OBVIOUS
<1>2. \E f : IsLoop(f)
  <2>1. step \in [1..N -> [Seq(V) -> Seq(V)]]
    BY <1>1
  <2>2. \A i \in 1..N, e \in Seq(V) : step[i][e] = After(i, e)
    OBVIOUS
  <2> DEFINE L == Seq(V)
  <2>a. <<>> \in L /\ N \in Nat /\ step \in [1..N -> [L -> L]]
    BY <1>1, <2>1
  <2> HIDE DEF step, N, L
  <2>3. PICK f \in [0..N -> L] : Recursion(f, <<>>, N, step)
    BY <2>a, RecursionDefines
  <2>4. \A i \in 0..N : i # 0 => i \in 1..N /\ f[i - 1] \in Seq(V)
    BY <1>1 DEF L
  <2> HIDE DEF After
  <2>5. IsLoop(f)
    BY <2>2, <2>3, <2>4 DEF Recursion
  <2> QED BY <2>5
<1>3. IsLoop(loop)
  BY <1>2, Zenon
<1>4. deleteEnvKey(env, key) = loop[N]
  BY DEF deleteEnvKey
<1> HIDE DEF loop, After
<1>5. loop[0] = <<>> /\ \A i \in 1..N : loop[i] = After(i, loop[i - 1])
  BY <1>1, <1>3
<1> QED BY <1>4, <1>5 DEF After

\* The list filtered is what the filter keeps of the first k variables.
KeptOf(k, env, key, filtered) ==
    \E kept \in [1..Len(filtered) -> {i \in 1..k : env[i].name # key}] :
        /\ \A i \in 1..Len(filtered) : filtered[i] = env[kept[i]]
        /\ \A i, j \in 1..Len(filtered) : i < j => kept[i] < kept[j]
        /\ \A l \in 1..k : env[l].name # key => \E i \in 1..Len(filtered) : kept[i] = l

\* One more variable.
LEMMA DeleteStep ==
    ASSUME NEW V, NEW env \in Seq(V), NEW key, NEW k \in 1..Len(env),
           NEW e \in Seq(V), KeptOf(k - 1, env, key, e)
    PROVE  /\ env[k].name = key => KeptOf(k, env, key, e)
           /\ env[k].name # key => KeptOf(k, env, key, Append(e, env[k]))
<1>1. PICK kept \in [1..Len(e) -> {i \in 1..k - 1 : env[i].name # key}] :
        /\ \A i \in 1..Len(e) : e[i] = env[kept[i]]
        /\ \A i, j \in 1..Len(e) : i < j => kept[i] < kept[j]
        /\ \A l \in 1..k - 1 : env[l].name # key => \E i \in 1..Len(e) : kept[i] = l
  BY DEF KeptOf
<1>2. k \in Nat /\ Len(e) \in Nat /\ Len(env) \in Nat /\ env[k] \in V
  OBVIOUS
<1>3. \A i \in 1..Len(e) : kept[i] \in 1..k /\ kept[i] < k /\ env[kept[i]].name # key
  BY <1>1, <1>2
<1>4. \A l \in 1..k : l = k \/ l \in 1..k - 1
  BY <1>2
<1>5. ASSUME env[k].name = key PROVE KeptOf(k, env, key, e)
  <2>1. kept \in [1..Len(e) -> {i \in 1..k : env[i].name # key}]
    BY <1>3
  <2>2. \A l \in 1..k : env[l].name # key => \E i \in 1..Len(e) : kept[i] = l
    BY <1>1, <1>4, <1>5
  <2> QED BY <1>1, <2>1, <2>2 DEF KeptOf
<1>6. ASSUME env[k].name # key PROVE KeptOf(k, env, key, Append(e, env[k]))
  <2> DEFINE n == Len(e)
             a == Append(e, env[k])
             more == [i \in 1..n + 1 |-> IF i = n + 1 THEN k ELSE kept[i]]
  <2>1. Len(a) = n + 1 /\ a[n + 1] = env[k] /\ \A i \in 1..n : a[i] = e[i]
    BY <1>2
  <2>2. more[n + 1] = k /\ \A i \in 1..n : more[i] = kept[i]
    BY <1>2
  <2>3. \A i \in 1..n + 1 : i = n + 1 \/ i \in 1..n
    BY <1>2
  <2>4. more \in [1..n + 1 -> {i \in 1..k : env[i].name # key}]
    <3>1. \A i \in 1..n + 1 : more[i] \in {l \in 1..k : env[l].name # key}
      BY <1>2, <1>3, <1>6, <2>2, <2>3
    <3> QED BY <3>1
  <2> HIDE DEF more, a
  <2>5. \A i \in 1..n + 1 : a[i] = env[more[i]]
    BY <1>1, <2>1, <2>2, <2>3
  <2>6. \A i, j \in 1..n + 1 : i < j => more[i] < more[j]
    BY <1>1, <1>2, <1>3, <2>2, <2>3
  <2>7. \A l \in 1..k : env[l].name # key => \E i \in 1..n + 1 : more[i] = l
    <3> SUFFICES ASSUME NEW l \in 1..k, env[l].name # key
                 PROVE  \E i \in 1..n + 1 : more[i] = l
      OBVIOUS
    <3>1. CASE l = k
      BY <1>2, <2>2, <3>1
    <3>2. CASE l # k
      <4>1. PICK i \in 1..n : kept[i] = l
        BY <1>1, <1>4, <3>2
      <4> QED BY <1>2, <2>2, <4>1
    <3> QED BY <3>1, <3>2
  <2>8. KeptOf(k, env, key, a)
    <3>1. 1..Len(a) = 1..n + 1
      BY <2>1
    <3>2. more \in [1..Len(a) -> {i \in 1..k : env[i].name # key}]
      BY <2>4, <3>1
    <3>3. /\ \A i \in 1..Len(a) : a[i] = env[more[i]]
          /\ \A i, j \in 1..Len(a) : i < j => more[i] < more[j]
          /\ \A l \in 1..k : env[l].name # key => \E i \in 1..Len(a) : more[i] = l
      BY <2>5, <2>6, <2>7, <3>1
    <3> QED BY <3>2, <3>3, Zenon DEF KeptOf
  <2> QED BY <2>8 DEF a
<1> QED BY <1>5, <1>6

\* deleteEnvKey does what the comment in front of its handler says.
LEMMA DeleteDeletes ==
    ASSUME NEW V, NEW env \in Seq(V), NEW key
    PROVE  /\ deleteEnvKey(env, key) \in Seq(V)
           /\ Deleted(env, key, deleteEnvKey(env, key))
<1>1. PICK f : /\ f[0] = <<>>
               /\ \A i \in 1..Len(env) :
                     f[i] = IF env[i].name = key THEN f[i - 1] ELSE Append(f[i - 1], env[i])
               /\ deleteEnvKey(env, key) = f[Len(env)]
  BY DeleteLoop
<1> DEFINE Good(k) == f[k] \in Seq(V) /\ KeptOf(k, env, key, f[k])
           T == {k \in 0..Len(env) : ~Good(k)}
<1>2. T \subseteq Nat /\ Len(env) \in Nat /\ \A k \in T : k \in 0..Len(env) /\ ~Good(k)
  OBVIOUS
<1>3. \A k \in 0..Len(env) : k \notin T => Good(k)
  OBVIOUS
<1> HIDE DEF T
<1>4. T = {}
  <2> SUFFICES ASSUME T # {} PROVE FALSE
    OBVIOUS
  <2>1. PICK k \in T : \A j \in T : k <= j
    BY <1>2, Smallest
  <2>2. CASE k = 0
    <3> DEFINE nothing == [i \in 1..0 |-> i]
    <3>1. nothing \in [1..Len(<<>>) -> {i \in 1..0 : env[i].name # key}]
      OBVIOUS
    <3>2. (\A i \in 1..Len(<<>>) : FALSE) /\ (\A l \in 1..0 : FALSE)
      OBVIOUS
    <3>3. KeptOf(0, env, key, <<>>)
      <4> HIDE DEF nothing
      <4> QED BY <3>1, <3>2, Zenon DEF KeptOf
    <3>4. <<>> \in Seq(V)
      OBVIOUS
    <3>5. Good(0)
      BY <1>1, <3>3, <3>4, Zenon
    <3> QED BY <1>2, <2>2, <3>5
  <2>3. CASE k # 0
    <3>1. k \in 1..Len(env) /\ k - 1 \in 0..Len(env) /\ k - 1 \notin T
      BY <1>2, <2>1, <2>3
    <3>2. Good(k - 1) /\ f[k] = IF env[k].name = key THEN f[k - 1] ELSE Append(f[k - 1], env[k])
      BY <1>1, <1>3, <3>1
    <3>3. Good(k)
      BY <3>1, <3>2, DeleteStep
    <3> QED BY <1>2, <3>3
  <2> QED BY <2>2, <2>3
<1>5. Good(Len(env))
  BY <1>2, <1>3, <1>4
<1>6. ASSUME NEW g \in Seq(V), KeptOf(Len(env), env, key, g) PROVE Deleted(env, key, g)
  <2>1. DOMAIN env = 1..Len(env) /\ DOMAIN g = 1..Len(g)
    BY <1>6
  <2>2. PICK kept \in [1..Len(g) -> {i \in 1..Len(env) : env[i].name # key}] :
          /\ \A i \in 1..Len(g) : g[i] = env[kept[i]]
          /\ \A i, j \in 1..Len(g) : i < j => kept[i] < kept[j]
          /\ \A l \in 1..Len(env) : env[l].name # key => \E i \in 1..Len(g) : kept[i] = l
    BY <1>6 DEF KeptOf
  <2>3. kept \in [DOMAIN g -> {i \in DOMAIN env : env[i].name # key}]
    BY <2>1, <2>2
  <2>4. /\ \A i \in DOMAIN g : g[i] = env[kept[i]]
        /\ \A i, j \in DOMAIN g : i < j => kept[i] < kept[j]
        /\ \A k \in {i \in DOMAIN env : env[i].name # key} : \E i \in DOMAIN g : kept[i] = k
    BY <2>1, <2>2
  <2> QED BY <2>3, <2>4, Zenon DEF Deleted
<1> QED BY <1>1, <1>5, <1>6

=============================================================================
