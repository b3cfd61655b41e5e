------------------------------- MODULE MCRestApi -------------------------------
(***************************************************************************)
(* Instances of RestApi for TLC: which requests race each other.           *)
(***************************************************************************)
EXTENDS RestApi

CONSTANTS c1, c2, I, J, X, Y

ImageSet == {I, J}

X1 == Var(X, 1)
X2 == Var(X, 2)
Y1 == Var(Y, 1)
Y2 == Var(Y, 2)

\* The lists the requests below lead to; the Agent may be created with X twice.  A
\* request to merge may hold a name twice, too.
EnvSet == {env \in UNION {[1..n -> {X1, X2, Y1, Y2}] : n \in 0..3} :
              Cardinality(Indices(env, X)) <= 2 /\ Cardinality(Indices(env, Y)) <= 1}

PayloadSet == [image : ImageSet, env : EnvSet]

SpecSet == [payload : PayloadSet, servicePort : Ports,
            paused : BOOLEAN, selfHealingDisabled : BOOLEAN]

Do(op) == [op |-> op]

CreateReq(paused, disabled) ==
    [op |-> "create",
     spec |-> [payload |-> [image |-> I, env |-> <<X1, X1>>], servicePort |-> 0,
               paused |-> paused, selfHealingDisabled |-> disabled]]

NewImage   == [op |-> "update", image |-> J, env |-> Omitted]
NewEnv     == [op |-> "setEnv", env |-> <<Y1>>]
MergeX     == [op |-> "mergeEnv", env |-> <<X2>>]
MergeY     == [op |-> "mergeEnv", env |-> <<Y1, X2, Y2>>]
DropX      == [op |-> "deleteEnv", key |-> X]

\* What the first and the second client send.
Pair(first, second) == [c \in {c1, c2} |-> IF c = c1 THEN first ELSE second]

AllRequests ==
    {Do(op) : op \in {"delete", "restart", "stop", "start", "keepalive", "disable", "enable",
                      "idle", "kubectlDelete"}}
    \cup {CreateReq(p, d) : p, d \in BOOLEAN}
    \cup {NewImage, NewEnv, MergeX, MergeY, DropX}

\* Deletions that race a resurrection or a successor, and writes of the spec that race each other.
Races ==
    {Pair(<<CreateReq(TRUE, FALSE), Do("delete")>>, <<Do("kubectlDelete")>>),
     Pair(<<CreateReq(TRUE, TRUE), Do("enable")>>, <<Do("delete")>>),
     Pair(<<CreateReq(TRUE, TRUE), Do("delete")>>, <<Do("kubectlDelete"), CreateReq(TRUE, FALSE)>>),
     Pair(<<CreateReq(FALSE, TRUE), Do("stop")>>, <<NewImage>>),
     Pair(<<CreateReq(TRUE, TRUE), MergeX, DropX>>, <<MergeY, Do("disable")>>),
     Pair(<<CreateReq(TRUE, TRUE), Do("keepalive")>>, <<Do("idle"), NewEnv>>),
     Pair(<<CreateReq(TRUE, TRUE), Do("start")>>, <<Do("restart")>>)}

\* A client disables self-healing in the spec it creates, enables it, and deletes.
EnabledThenDeleted ==
    {Pair(<<CreateReq(TRUE, TRUE), Do("enable"), Do("delete")>>, <<>>)}

Restarted == {Pair(<<CreateReq(FALSE, TRUE), Do("restart")>>, <<>>)}

=============================================================================
