------------------------------ MODULE QueueImpl ------------------------------
(***************************************************************************)
(* createQueue of background/queue.ts: the array of tasks with the set of  *)
(* keys that dedups it and the insertion numbers that break ties of rank,  *)
(* and the round trip through storage on a restart of the service worker.  *)
(* The array is the set of its elements: every reader sorts it by rank and *)
(* insertion number, and no two elements have the same number.             *)
(***************************************************************************)
EXTENDS TaskQueue, FiniteSets

CONSTANTS
    Offered,    \* the tasks that may be pushed
    MaxSeq      \* bound: pushes between two restarts

ASSUME QueueImplAssumption == Offered \subseteq Task /\ MaxSeq \in Nat

VARIABLES
    tasks, keys, order, seq, boosted,
    out     \* what the last pop returned: one task, or none from an empty queue

queueVars == <<tasks, keys, order, seq, boosted, out>>

Keys(T) == {TaskKey(t) : t \in T}

\* createQueue()
QueueInit ==
    /\ tasks = {} /\ keys = {} /\ seq = 0 /\ boosted = NoRoute /\ out = {}
    /\ order = [k \in {} |-> 0]

\* The comparison of sorted().
Precedes(t, u) ==
    \/ Rank(t, boosted) < Rank(u, boosted)
    \/ Rank(t, boosted) = Rank(u, boosted) /\ order[TaskKey(t)] < order[TaskKey(u)]

\* push: refused when the key is there.
Push(t) ==
    LET k == TaskKey(t)
    IN  /\ k \notin keys
        /\ seq < MaxSeq
        /\ tasks' = tasks \cup {t}
        /\ keys' = keys \cup {k}
        /\ order' = [x \in keys \cup {k} |-> IF x = k THEN seq ELSE order[x]]
        /\ seq' = seq + 1
        /\ UNCHANGED <<boosted, out>>

Forget(T) ==
    /\ tasks' = tasks \ T
    /\ keys' = keys \ Keys(T)
    /\ order' = [k \in keys \ Keys(T) |-> order[k]]
    /\ UNCHANGED <<seq, boosted>>

\* Mutant of Pop: first in, first out.
PopOldest ==
    \E t \in tasks :
        /\ \A u \in tasks \ {t} : order[TaskKey(t)] < order[TaskKey(u)]
        /\ Forget({t}) /\ out' = {t}

\* pop: the head of the sorted list, or nothing.
Pop ==
    \/ tasks = {} /\ out' = {} /\ UNCHANGED <<tasks, keys, order, seq, boosted>>
    \/ \E t \in tasks :
         /\ \A u \in tasks \ {t} : Precedes(t, u)
         /\ Forget({t}) /\ out' = {t}

\* removeWhere, with the tasks T that satisfy its predicate.
RemoveWhere(T) == Forget(T) /\ UNCHANGED out

BoostRoute(r) == boosted' = r /\ UNCHANGED <<tasks, keys, order, seq, out>>

\* createQueue(serialize()): the sorted list is pushed again, in its order.
Restart ==
    /\ \E pos \in [keys -> 0..(Cardinality(keys) - 1)] :
         /\ \A t, u \in tasks : Precedes(t, u) <=> pos[TaskKey(t)] < pos[TaskKey(u)]
         /\ order' = pos
    /\ seq' = Cardinality(keys)
    /\ UNCHANGED <<tasks, keys, boosted, out>>

\* createQueue() for a new session, or for a stopped one.
CreateQueue ==
    /\ tasks' = {} /\ keys' = {} /\ seq' = 0 /\ boosted' = NoRoute
    /\ order' = [k \in {} |-> 0]
    /\ UNCHANGED out

QueueNext ==
    \/ \E t \in Offered : Push(t)
    \/ Pop
    \/ \E T \in SUBSET tasks : RemoveWhere(T)
    \/ \E r \in Routes : BoostRoute(r)
    \/ Restart
    \/ CreateQueue

QueueSpec == QueueInit /\ [][QueueNext]_queueVars

-----------------------------------------------------------------------------
\* The array, the key set and the insertion numbers speak of the same tasks: whatever was pushed,
\* popped, removed and restored, a key is known exactly when its one task is in the array, and no
\* two tasks have the same number.
Consistent ==
    /\ tasks \subseteq Task
    /\ boosted \in Routes \cup {NoRoute}
    /\ keys = Keys(tasks) /\ IsFiniteSet(keys)
    /\ KeysUnique(tasks)
    /\ order \in [keys -> Nat] /\ seq \in Nat
    /\ \A k \in keys : order[k] < seq
    /\ \A k, l \in keys : order[k] = order[l] => k = l

\* The queue implements its interface.
Interface == INSTANCE WorkQueue WITH queue <- tasks
ImplementsInterface == Interface!Spec

\* A restart of the service worker leaves the order of the remaining work as it was
\* (queue.test.ts "round-trip").
SameOrderAfterRestart ==
    [][Restart => \A t, u \in tasks : Precedes(t, u) <=> Precedes(t, u)']_queueVars

\* "Discovery first, then the developer's current route, then tests" (the header of queue.ts): no
\* test is popped while a page is waiting to be discovered.
DiscoveryFirst ==
    [][Pop /\ tasks # tasks' =>
         \A t \in tasks \ tasks' : t.kind = "test" => \A u \in tasks : u.kind # "visit"]_queueVars
==============================================================================
