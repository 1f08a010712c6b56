------------------------------ MODULE WorkQueue ------------------------------
(***************************************************************************)
(* What the work queue promises (interface Queue of background/queue.ts):  *)
(* it holds at most one task per key, pop returns a task of minimal rank,  *)
(* and only pop, removeWhere and a new session take a task out.            *)
(***************************************************************************)
EXTENDS TaskQueue

CONSTANT Offered    \* the tasks that may be pushed

VARIABLES
    queue, boosted,
    out     \* what the last pop returned: one task, or none from an empty queue

Init == queue = {} /\ boosted = NoRoute /\ out = {}

Push(t) == queue' = PushAll(queue, {t}) /\ UNCHANGED <<boosted, out>>

Pop ==
    /\ IF queue = {} THEN out' = {} ELSE \E t \in Heads(queue, boosted) : out' = {t}
    /\ queue' = queue \ out'
    /\ UNCHANGED boosted

BoostRoute(r) == boosted' = r /\ UNCHANGED <<queue, out>>

RemoveWhere == queue' \in SUBSET queue /\ UNCHANGED <<boosted, out>>

CreateQueue == queue' = {} /\ boosted' = NoRoute /\ UNCHANGED out

Next ==
    \/ \E t \in Offered : Push(t)
    \/ Pop \/ RemoveWhere \/ CreateQueue
    \/ \E r \in Routes : BoostRoute(r)

Spec == Init /\ [][Next]_<<queue, boosted, out>>
==============================================================================
