------------------------------ MODULE TaskQueue ------------------------------
(***************************************************************************)
(* ALT's work queue as its users see it (background/queue.ts): a set of    *)
(* tasks with distinct keys, from which pop takes one of minimal rank.     *)
(* The array, key set and insertion order that implement it are in         *)
(* QueueImpl, which is shown to implement this view.                       *)
(***************************************************************************)
EXTENDS Integers

CONSTANTS
    Routes,      \* logical routes (routeKey) of the tested application
    Cases,       \* identities of test cases
    RouteOfCase, \* the route a case's form lives on
    Priority     \* a case's place in its form's list, after the stable sort by priority

ASSUME TaskQueueAssumption ==
    /\ Routes \cap Cases = {}
    /\ RouteOfCase \in [Cases -> Routes]
    /\ Priority \in [Cases -> Nat]

NoRoute == "no route"      \* boosted = null
Kinds == {"visit", "explore_actions", "test", "check_links"}

\* One record for the four task types: "of" is the case of a test and the route of the others,
\* depth and dev (source = "developer") matter for visits only.
Task ==
    {t \in [kind: Kinds, of: Routes \cup Cases, depth: Nat, dev: BOOLEAN] :
        IF t.kind = "test" THEN t.of \in Cases /\ t.depth = 0 /\ ~t.dev ELSE t.of \in Routes}

Visit(r, d, dev) == [kind |-> "visit", of |-> r, depth |-> d, dev |-> dev]
Explore(r) == [kind |-> "explore_actions", of |-> r, depth |-> 0, dev |-> FALSE]
CheckLinks(r) == [kind |-> "check_links", of |-> r, depth |-> 0, dev |-> FALSE]
Test(c) == [kind |-> "test", of |-> c, depth |-> 0, dev |-> FALSE]

TaskKey(t) == <<t.kind, t.of>>
RouteOfTask(t) == IF t.kind = "test" THEN RouteOfCase[t.of] ELSE t.of

\* Mutant of Boost: boosting changes no rank.
NoBoost(t, boosted) == 0

\* What boost(routeKey) is worth: more than any other difference in rank.
Boost(t, boosted) ==
    IF RouteOfTask(t) = boosted /\ t.kind # "check_links" THEN -1000000 ELSE 0

Rank(t, boosted) ==
    Boost(t, boosted) +
    (CASE t.kind = "visit" -> t.depth - (IF t.dev THEN 500 ELSE 0)
       [] t.kind = "test" -> 1000 + Priority[t.of]
       [] t.kind = "explore_actions" -> 5000
       [] t.kind = "check_links" -> 9000)

\* A task of that key is queued.
HasKey(q, k) == \E t \in q : TaskKey(t) = k

\* push of every task of T (their keys differ): a key that is already queued is not added again.
PushAll(q, T) == q \cup {t \in T : ~HasKey(q, TaskKey(t))}

\* The tasks pop may return; which of several with the same rank is QueueImpl's business.
Heads(q, boosted) == {t \in q : \A u \in q : Rank(t, boosted) <= Rank(u, boosted)}

\* No two queued tasks share a key.
KeysUnique(q) == \A t, u \in q : TaskKey(t) = TaskKey(u) => t = u
==============================================================================
