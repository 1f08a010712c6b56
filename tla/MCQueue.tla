------------------------------- MODULE MCQueue -------------------------------
(* Constants for TLC: two routes, two visits of one of them, and two tests of equal priority. *)
EXTENDS QueueImpl

MCRoutes == {"/a", "/b"}
MCCases == {"a2", "b1"}
MCRouteOfCase == [c \in MCCases |-> IF c = "b1" THEN "/b" ELSE "/a"]
MCPriority == [c \in MCCases |-> 20]
MCOffered ==
    {Visit("/a", 0, FALSE), Visit("/a", 1, TRUE), Visit("/b", 1, FALSE),
     CheckLinks("/a"), Test("a2"), Test("b1")}
==============================================================================
