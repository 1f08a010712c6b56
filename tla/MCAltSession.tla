----------------------------- MODULE MCAltSession -----------------------------
(* Constants for TLC: a chain of routes "/" -> "b" -> "c"; form "f1" on "/" with two submitting  *)
(* cases and a context case, and on "b" form "f2", which the heuristics flag destructive.        *)
EXTENDS AltSession

MCRoutes == {"/", "b", "c"}
MCForms == {"f1", "f2"}
MCCases == {"f1happy", "f1empty", "f1ctx", "f2happy", "f2reload"}
MCFormOf == [c \in MCCases |-> IF c \in {"f2happy", "f2reload"} THEN "f2" ELSE "f1"]
MCRouteOf == [f \in MCForms |-> IF f = "f1" THEN "/" ELSE "b"]
MCRouteOfCase == [c \in MCCases |-> MCRouteOf[MCFormOf[c]]]
MCPriority ==
    [c \in MCCases |-> CASE c \in {"f1happy", "f2happy"} -> 0
                         [] c = "f1ctx" -> 20 [] c = "f1empty" -> 30 [] c = "f2reload" -> 90]
MCNonSubmitting == {"f2reload"}
MCContext == {"f1ctx"}
MCLinks == [r \in MCRoutes |-> CASE r = "/" -> {"b"} [] r = "b" -> {"/", "c"} [] r = "c" -> {}]
MCLanding == [r \in MCRoutes |-> {r}]
\* The page at "/" may send the visitor on to "b".
MCRedirects == [r \in MCRoutes |-> IF r = "/" THEN {"/", "b"} ELSE {r}]
MCActionsOn == [r \in MCRoutes |-> IF r = "/" THEN 1 ELSE 0]
\* The same application without "c".
MCRoutes2 == {"/", "b"}
MCLinks2 == [r \in MCRoutes2 |-> IF r = "/" THEN {"b"} ELSE {"/"}]
MCLanding2 == [r \in MCRoutes2 |-> {r}]
MCActionsOn2 == [r \in MCRoutes2 |-> IF r = "/" THEN 1 ELSE 0]
MCNoActions2 == [r \in MCRoutes2 |-> 0]
\* Without the empty case of "f1", for the runs with Gemini.
MCCases2 == MCCases \ {"f1empty"}
MCFormOf2 == [c \in MCCases2 |-> MCFormOf[c]]
MCRouteOfCase2 == [c \in MCCases2 |-> MCRouteOfCase[c]]
MCPriority2 == [c \in MCCases2 |-> MCPriority[c]]
==============================================================================
