--------------------------- MODULE MCServiceWorker ---------------------------
(* Constants for TLC: a page with one case, and twice something that disturbs its session. *)
EXTENDS ServiceWorker

MCVisits == {"/"}
MCCases == {"c1", "c2"}
MCReveals == [v \in MCVisits |-> {"c1"}]
==============================================================================
