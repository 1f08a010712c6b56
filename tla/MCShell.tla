------------------------------- MODULE MCShell -------------------------------
(***************************************************************************)
(* Constants for TLC: two sites of one page, the second one's the sign-in  *)
(* page on which the load of the first's may end. The bounds of the loop   *)
(* and of the panel are shared: either the loop is busy and the panel      *)
(* stays closed, or the panel is and the loop rests. A behaviour is about  *)
(* the tab and the panel, or about the link to the helper.                 *)
(***************************************************************************)
EXTENDS PanelLink, HelperLink

MCOriginOf == [p \in {"a/", "b/"} |-> IF p = "b/" THEN "b" ELSE "a"]
MCLanding == [p \in {"a/", "b/"} |-> {p, "b/"}]
MCHome == [o \in {"a", "b"} |-> IF o = "b" THEN "b/" ELSE "a/"]

AtRest ==
    /\ worker = Booting /\ waiting = <<>> /\ saved = 0 /\ sock = [s \in 1..Sockets |-> Free]
    /\ helper = [up |-> FALSE, wants |-> 1, fits |-> TRUE] /\ troubles = 0

VARIABLE part
MCInit ==
    \/ part = "tabs" /\ InitWith(0) /\ PanelInitWith(Uses) /\ AtRest
    \/ part = "tabs" /\ InitWith(Ops) /\ PanelInitWith(0) /\ AtRest
    \/ part = "helper" /\ InitWith(0) /\ PanelInitWith(0) /\ LinkInit
MCNext ==
    \/ part = "tabs" /\ PanelLinkNext /\ UNCHANGED <<part, linkVars>>
    \/ part = "helper" /\ LinkNext /\ UNCHANGED <<part, allVars>>
MCSpec == MCInit /\ [][MCNext]_<<part, allVars, linkVars>> /\ Fairness /\ PanelFairness /\ LinkFairness

-----------------------------------------------------------------------------
(* What is claimed. *)

\* What a death of the worker, a silent port or a refused socket has parted comes together again: an
\* open panel shows the state of now unless it says that it has lost the connection, and the helper's
\* link is up, once each side stays.
LinksComeBack == PanelCatchesUp /\ LinkHeals
==============================================================================
