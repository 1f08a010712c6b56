------------------------------- MODULE MCQARun -------------------------------
(* Constants for TLC: replies of one call of each kind, and of two that differ in what matters. *)
EXTENDS QARun

MCCall(k, d) == [kind |-> k, decision |-> d]
MCReplies ==
    {<<MCCall(k, "none")>> : k \in CallKinds}
    \cup {<<MCCall("fine", "require_confirmation"), MCCall("fine", "regular")>>,
          <<MCCall("long", "regular"), MCCall("odd", "none")>>,
          <<MCCall("offsite", "none"), MCCall("fine", "require_confirmation")>>}
==============================================================================
