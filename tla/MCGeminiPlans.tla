---------------------------- MODULE MCGeminiPlans ----------------------------
(* Constants for TLC: three forms, one of them asked about twice, and room for two plans. *)
EXTENDS GeminiPlans

MCAsks == 1..4
MCSignatures == {"f1", "f2", "f3"}
MCSignatureOf == <<"f1", "f2", "f3", "f1">>
==============================================================================
