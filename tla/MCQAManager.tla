----------------------------- MODULE MCQAManager -----------------------------
(* QAManager with its constants from the configuration. *)
EXTENDS QAManager
==============================================================================
