-------------------------------- MODULE MCWeb --------------------------------
(***************************************************************************)
(* Constants for TLC. The four parts of the web app share no state: a     *)
(* behaviour uses one of them, and part says which.                        *)
(***************************************************************************)
EXTENDS AiWorkflow, TokenStream, VoiceRecorder, InputForm

VARIABLE part

MCKindOf == [brief |-> "fine", notes |-> "corrupt", photo |-> "flagged", scan |-> "unsupported"]
MCInputs == {[text |-> "fine", files |-> {"brief"}], [text |-> "none", files |-> {"brief", "notes"}],
             [text |-> "flagged", files |-> {}], [text |-> "none", files |-> {"photo"}],
             [text |-> "none", files |-> {"scan"}]}

MCModes == <<"text", "file", "image", "audio">>
Chosen(documents, images, others) ==
    [document |-> documents, image |-> images, audio |-> others, other |-> others]
MCSelections == {Chosen(<<>>, <<TRUE, TRUE>>, <<>>), Chosen(<<FALSE>>, <<TRUE>>, <<>>), Chosen(<<>>, <<>>, <<TRUE>>)}

MCInit == WorkflowInit /\ StreamInit /\ VoiceInit /\ FormInit
          /\ part \in {"workflow", "stream", "voice", "form"}
MCNext ==
    \/ part = "workflow" /\ WorkflowNext /\ UNCHANGED <<part, streamVars, voiceVars, formVars>>
    \/ part = "stream" /\ StreamNext /\ UNCHANGED <<part, workflowVars, voiceVars, formVars>>
    \/ part = "voice" /\ VoiceNext /\ UNCHANGED <<part, workflowVars, streamVars, formVars>>
    \/ part = "form" /\ FormNext /\ UNCHANGED <<part, workflowVars, streamVars, voiceVars>>
MCSpec == MCInit /\ [][MCNext]_<<part, workflowVars, streamVars, voiceVars, formVars>>
          /\ WorkflowFairness /\ VoiceFairness

-----------------------------------------------------------------------------
(* What is claimed. *)

\* Every submission comes to a result or an error unless it is taken back, and every microphone that
\* went on goes off again: neither waits for ever for something the page has stopped listening to.
WebSettles == EveryRunSettles /\ MicGoesOff
==============================================================================
