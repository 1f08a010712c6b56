----------------------------- MODULE AiWorkflow ------------------------------
(***************************************************************************)
(* Input -> upload -> analyze -> result in the web app                     *)
(* (lib/workflow/use-ai-workflow.ts, components/workflow/) against the API *)
(* that stores the files and calls the model.  Requests of an aborted      *)
(* submission are dead for the page, but the API still serves them.        *)
(***************************************************************************)
EXTENDS AiService

CONSTANTS
    Files,    \* the files a user may attach
    KindOf,   \* [Files -> FileKinds]
    Inputs,   \* the inputs a user may submit: [text : TextKinds, files : SUBSET Files]
    MaxFiles, \* config.input.maxFiles
    Submits,  \* bound: submissions
    Restarts  \* bound: restarts of the API, which forget the uploads of their instance

ASSUME AiWorkflowAssumption ==
    /\ IsFiniteSet(Files) /\ KindOf \in [Files -> FileKinds]
    /\ Inputs \subseteq [text : TextKinds, files : SUBSET Files]
    /\ MaxFiles \in Nat /\ Submits \in Nat /\ Restarts \in Nat

VARIABLES
    state,    \* the page's state: status, stage, uploaded; what it shows
    input,    \* the submitted input, or <<>>
    subs,     \* the submissions: input, aborted or not, phase, and the files still to upload
    ctrl,     \* the submission whose AbortController is current (0: none)
    held,     \* uploads: the id of each file that was uploaded (0: none)
    net,      \* the requests under way
    stored,   \* the API's files: ids are positions, "" is forgotten
    restarts

web == <<state, input, subs, ctrl, held>>
workflowVars == <<web, net, stored, restarts>>

Idle == [status |-> "idle"]
Running(stage, uploaded) == [status |-> "running", stage |-> stage, uploaded |-> uploaded]

WorkflowInit ==
    /\ state = Idle /\ input = <<>> /\ subs = <<>> /\ ctrl = 0
    /\ held = [f \in Files |-> 0] /\ net = {} /\ stored = <<>> /\ restarts = 0

-----------------------------------------------------------------------------
(* The user. *)

\* makeInputSchema, on the way from the form to submit.
Acceptable(next) ==
    /\ next.text # "none" \/ next.files # {}
    /\ Cardinality(next.files) <= MaxFiles
    /\ \A f \in next.files : KindOf[f] \notin {"huge", "empty"}

\* Mutant of Aborts: only Cancel aborts.
AbortsNothing(all) == all

\* controller.current?.abort().
Aborts(all) == IF ctrl = 0 THEN all ELSE [all EXCEPT ![ctrl].aborted = TRUE]

\* The files a submission has to upload: a retry does not upload again what succeeded.
Pending(next) == {f \in next.files : held[f] = 0}

UploadOf(s, f) == [sub |-> s, file |-> {f}, ids |-> {}, text |-> "none", cause |-> "sent", id |-> 0, bare |-> "ok"]
AnalyzeOf(s, ids, text) ==
    [sub |-> s, file |-> {}, ids |-> ids, text |-> text, cause |-> "sent", id |-> 0, bare |-> "ok"]
IdsOf(files) == {held[f] : f \in files}

\* submit: the previous one is aborted, then every missing file is sent at once; with none missing
\* the model is asked in the same step.
Submitted(next) ==
    LET s == Len(subs) + 1
    IN  /\ subs' = Append(Aborts(subs), [input |-> next, aborted |-> FALSE,
                    phase |-> IF Pending(next) = {} THEN "analyze" ELSE "upload", waits |-> Pending(next)])
        /\ ctrl' = s /\ input' = next
        /\ state' = Running(IF Pending(next) = {} THEN "analyze" ELSE "upload",
                            Cardinality(next.files \ Pending(next)))
        /\ net' = net \cup (IF Pending(next) = {} THEN {AnalyzeOf(s, IdsOf(next.files), next.text)}
                            ELSE {UploadOf(s, f) : f \in Pending(next)})
        /\ UNCHANGED <<held, stored, restarts>>

Submit(next) ==
    /\ state.status = "idle" /\ Len(subs) < Submits /\ Acceptable(next) /\ Submitted(next)

\* "Try again", where the error offers it.
Retry ==
    /\ state.status = "error" /\ state.retryable /\ Len(subs) < Submits /\ Submitted(input)

\* Cancel while it runs, or "Edit input" after an error: the input stays in the form.
Cancel ==
    /\ state.status \in {"running", "error"}
    /\ subs' = Aborts(subs) /\ ctrl' = 0 /\ state' = Idle
    /\ UNCHANGED <<input, held, net, stored, restarts>>

\* A new input after a result.
Reset ==
    /\ state.status = "success" /\ subs' = Aborts(subs) /\ input' = <<>> /\ state' = Idle
    /\ UNCHANGED <<ctrl, held, net, stored, restarts>>

-----------------------------------------------------------------------------
(* The API, which serves a request whether or not somebody still waits for it. *)

\* bare: what an input nobody can object to would have been answered.
Answered(r, cause, id, bare) ==
    net' = (net \ {r}) \cup {[r EXCEPT !.cause = cause, !.id = id, !.bare = bare]}

ServeUpload(r) ==
    /\ r.cause = "sent" /\ r.file # {}
    /\ \E f \in r.file :
         IF UploadCheck(KindOf[f]) = "stored"
         THEN stored' = Append(stored, f) /\ Answered(r, "ok", Len(stored'), "ok")
         ELSE Answered(r, UploadCheck(KindOf[f]), 0, "ok") /\ UNCHANGED stored
    /\ UNCHANGED <<web, restarts>>

\* analyze: the files are read by their ids, then the model is asked, twice at most.
ServeAnalyze(r) ==
    /\ r.cause = "sent" /\ r.file = {}
    /\ IF \E i \in r.ids : stored[i] = "" THEN Answered(r, "gone", 0, "ok")
       ELSE \E first, second \in ModelFaults \cup ModelReplies :
              Answered(r, Structured({r.text} \cup {KindOf[stored[i]] : i \in r.ids}, first, second), 0,
                       Structured({}, first, second))
    /\ UNCHANGED <<web, stored, restarts>>

\* No answer comes, or the proxy's; or the handler fails in a way nobody maps.
Fails(r) ==
    /\ r.cause = "sent" /\ \E cause \in {"unreachable", "internal"} : Answered(r, cause, 0, cause)
    /\ UNCHANGED <<web, stored, restarts>>

\* A new instance starts with an empty upload directory; the requests of the old one fail.
Restart ==
    /\ restarts < Restarts /\ restarts' = restarts + 1
    /\ stored' = [i \in DOMAIN stored |-> ""]
    /\ net' = {IF r.cause = "sent" THEN [r EXCEPT !.cause = "unreachable", !.bare = "unreachable"] ELSE r : r \in net}
    /\ UNCHANGED web

-----------------------------------------------------------------------------
(* Answers at the page. *)

\* The fetch of an aborted submission has been rejected: nobody reads its answer.
Unread(r) == r.cause # "sent" /\ subs[r.sub].aborted /\ net' = net \ {r} /\ UNCHANGED <<web, stored, restarts>>

Read(r) == r \in net /\ r.cause # "sent" /\ ~subs[r.sub].aborted

\* Mutant of Swallowed: an error of a submission that is over for the page, or still uploads, is lost.
SwallowedUploads(s) == subs[s].phase # "analyze"

\* The catch block shows an error once: Promise.all has rejected before, and an abort shows none.
Swallowed(s) == subs[s].phase = "over"

Failed(r) ==
    /\ r.cause # "ok" /\ net' = net \ {r}
    /\ IF Swallowed(r.sub) THEN UNCHANGED <<state, subs>>
       ELSE /\ subs' = [subs EXCEPT ![r.sub].phase = "over"]
            /\ state' = [status |-> "error", cause |-> r.cause, retryable |-> Retries(r.cause), bare |-> r.bare]
    /\ UNCHANGED <<input, ctrl, held, stored, restarts>>

\* A file is uploaded: it is held, and counted while the page runs; the last one asks the model.
\* After another upload failed nobody waits for it, but it is held all the same.
Uploaded(r) ==
    /\ r.cause = "ok" /\ r.file # {}
    /\ held' = [f \in Files |-> IF f \in r.file THEN r.id ELSE held[f]]
    /\ LET sub == subs[r.sub]
           waits == sub.waits \ r.file
           all == sub.phase = "upload" /\ waits = {}
       IN  /\ subs' = [subs EXCEPT ![r.sub].waits = waits, ![r.sub].phase = IF all THEN "analyze" ELSE @]
           /\ net' = (net \ {r}) \cup
                     IF all THEN {AnalyzeOf(r.sub, {held'[f] : f \in sub.input.files}, sub.input.text)}
                     ELSE {}
           /\ state' = IF state.status # "running" THEN state
                       ELSE Running(IF all THEN "analyze" ELSE state.stage,
                                    Cardinality(sub.input.files \ waits))
    /\ UNCHANGED <<input, ctrl, stored, restarts>>

\* The result, of what the request asked about.
Analyzed(r) ==
    /\ r.cause = "ok" /\ r.file = {} /\ net' = net \ {r}
    /\ subs' = [subs EXCEPT ![r.sub].phase = "over"]
    /\ state' = [status |-> "success", text |-> r.text, ids |-> r.ids]
    /\ UNCHANGED <<input, ctrl, held, stored, restarts>>

Serve(r) == ServeUpload(r) \/ ServeAnalyze(r) \/ Fails(r)
Hear(r) == Unread(r) \/ (Read(r) /\ (Failed(r) \/ Uploaded(r) \/ Analyzed(r)))
WorkflowNext ==
    \/ (\E next \in Inputs : Submit(next)) \/ Retry \/ Cancel \/ Reset \/ Restart
    \/ \E r \in net : Serve(r) \/ Hear(r)

\* The API answers or the connection fails, and what arrives is read.
WorkflowFairness ==
    /\ WF_workflowVars(\E r \in net : Serve(r))
    /\ WF_workflowVars(\E r \in net : Hear(r))

-----------------------------------------------------------------------------
(* What is claimed. *)

\* A result on the page is about the input on the page: its text, and every one of its files, under
\* the id the page holds for it.
ResultOfInput ==
    state.status = "success" =>
        /\ state.text = input.text /\ state.ids = IdsOf(input.files)
        /\ \A f \in input.files : held[f] # 0 /\ stored[held[f]] \in {f, ""}

\* "Honest progress" (processing-screen.tsx:20): the count is that of the input's uploaded files, and
\* the page says that it analyzes only when there is nothing left to upload.
HonestProgress ==
    state.status = "running" =>
        /\ state.uploaded = Cardinality({f \in input.files : held[f] # 0})
        /\ state.stage = (IF state.uploaded = Cardinality(input.files) THEN "analyze" ELSE "upload")

\* "Retry doesn't re-upload files that already succeeded" (use-ai-workflow.ts:32): no request for a
\* file that is held, ever, and no two live ones for the same file.
NoSecondUpload ==
    \A r \in net : r.file # {} /\ ~subs[r.sub].aborted =>
        /\ \A f \in r.file : held[f] = 0
        /\ \A q \in net : q.file = r.file /\ ~subs[q.sub].aborted => q = r

\* What the page shows and sends is about the input on the page, while it works and when it is done.
ShowsItsInput == ResultOfInput /\ HonestProgress /\ NoSecondUpload

\* The input's text or a file is one somebody objects to, or a file was forgotten.
AtFault ==
    \/ input.text = "flagged"
    \/ \E f \in input.files : KindOf[f] # "fine" \/ (held[f] # 0 /\ stored[held[f]] = "")

\* Whether "Try again" is offered, through all the layers between the model and the button: not when
\* everybody but the input did their part, only for a failure that any input would have met, and
\* withheld only when the input is at fault or the provider would have turned down any other as well.
RetryWhereItHelps ==
    state.status = "error" =>
        /\ state.bare = "ok" => ~state.retryable
        /\ state.retryable => state.bare = state.cause
        /\ ~state.retryable => AtFault \/ state.bare \in {"rejected", "blocked"}

\* "Can't analyze this input.  The content was flagged by safety filters.  Try different input."
\* (errors.ts:48): an error that says so is about such an input.  Violated: an answer that the provider
\* stops (client.py:170) carries the same code, and the input may be one nobody objects to.
OnlyFlaggedBlocked ==
    state.status = "error" /\ state.cause = "blocked" =>
        input.text = "flagged" \/ \E f \in input.files : KindOf[f] = "flagged"

\* A submission ends with a result or an error unless it is taken back.
EveryRunSettles == state.status = "running" ~> state.status # "running"

\* An input that can be analyzed is not lost to a restart: violated, the page holds the id of a file
\* the API no longer has, and no button uploads it again.
NothingGone == state.status = "error" => state.cause # "gone"
==============================================================================
