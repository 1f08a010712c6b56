------------------------------ MODULE CaseRun ------------------------------
(***************************************************************************)
(* One test case in ALT's tab (background/executor.ts): load, fill,        *)
(* submit, poll the page until it has settled, and judge by what the page  *)
(* shows and by the requests that were recorded (background/network.ts,    *)
(* shared/outcome.ts).  The application and the browser act between any    *)
(* two steps of the executor.                                              *)
(*                                                                         *)
(* Time is the number of polls left and the phase in which a request       *)
(* began: 0 before the submission, 1 since then, 2 since Back.  Console    *)
(* errors, wording and the interaction log are left out.                   *)
(***************************************************************************)
EXTENDS Integers, FiniteSets

CONSTANTS
    Cases,      \* [kind, expect] of the cases that may run
    Apps,       \* how applications may behave
    MaxPolls    \* MAX_SETTLE_MS in polls

(* An application (external):                                                                 *)
(*   check     what happens at the click: "native" or "inline" validation refuses, "silent"   *)
(*             nothing, "local" a script takes the input itself, "sends" it is sent           *)
(*   fate      what the server does with it: "takes", "refuses", "crashes" or "loses"         *)
(*   status    of its response (0: the request failed)                                        *)
(*   main      the submission is a navigation, not a call of a script                         *)
(*   tells     it shows a message; moves: it changes the URL; resets: it empties the form     *)
(*   strict    an empty form is invalid                                                       *)
(*   guards    it ignores the second of two clicks                                            *)
(*   autosave  filling sends a request of its own                                             *)
(*   banner    a standing alert on its pages                                                  *)
(*   resends   the browser's Back sends the submission again                                  *)
Applications ==
    [check : {"native", "inline", "silent", "local", "sends"}, fate : {"takes", "refuses", "crashes", "loses"},
     status : Nat, main : BOOLEAN, tells : BOOLEAN, moves : BOOLEAN, resets : BOOLEAN, strict : BOOLEAN,
     guards : BOOLEAN, autosave : BOOLEAN, banner : BOOLEAN, resends : BOOLEAN]

ASSUME CaseRunAssumption ==
    /\ MaxPolls \in Nat \ {0, 1}
    /\ Cases \subseteq [kind : {"plain", "keyboard", "reload", "double", "back"},
                       expect : {"accept", "reject", "observe"}]
    /\ Apps \subseteq Applications

VARIABLES
    case, app,
    safe,       \* whether the safety gate lets the case run
    pc,
    left,       \* polls left
    reply,      \* the page's last answer to a poll
    last,       \* lastOk of settle()
    phase,
    tab,        \* whether ALT's tab is still there
    page,       \* the document: [loaded, observed, invalid, fieldError, message, reset, moved]
    quiet,      \* it has not changed for QUIET_MS
    open,       \* requests without an end: [n, phase]
    answered,   \* responses the page has not yet shown
    network,    \* recorded events: [n, phase, end, status]
    outcome, status, resent

executorVars == <<case, safe, pc, left, reply, last, phase, outcome, status, resent>>
browserVars == <<app, tab, page, quiet, open, answered, network>>
vars == <<executorVars, browserVars>>

Nothing == [invalid |-> FALSE, fieldError |-> FALSE, error |-> FALSE, success |-> FALSE,
            reset |-> FALSE, moved |-> FALSE, quiet |-> FALSE]

Fresh == [loaded |-> TRUE, observed |-> FALSE, invalid |-> FALSE, fieldError |-> FALSE,
          message |-> "none", reset |-> FALSE, moved |-> FALSE]

-----------------------------------------------------------------------------
(* What is observed. *)

\* snapshot(): messages count when they were not there at observe.begin; in a document without an
\* observation all of them do.
View == [invalid |-> page.observed /\ page.invalid,
         fieldError |-> page.fieldError \/ (page.reset /\ app.strict),
         error |-> page.message = "error" \/ (app.banner /\ ~page.observed),
         success |-> page.message = "success",
         reset |-> page.reset, moved |-> page.moved, quiet |-> quiet]

\* window(): the events that began since then.
Window(from, events) == {e \in events : e.phase >= from}

Pending == open # {}

\* Mutant of Outcome: field errors count although a request was sent.
OutcomeFieldsFirst(v, sent) ==
    IF \E e \in sent : e.status >= 500 THEN "server_error"
    ELSE IF v.invalid \/ v.fieldError THEN "rejected_client"
    ELSE IF \E e \in sent : e.status >= 400 THEN "rejected_server"
    ELSE IF sent # {} \/ v.success \/ v.reset THEN "accepted" ELSE "no_response"

\* classifyOutcome(): v is the page as observed, sent the mutating requests.
Outcome(v, sent) ==
    LET Some(codes) == \E e \in sent : e.status \in codes IN
    IF Some(500..599) THEN "server_error"
    ELSE IF sent = {} /\ (v.invalid \/ v.fieldError) THEN "rejected_client"
    ELSE IF Some(400..499) THEN "rejected_server"
    ELSE IF sent # {} /\ ~Some(200..399) THEN (IF v.error THEN "rejected_server" ELSE "no_response")
    ELSE IF v.error /\ ~v.success THEN (IF sent # {} THEN "rejected_server" ELSE "rejected_client")
    ELSE IF sent # {} THEN (IF v.moved /\ ~v.success THEN "navigated" ELSE "accepted")
    ELSE IF v.success \/ (v.reset /\ ~v.fieldError) THEN "accepted"
    ELSE IF v.moved THEN "navigated" ELSE "no_response"

\* judge().
Verdict(expect, out) ==
    CASE out = "blocked_unsafe" -> "skipped"
      [] out = "server_error" -> "unexpected"
      [] out = "no_response" /\ expect # "observe" -> "inconclusive"
      [] out \notin {"blocked_unsafe", "server_error"} /\ expect = "observe" -> "pass"
      [] expect = "reject" /\ out \notin {"blocked_unsafe", "server_error", "no_response"} ->
            IF out \in {"rejected_client", "rejected_server"} THEN "pass" ELSE "unexpected"
      [] expect = "accept" /\ out \notin {"blocked_unsafe", "server_error", "no_response"} ->
            IF out \in {"accepted", "navigated"} THEN "pass" ELSE "unexpected"

-----------------------------------------------------------------------------
(* The applications that the verdicts are meant for (an assumption on the environment): the status  *)
(* of a response tells its fate, nothing but the submission is sent, no alert stands on the pages,  *)
(* and what a script takes itself leaves a trace that is no invalid field.                          *)

Codes(fate) == CASE fate = "takes" -> 200..399 [] fate = "refuses" -> 400..499
                 [] fate = "crashes" -> 500..599 [] fate = "loses" -> {0}

Honest(a) ==
    /\ ~a.autosave /\ ~a.banner
    /\ a.check = "sends" => a.status \in Codes(a.fate) /\ (a.fate = "loses" => ~a.tells)
    /\ a.check = "local" => a.fate = "takes" /\ ~a.main /\ (a.tells \/ a.resets) /\ ~(a.resets /\ a.strict)
    /\ a.check \in {"native", "inline", "silent"} => a.fate = "refuses"

-----------------------------------------------------------------------------
(* The executor. *)

Ends == {"done", "threw"}

Finish(out, result) == pc' = "done" /\ outcome' = out /\ status' = result
Fail == Finish("no_response", "error")

Init ==
    /\ case \in Cases /\ app \in Apps /\ safe \in BOOLEAN
    /\ pc = "start" /\ left = 0 /\ reply = Nothing /\ last = Nothing /\ phase = 0
    /\ tab = TRUE /\ page = Fresh /\ quiet = FALSE
    /\ open = {} /\ answered = 0 /\ network = {}
    /\ outcome = "none" /\ status = "none" /\ resent = FALSE

\* The safety gate, and a fresh page.  A tab that has gone is either known to be gone, and the case
\* fails, or not, and chrome.tabs.update() rejects.
Load ==
    /\ pc = "start"
    /\ \/ ~safe /\ Finish("blocked_unsafe", Verdict(case.expect, "blocked_unsafe"))
       \/ safe /\ tab /\ pc' = "reveal" /\ UNCHANGED <<outcome, status>>
       \/ safe /\ Fail
       \/ safe /\ ~tab /\ pc' = "threw" /\ UNCHANGED <<outcome, status>>
    /\ UNCHANGED <<case, safe, left, reply, last, phase, resent, browserVars>>

\* The reach steps are replayed and the form is looked for; keyboard_navigation needs no data.
Reveal ==
    /\ pc = "reveal"
    /\ \/ Fail
       \/ tab /\ case.kind = "keyboard" /\ \E result \in {"pass", "unexpected"} : Finish("no_response", result)
       \/ tab /\ case.kind # "keyboard" /\ pc' = "fill" /\ UNCHANGED <<outcome, status>>
    /\ UNCHANGED <<case, safe, left, reply, last, phase, resent, browserVars>>

\* An autosave is sent less than 50 ms before submitAt, or earlier.
Autosave == IF app.autosave THEN {{[n |-> 0, phase |-> p]} : p \in {0, 1}} ELSE {{}}

Fill ==
    /\ pc = "fill"
    /\ \/ Fail /\ UNCHANGED <<page, quiet, open>>
       \/ /\ tab /\ page' = [page EXCEPT !.observed = TRUE] /\ quiet' = FALSE
          /\ \E sent \in Autosave : open' = open \cup sent
          \* The browser changed the value under test.
          /\ \/ case.kind = "plain" /\ Finish("no_response", "skipped")
             \/ pc' = "act" /\ UNCHANGED <<outcome, status>>
    /\ UNCHANGED <<case, safe, left, reply, last, phase, resent, app, tab, answered, network>>

\* settle() begins.
Settling == pc' = "poll" /\ left' = MaxPolls /\ last' = Nothing /\ UNCHANGED <<outcome, status, reply>>

Aborted(requests, end) == {[n |-> r.n, phase |-> r.phase, end |-> end, status |-> 0] : r \in requests}

\* The page shows what became of the submission.
Shown(p) ==
    [p EXCEPT !.message = IF ~app.tells THEN @ ELSE IF app.fate = "takes" THEN "success" ELSE "error",
              !.moved = app.moves /\ (app.main \/ app.fate = "takes"),
              !.reset = ~app.main /\ app.resets /\ app.fate = "takes",
              !.fieldError = app.main /\ app.fate = "refuses"]

\* ALT clicks, twice for double_submit; of two navigations the second aborts the first.
Clicked ==
    LET clicks == IF case.kind = "double" /\ ~app.guards THEN 1..2 ELSE 1..1
        requests == {[n |-> n, phase |-> 1] : n \in clicks}
        gone == IF app.main THEN {r \in requests : r.n < Cardinality(clicks)} ELSE {}
    IN \/ app.check = "silent" /\ UNCHANGED <<page, open, network>>
       \/ app.check = "native" /\ page' = [page EXCEPT !.invalid = TRUE] /\ UNCHANGED <<open, network>>
       \/ app.check = "inline" /\ page' = [page EXCEPT !.fieldError = TRUE] /\ UNCHANGED <<open, network>>
       \/ app.check = "local" /\ page' = Shown(page) /\ UNCHANGED <<open, network>>
       \/ /\ app.check = "sends" /\ open' = open \cup (requests \ gone)
          /\ network' = network \cup Aborted(gone, 1) /\ UNCHANGED page

Submit ==
    /\ pc = "act" /\ case.kind # "reload" /\ phase' = 1 /\ quiet' = FALSE
    /\ IF tab THEN Clicked ELSE UNCHANGED <<page, open, network>>
    /\ Settling /\ UNCHANGED <<case, safe, resent, app, tab, answered>>

Reload ==
    /\ pc = "act" /\ case.kind = "reload"
    /\ \/ /\ tab /\ phase' = 1 /\ quiet' = FALSE /\ page' = [Fresh EXCEPT !.observed = TRUE]
          /\ open' = {} /\ network' = network \cup Aborted(open, 1) /\ Settling
       \/ ~tab /\ pc' = "threw" /\ UNCHANGED <<phase, quiet, page, open, network, left, last, outcome, status, reply>>
    /\ UNCHANGED <<case, safe, resent, app, tab, answered>>

\* The content script answers; in a document that is still loading, or a tab that has gone, nothing does.
Poll ==
    /\ pc = "poll" /\ left > 0
    /\ IF tab /\ page.loaded THEN reply' = View /\ pc' = "answer" /\ UNCHANGED left
       ELSE left' = left - 1 /\ UNCHANGED <<reply, pc>>
    /\ UNCHANGED <<case, safe, last, phase, outcome, status, resent, browserVars>>

\* What the executor makes of the page as it was last seen.
Conclude(v) ==
    LET sent == Window(1, network)
        out == Outcome(v, sent)
        taken == {e \in sent : e.n > 0 /\ e.status \in 200..399}
        again == Window(2, network) # {}
    IN \/ /\ case.kind = "reload" /\ UNCHANGED resent
          /\ Finish("no_response", Verdict(case.expect, "no_response"))
       \/ /\ case.kind = "double" /\ UNCHANGED resent
          /\ Finish(out, IF Cardinality(taken) > 1 \/ out = "server_error" THEN "unexpected" ELSE "pass")
       \/ /\ case.kind = "back" /\ phase = 1 /\ UNCHANGED <<status, resent>>
          /\ pc' = "back" /\ outcome' = out
       \/ /\ case.kind = "back" /\ phase = 2 /\ resent' = again
          /\ Finish(outcome, IF again \/ outcome = "server_error" THEN "unexpected" ELSE "pass")
       \/ /\ case.kind = "plain" /\ UNCHANGED resent
          /\ Finish(out, Verdict(case.expect, out))

\* Mutant of Answer: polls until the page is quiet, however long that takes.
AnswerPatiently ==
    /\ pc = "answer" /\ last' = reply
    /\ IF reply.quiet /\ ~Pending /\ left < MaxPolls
       THEN Conclude(reply) /\ UNCHANGED left
       ELSE left' = (IF left = MaxPolls THEN left - 1 ELSE left) /\ pc' = "poll"
              /\ UNCHANGED <<outcome, status, resent>>
    /\ UNCHANGED <<case, safe, reply, phase, browserVars>>

\* The answer has come, and is held against the requests that are pending by now: the page has settled,
\* or it was the last poll.
Answer ==
    /\ pc = "answer" /\ last' = reply
    /\ IF (reply.quiet /\ ~Pending /\ left < MaxPolls) \/ left = 1
       THEN Conclude(reply) /\ UNCHANGED left
       ELSE left' = left - 1 /\ pc' = "poll" /\ UNCHANGED <<outcome, status, resent>>
    /\ UNCHANGED <<case, safe, reply, phase, browserVars>>

\* MAX_SETTLE_MS are over while no document answers.
TimeUp ==
    /\ pc = "poll" /\ left = 0 /\ Conclude(last)
    /\ UNCHANGED <<case, safe, left, reply, last, phase, browserVars>>

\* Back leads to another document or, in an application of one document, to another view.
Back ==
    /\ pc = "back" /\ phase' = 2 /\ quiet' = FALSE
    /\ \/ ~tab /\ UNCHANGED <<page, open, network>>
       \/ /\ tab /\ page' = [Fresh EXCEPT !.observed = TRUE]
          /\ \E lost \in {{}, open} :
               /\ open' = (open \ lost) \cup (IF app.resends THEN {[n |-> 3, phase |-> 2]} ELSE {})
               /\ network' = network \cup Aborted(lost, 2)
    /\ Settling /\ UNCHANGED <<case, safe, resent, app, tab, answered>>

Execute == Load \/ Reveal \/ Fill \/ Submit \/ Reload \/ Poll \/ Answer \/ TimeUp \/ Back

-----------------------------------------------------------------------------
(* The application and the browser. *)

\* A request ends and is recorded; the page learns of it later, or is replaced.
Respond ==
    \E r \in open :
      LET code == IF r.n = 0 THEN 200 ELSE app.status IN
      /\ open' = open \ {r}
      /\ network' = network \cup {[n |-> r.n, phase |-> r.phase, end |-> phase, status |-> code]}
      /\ page' = IF r.n > 0 /\ app.main THEN [page EXCEPT !.loaded = FALSE] ELSE page
      /\ answered' = IF r.n > 0 /\ ~app.main THEN answered + 1 ELSE answered
      /\ UNCHANGED <<app, tab, quiet, executorVars>>

Show ==
    /\ answered > 0 /\ answered' = answered - 1
    /\ page' = Shown(page) /\ quiet' = FALSE
    /\ UNCHANGED <<app, tab, open, network, executorVars>>

Loaded ==
    /\ ~page.loaded /\ page' = Shown(Fresh) /\ quiet' = FALSE
    /\ UNCHANGED <<app, tab, open, answered, network, executorVars>>

\* Time passes, or something moves.
Stir == quiet' = ~quiet /\ UNCHANGED <<app, tab, page, open, answered, network, executorVars>>

TabCloses ==
    /\ tab /\ tab' = FALSE /\ open' = {} /\ network' = network \cup Aborted(open, phase)
    /\ UNCHANGED <<app, page, quiet, answered, executorVars>>

Happens == pc \notin Ends /\ (Respond \/ Show \/ Loaded \/ Stir \/ TabCloses)

Next == Execute \/ Happens

Spec == Init /\ [][Next]_vars

\* Every wait of the executor has a time limit; the application owes nothing.
FairSpec == Spec /\ WF_vars(Execute)

-----------------------------------------------------------------------------
(* Properties. *)

Outcomes == {"none", "blocked_unsafe", "server_error", "rejected_client", "rejected_server", "accepted",
             "navigated", "no_response"}

\* Every variable keeps the shape the source gives it, and no request has two ends.
TypeOK ==
    /\ pc \in Ends \cup {"start", "reveal", "fill", "act", "poll", "answer", "back"}
    /\ left \in 0..MaxPolls /\ phase \in 0..2 /\ outcome \in Outcomes
    /\ status \in {"none", "pass", "unexpected", "inconclusive", "skipped", "error"}
    /\ (pc = "done") = (status # "none")
    /\ \A e, f \in network : e.n = f.n => e = f
    /\ \A e \in network, r \in open : e.n # r.n

\* Whether the application takes the input.
Takes == app.check = "local" \/ (app.check = "sends" /\ app.fate = "takes")
Submitted == phase = 1 /\ case.kind = "plain" /\ status \notin {"error", "skipped"}

\* "What did the app do with ALT's input, and was that what the case expected?" (outcome.ts), in
\* any interleaving of polls, responses and renderings: a case passes only when the application
\* did what the case expects, is unexpected only when it did not, and is inconclusive only when
\* there was nothing to see, no response had come, or the tab was closed.
VerdictIsRight ==
    pc = "done" /\ Submitted /\ case.expect # "observe" =>
      /\ status = "pass" => app.fate # "crashes" /\ Takes = (case.expect = "accept")
      /\ status = "unexpected" => app.fate = "crashes" \/ Takes # (case.expect = "accept")
      /\ status = "inconclusive" =>
           \/ ~tab \/ app.check = "silent" \/ (app.check = "sends" /\ ~\E e \in network : e.n > 0 /\ e.status > 0)

\* "Browser Back re-sent ... request(s)" is said of requests that Back caused, never of the
\* submission whose response came late.
BackBlamesBack == resent => app.resends

\* A case ends, or is given up, whatever the application and the tab do: "6 s max" of settling.
EveryCaseEnds == <>(pc \in Ends)
=============================================================================
