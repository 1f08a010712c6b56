-------------------------------- MODULE QARun --------------------------------
(***************************************************************************)
(* A run of the live QA agent from inside: the Computer Use loop           *)
(* (qa_agent/agent.py), its guards (guards.py), the conversation with the  *)
(* model (services/gemini/computer_use.py) and the browser on its own      *)
(* thread (browser.py, executor.py).  QAManager models which runs there    *)
(* are; here they come one after the other and share one Chromium.         *)
(*                                                                         *)
(* A cancelled await ends at once on the API's loop, while the browser     *)
(* thread hears of it later: what it was doing may still be done.          *)
(***************************************************************************)
EXTENDS Naturals, Sequences, FiniteSets, SequencesExt

CONSTANTS
    Replies,  \* the calls a reply of the model may hold, in order (without one it is a report)
    MaxSteps, \* guards.max_steps
    Keep,     \* keep_screenshots
    MaxRuns,  \* bound: runs
    Launches, \* bound: starts of Chromium
    Cancels   \* bound: cancellations by stop or save

\* What check_action and the executor tell apart in a call, and its safety decision.
CallKinds == {"fine", "odd", "offsite", "long", "secret"}
Decisions == {"none", "regular", "require_confirmation"}
Call == [kind : CallKinds, decision : Decisions]

ASSUME QARunAssumption ==
    /\ Replies \subseteq Seq(Call) \ {<<>>} /\ MaxSteps \in Nat /\ Keep \in Nat \ {0}
    /\ MaxRuns \in Nat /\ Launches \in Nat /\ Cancels \in Nat

VARIABLES
    run, pc, steps,   \* the run, where its task is, and its steps
    cancels,          \* cancellations so far
    cancelled,        \* the task was cancelled and has not noticed
    history,          \* the conversation: model turns hold calls, user turns what was done
    calls, outcomes,  \* of the reply at hand: calls left, and what became of the others
    status,           \* the status the run reported, "running" before
    contexts,         \* the open browser contexts, each of a run in a Chromium
    launched, procs, browser, \* Chromiums started, those that run, the one the session knows (0: none)
    lock, preflight,  \* the holder of the session's lock; a request's preflight
    cut,              \* observed: runs cancelled while they opened or closed their page
    failed            \* observed: runs whose page Chromium failed to open or to close

talk == <<steps, history, calls, outcomes, status>>
chromium == <<contexts, launched, procs, browser, failed>>
vars == <<run, pc, cancels, cancelled, talk, chromium, lock, preflight, cut>>

Shot(error) == [shot |-> TRUE, error |-> error]
Blocked == [shot |-> FALSE, error |-> TRUE]
Turn(role, parts) == [role |-> role, parts |-> parts]

Init ==
    /\ run = 0 /\ pc = "ended" /\ cancels = 0 /\ cancelled = FALSE
    /\ steps = 0 /\ history = <<>> /\ calls = <<>> /\ outcomes = <<>> /\ status = "running"
    /\ contexts = {} /\ launched = 0 /\ procs = {} /\ browser = 0 /\ lock = "free" /\ preflight = "idle"
    /\ cut = {} /\ failed = {}

At(step) == pc = step /\ ~cancelled
Goto(step) == pc' = step /\ UNCHANGED <<run, cancels, cancelled, cut>>

-----------------------------------------------------------------------------
(* Chromium: one warm instance, started by whoever needs it first. *)

Begins ==
    /\ pc = "ended" /\ run < MaxRuns
    /\ run' = run + 1 /\ pc' = "needs" /\ cancelled' = FALSE
    /\ steps' = 0 /\ history' = <<>> /\ calls' = <<>> /\ outcomes' = <<>> /\ status' = "running"
    /\ UNCHANGED <<cancels, chromium, lock, preflight, cut>>

\* Mutant of Free: nobody waits for the lock.
FreeAlways == TRUE

Free == lock = "free"

\* is_connected().
Connected == browser \in procs

\* ensure_started of the run, then its context is opened.
RunEnsures ==
    /\ At("needs") /\ Free
    /\ IF Connected THEN Goto("opening") /\ UNCHANGED lock
       ELSE Goto("launching") /\ lock' = "run"
    /\ UNCHANGED <<talk, chromium, preflight>>

\* ensure_started of a request, before its run is created.
PreflightEnsures ==
    /\ preflight = "idle" /\ Free /\ ~Connected
    /\ preflight' = "launching" /\ lock' = "preflight"
    /\ UNCHANGED <<run, pc, cancels, cancelled, talk, chromium, cut>>

\* _launch: a new process, which the session knows from now on.
Launch ==
    /\ launched < Launches /\ launched' = launched + 1
    /\ procs' = procs \cup {launched'} /\ browser' = launched'
    /\ UNCHANGED <<contexts, failed>>

RunLaunches ==
    /\ At("launching") /\ lock' = "free"
    /\ \/ Launch /\ Goto("opening") /\ UNCHANGED status
       \/ Goto("ended") /\ status' = "error" /\ UNCHANGED chromium
    /\ UNCHANGED <<steps, history, calls, outcomes, preflight>>

PreflightLaunches ==
    /\ preflight = "launching" /\ preflight' = "idle" /\ lock' = "free"
    /\ Launch \/ UNCHANGED chromium
    /\ UNCHANGED <<run, pc, cancels, cancelled, talk, cut>>

Own == <<run, browser>>

\* _new_run: a context of its own for the run, in the browser the session knows, with a route and a
\* page in it.
Opens ==
    /\ At("opening") /\ Connected
    /\ contexts' = contexts \cup {Own} /\ Goto("going")
    /\ UNCHANGED <<talk, launched, procs, browser, failed, lock, preflight>>

\* _new_run raises: before there is a context, or after it, which then nobody closes.
OpenFails ==
    /\ At("opening") /\ Goto("ended") /\ status' = "error"
    /\ \/ UNCHANGED <<contexts, failed>>
       \/ Connected /\ contexts' = contexts \cup {Own} /\ failed' = failed \cup {run}
    /\ UNCHANGED <<steps, history, calls, outcomes, launched, procs, browser, lock, preflight>>

\* Chromium dies, with every context in it.
ChromiumDies ==
    /\ Connected /\ launched < Launches
    /\ procs' = procs \ {browser} /\ contexts' = {c \in contexts : c[2] # browser}
    /\ UNCHANGED <<run, pc, cancels, cancelled, talk, launched, browser, failed, lock, preflight, cut>>

-----------------------------------------------------------------------------
(* The conversation. *)

\* parse_reply: the last decision among the calls of a reply.
SafetyOf(reply) ==
    LET decided == SelectSeq(reply, LAMBDA c : c.decision # "none")
    IN  IF decided = <<>> THEN "none" ELSE Last(decided).decision

\* The screenshots in the user turns newer than turn i, and in turn i after its part k.
ShotsAfter(turns, i, k) ==
    LET Of(j) == {m \in DOMAIN turns[j].parts : turns[j].parts[m].shot /\ (j > i \/ (j = i /\ m > k))}
    IN  UNION {{j} \X Of(j) : j \in {j \in DOMAIN turns : turns[j].role = "user"}}

\* prune_screenshots: only the newest Keep images stay, everything else does.
Pruned(turns) ==
    [i \in DOMAIN turns |->
        IF turns[i].role = "model" THEN turns[i]
        ELSE Turn("user", [k \in DOMAIN turns[i].parts |->
                 [turns[i].parts[k] EXCEPT !.shot = @ /\ Cardinality(ShotsAfter(turns, i, k)) < Keep]])]

\* session.next: the outcomes, if any, are a user turn of their own.
Asked(turns, done) == Pruned(IF done = <<>> THEN turns ELSE Append(turns, Turn("user", done)))

\* The start URL is shown, run_started is emitted and the model is asked for the first time.
Started ==
    /\ At("going") /\ Goto("asking")
    /\ history' = Asked(<<Turn("user", <<Shot(FALSE)>>)>>, <<>>)
    /\ UNCHANGED <<steps, calls, outcomes, status, chromium, lock, preflight>>

\* finish(): the status and the done event; then the page is closed.
Finish(s) == status' = s /\ Goto("closing") /\ UNCHANGED <<outcomes, chromium, lock, preflight>>

\* The model's report, which parse_report may not understand.
Reports ==
    /\ At("asking")
    /\ \E s \in {"bug_found", "passed", "inconclusive"} : Finish(s)
    /\ history' = Append(history, Turn("model", <<>>))
    /\ UNCHANGED <<steps, calls>>

\* The model asks for calls; a decision that needs a human ends the run.
Calls ==
    /\ At("asking")
    /\ \E reply \in Replies :
         /\ history' = Append(history, Turn("model", reply))
         /\ IF SafetyOf(reply) = "require_confirmation"
            THEN Finish("needs_confirmation") /\ UNCHANGED calls
            ELSE /\ calls' = reply /\ outcomes' = <<>> /\ Goto("turn")
                 /\ UNCHANGED <<status, chromium, lock, preflight>>
    /\ UNCHANGED steps

\* An error of the provider: refused, empty, unavailable, rate limited.
ModelFails ==
    /\ At("asking") /\ Finish("error")
    /\ UNCHANGED <<steps, history, calls>>

-----------------------------------------------------------------------------
(* The calls of a reply, one after the other. *)

\* check_action.
Check(call) ==
    CASE call.kind = "secret" -> "stop"
      [] call.kind \in {"offsite", "long"} -> "block"
      [] OTHER -> "allow"

StepLimitReached == steps >= MaxSteps

\* Mutant of OutcomeOfBlocked: a blocked call is not answered.
OutcomeOfBlockedNone == outcomes

\* The model is told that its call was blocked by policy.
OutcomeOfBlocked == Append(outcomes, Blocked)

CallLimited ==
    /\ At("turn") /\ calls # <<>> /\ StepLimitReached
    /\ Finish("inconclusive") /\ UNCHANGED <<steps, history, calls>>

CallStops ==
    /\ At("turn") /\ calls # <<>> /\ ~StepLimitReached /\ Check(Head(calls)) = "stop"
    /\ steps' = steps + 1 /\ Finish("blocked") /\ UNCHANGED <<history, calls>>

CallBlocked ==
    /\ At("turn") /\ calls # <<>> /\ ~StepLimitReached /\ Check(Head(calls)) = "block"
    /\ steps' = steps + 1 /\ calls' = Tail(calls) /\ outcomes' = OutcomeOfBlocked
    /\ UNCHANGED <<run, pc, cancels, cancelled, cut, history, status, chromium, lock, preflight>>

CallActs ==
    /\ At("turn") /\ calls # <<>> /\ ~StepLimitReached /\ Check(Head(calls)) = "allow"
    /\ steps' = steps + 1 /\ Goto("acting")
    /\ UNCHANGED <<history, calls, outcomes, status, chromium, lock, preflight>>

\* execute() never raises for a bad call; then the page is shot.
Acted ==
    /\ At("acting") /\ Connected /\ Goto("turn")
    /\ outcomes' = Append(outcomes, Shot(Head(calls).kind = "odd")) /\ calls' = Tail(calls)
    /\ UNCHANGED <<steps, history, status, chromium, lock, preflight>>

\* The page cannot be loaded or shot: no AppError, _run reports the crash after the page is closed.
PageFails ==
    /\ pc \in {"going", "acting"} /\ ~cancelled /\ Finish("error")
    /\ UNCHANGED <<steps, history, calls>>

TurnDone ==
    /\ At("turn") /\ calls = <<>> /\ Goto("asking")
    /\ history' = Asked(history, outcomes) /\ outcomes' = <<>>
    /\ UNCHANGED <<steps, calls, status, chromium, lock, preflight>>

-----------------------------------------------------------------------------
(* Ends: the timeout, cancellation, and the page's close. *)

\* Mutant of Timed: the clock runs while the browser works only.
TimedActing == {"going", "acting"}

\* What asyncio.timeout covers.
Timed == {"going", "asking", "acting"}

TimesOut ==
    /\ pc \in Timed /\ ~cancelled /\ Finish("inconclusive")
    /\ UNCHANGED <<steps, history, calls>>

\* task.cancel(), by a stop or a save: the task is at an await, never between its calls.
IsCancelled ==
    /\ pc \notin {"ended", "turn"} /\ ~cancelled /\ cancels < Cancels
    /\ cancelled' = TRUE /\ cancels' = cancels + 1
    /\ UNCHANGED <<run, pc, talk, chromium, lock, preflight, cut>>

\* While the page opens: the task ends at once, and the browser thread finishes or does not.
CutOpening ==
    /\ cancelled /\ pc \in {"needs", "launching", "opening"} /\ pc' = "ended"
    /\ lock' = IF pc = "launching" THEN "free" ELSE lock
    /\ cut' = IF pc = "needs" THEN cut ELSE cut \cup {run}
    /\ \/ UNCHANGED chromium
       \/ pc = "launching" /\ launched < Launches /\ launched' = launched + 1
          /\ procs' = procs \cup {launched'} /\ browser' \in {browser, launched'}
          /\ UNCHANGED <<contexts, failed>>
       \/ pc = "opening" /\ Connected /\ contexts' = contexts \cup {Own}
          /\ UNCHANGED <<launched, procs, browser, failed>>
    /\ UNCHANGED <<run, cancels, cancelled, talk, preflight>>

\* At any other await: finish("stopped"), and the page is closed on the way out.
CutWorking ==
    /\ cancelled /\ pc \in {"going", "asking", "acting"}
    /\ status' = "stopped" /\ pc' = "closing" /\ cancelled' = FALSE
    /\ UNCHANGED <<run, cancels, steps, history, calls, outcomes, chromium, lock, preflight, cut>>

\* The context's close.
Closed == {c \in contexts : c[1] # run}

\* Mutant of Closes: the run ends without close().
ClosesNot ==
    /\ At("closing") /\ Goto("ended")
    /\ UNCHANGED <<talk, chromium, lock, preflight>>

\* close() swallows the failure of the context's, which then stays open.
Closes ==
    /\ At("closing") /\ Goto("ended")
    /\ \/ contexts' = Closed /\ UNCHANGED failed
       \/ failed' = failed \cup {run} /\ UNCHANGED contexts
    /\ UNCHANGED <<talk, launched, procs, browser, lock, preflight>>

\* While the page closes: the finally's await ends too.
CutClosing ==
    /\ cancelled /\ pc = "closing" /\ pc' = "ended"
    /\ cut' = cut \cup {run}
    /\ contexts' \in {contexts, Closed}
    /\ UNCHANGED <<run, cancels, cancelled, talk, launched, procs, browser, failed, lock, preflight>>

OpenStep == Begins \/ RunEnsures \/ PreflightEnsures \/ RunLaunches \/ PreflightLaunches \/ Opens
            \/ OpenFails \/ ChromiumDies
TalkStep == Started \/ Reports \/ Calls \/ ModelFails
CallStep == CallLimited \/ CallStops \/ CallBlocked \/ CallActs \/ Acted \/ PageFails \/ TurnDone
EndStep == TimesOut \/ IsCancelled \/ CutOpening \/ CutWorking \/ Closes \/ CutClosing
Next == OpenStep \/ TalkStep \/ CallStep \/ EndStep

\* Timers fire, coroutines go on and Chromium answers or fails; the model may never answer.
Fairness ==
    /\ SF_vars(RunEnsures) /\ WF_vars(RunLaunches) /\ WF_vars(PreflightLaunches)
    /\ WF_vars(Opens \/ OpenFails) /\ WF_vars(TimesOut)
    /\ WF_vars(CallLimited \/ CallStops \/ CallBlocked \/ CallActs \/ TurnDone)
    /\ WF_vars(CutOpening \/ CutWorking \/ CutClosing) /\ WF_vars(Closes)

Spec == Init /\ [][Next]_vars
FairSpec == Spec /\ Fairness

-----------------------------------------------------------------------------
(* What is claimed. *)

\* "a fresh BrowserContext (no cookies/storage carried over)" and "One warm Chromium shared by runs"
\* (browser.py:8, 38): a Chromium outlives its session only when a run was cancelled while its page
\* opened, and a context its run only when that run was cancelled while its page opened or closed, or
\* Chromium failed just then.
NothingLeaks ==
    /\ \A c \in contexts : c[1] \in cut \cup failed \/ (c[1] = run /\ pc \notin {"ended", "needs"})
    /\ Cardinality(procs \ {browser}) <= Cardinality(cut)

\* What the user's turns hold of the calls before them: one answer for each, at its place.
EachCallAnswered ==
    /\ \A i \in DOMAIN history :
          history[i].role = (IF i % 2 = 1 THEN "user" ELSE "model")
    /\ \A i \in DOMAIN history : history[i].role = "model" =>
          /\ i < Len(history) /\ Len(history[i + 1].parts) = Len(history[i].parts)
          /\ \A k \in DOMAIN history[i].parts :
                history[i + 1].parts[k].error = (history[i].parts[k].kind # "fine")

\* A screenshot was taken for part k of turn i: of the start page, and after every action.
Taken(turns, i, k) == turns[i].role = "user" /\ (i > 1 => Check(turns[i - 1].parts[k]) = "allow")
TakenAfter(turns, i, k) ==
    LET Of(j) == {m \in DOMAIN turns[j].parts : Taken(turns, j, m) /\ (j > i \/ (j = i /\ m > k))}
    IN  UNION {{j} \X Of(j) : j \in DOMAIN turns}

\* The newest Keep screenshots go along, and no others ("all but the newest").
NewestShotsKept ==
    \A i \in DOMAIN history : history[i].role = "user" =>
        \A k \in DOMAIN history[i].parts :
            history[i].parts[k].shot <=> Taken(history, i, k) /\ Cardinality(TakenAfter(history, i, k)) < Keep

\* Whenever the model is asked, each of its calls has one answer, in the next turn and at its place,
\* and the newest Keep screenshots go along, although each asking prunes what an earlier one left.
TurnsMatch == pc = "asking" => EachCallAnswered /\ NewestShotsKept

\* A run ends whatever the model, the page and the callers do.
EveryRunEnds == pc # "ended" ~> pc = "ended"

\* "the run ends, never auto-approved" (guards.py:7): violated, the last decision of a reply hides
\* the others.
NeverAutoApproved ==
    pc = "acting" => \A k \in DOMAIN Last(history).parts :
        Last(history).parts[k].decision # "require_confirmation"
==============================================================================
