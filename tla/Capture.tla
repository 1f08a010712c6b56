------------------------------- MODULE Capture -------------------------------
(***************************************************************************)
(* From a developer's submit to the report of what it sent: the page hook  *)
(* (hook/hook-core.ts) watches fetch and XMLHttpRequest and posts a start  *)
(* and an end of each request, in order, to the content script, whose      *)
(* pipeline (content/capture.ts) gathers the requests around a submit and  *)
(* reports them once they have ended and 800 ms have been quiet.           *)
(*                                                                         *)
(* Time is a clock of ticks; a timer fires in the tick that it is due.     *)
(***************************************************************************)
EXTENDS Integers, Sequences, FiniteSetsExt

CONSTANTS
    Forms,      \* the containers a submit may belong to
    Requests,   \* what the page may send: [method, app, how], by fetch of an address, of a Request without a
                \* body ("request") or with one ("body"), or by XMLHttpRequest
    Before, After, GetAfter, Settle, Buffer, Duplicate, \* the windows of capture.ts, in ticks
    Reused,     \* the page sends through one XMLHttpRequest over and over
    Sends, Triggers, Toggles, ActsUntil \* bounds: requests, submits, pauses and resumes, the time of the last

ASSUME CaptureAssumption ==
    /\ \A r \in Requests : r.method \in {"GET", "POST"} /\ r.app \in BOOLEAN /\ r.how \in {"fetch", "request", "body", "xhr"}
    /\ Before \in Nat /\ After \in Nat /\ GetAfter \in Nat /\ Settle \in Nat \ {0} /\ Buffer \in Nat /\ Duplicate \in Nat
    /\ Reused \in BOOLEAN /\ Sends \in Nat /\ Triggers \in Nat /\ Toggles \in Nat /\ ActsUntil \in Nat

VARIABLES
    now,      \* Date.now()
    mode,     \* [hook, pipeline, told, turns]: who is paused, the modes on their way to the hook, and a count
    calls,    \* what the page has called, in order: the request, when, and how far the hook is
    posts,    \* window.postMessage from the hook, on its way
    known,    \* the pipeline's requests: id -> [method, t, end], end the call whose answer it holds or 0
    active,   \* the captures that are open: number -> [t0, form, reqs, last, timer]
    last,     \* lastTrigger, or <<>>
    submits,  \* counts the captures
    report    \* the last report: [of, reqs], or <<>>

captureVars == <<now, mode, calls, posts, known, active, last, submits, report>>

Max2(a, b) == IF a > b THEN a ELSE b
NoTimer == <<>>
TimerAt(time, does) == <<Max2(now, time), does>>

CaptureInit ==
    /\ now = 0 /\ mode = [hook |-> FALSE, pipeline |-> FALSE, told |-> <<>>, turns |-> 0]
    /\ calls = <<>> /\ posts = <<>> /\ known = [id \in {} |-> 0]
    /\ active = [c \in {} |-> 0] /\ last = <<>> /\ submits = 0 /\ report = <<>>

-----------------------------------------------------------------------------
(* The hook, in the page. *)

StartOf(id) == [kind |-> "start", id |-> id, of |-> 0]
EndOf(id, of) == [kind |-> "end", id |-> id, of |-> of]

\* How far the hook gets at once: a Request is read before its start is posted; but the call has used up
\* the body of one that has a body, which cannot be cloned any more, and nothing is ever posted.
Reached(r) == CASE r.how = "request" -> "reading" [] r.how = "body" -> "lost" [] OTHER -> "open"

\* altFetch and XMLHttpRequest.send: a paused hook lets the call through.
Send(r) ==
    /\ Len(calls) < Sends /\ now <= ActsUntil
    /\ IF mode.hook THEN UNCHANGED <<calls, posts>>
       ELSE /\ calls' = Append(calls, [r |-> r, t |-> now, at |-> Reached(r), answered |-> FALSE])
            /\ posts' = IF Reached(r) = "open" THEN Append(posts, StartOf(Len(calls) + 1)) ELSE posts
    /\ UNCHANGED <<now, mode, known, active, last, submits, report>>

\* Mutant of EndWaits: the end does not wait for the start.
EndWaitsNot(id) == FALSE

\* started has not resolved: the end of call id waits for its start.
EndWaits(id) == calls[id].at = "reading"

\* What is posted when call id has its answer: nothing until the start has been, and with an
\* XMLHttpRequest the listener of every send so far.
Ends(id) ==
    IF EndWaits(id) \/ calls[id].at = "lost" THEN <<>>
    ELSE IF calls[id].r.how = "xhr" /\ Reused
         THEN LET sent == SelectSeq([i \in 1..id |-> i], LAMBDA i : calls[i].r.how = "xhr")
              IN [i \in DOMAIN sent |-> EndOf(sent[i], id)]
         ELSE <<EndOf(id, id)>>

\* The text of the Request's clone is there: its start, and the end that has waited for it.
BodyRead(id) ==
    /\ calls[id].at = "reading"
    /\ calls' = [calls EXCEPT ![id].at = "open"]
    /\ posts' = posts \o <<StartOf(id)>> \o (IF EndWaits(id) /\ calls[id].answered THEN <<EndOf(id, id)>> ELSE <<>>)
    /\ UNCHANGED <<now, mode, known, active, last, submits, report>>

\* The response and what readResponse reads of it, or a network error. open() drops an earlier send.
Responds(id) ==
    /\ ~calls[id].answered
    /\ ~(Reused /\ calls[id].r.how = "xhr" /\ \E i \in id + 1..Len(calls) : calls[i].r.how = "xhr")
    /\ calls' = [calls EXCEPT ![id].answered = TRUE]
    /\ posts' = posts \o Ends(id)
    /\ UNCHANGED <<now, mode, known, active, last, submits, report>>

\* Whoever runs the pipeline pauses or resumes it, and posts the mode to the page.
SetMode ==
    /\ mode.turns < Toggles
    /\ mode' = [mode EXCEPT !.pipeline = ~@, !.told = Append(@, ~mode.pipeline), !.turns = @ + 1]
    /\ UNCHANGED <<now, calls, posts, known, active, last, submits, report>>

\* onMessage of the hook.
HearMode ==
    /\ mode.told # <<>>
    /\ mode' = [mode EXCEPT !.hook = Head(mode.told), !.told = Tail(@)]
    /\ UNCHANGED <<now, calls, posts, known, active, last, submits, report>>

-----------------------------------------------------------------------------
(* The pipeline, in the content script. *)

Belongs(c, r) ==
    LET dt == r.t - c.t0
    IN /\ dt >= -Before /\ dt <= After
       /\ r.method = "GET" => dt >= 0 /\ dt <= GetAfter

\* schedule: an unanswered request leaves the capture to its end.
Scheduled(c, table) ==
    LET reqs == c.reqs \cap DOMAIN table
    IN [c EXCEPT !.timer = IF reqs = {} THEN TimerAt(c.t0 + After, "window")
                           ELSE IF \E id \in reqs : table[id].end = 0 THEN NoTimer
                           ELSE TimerAt(c.last + Settle, "finish")]

\* trigger: the requests that are known already may belong to it.
Trigger(form) ==
    /\ submits < Triggers /\ now <= ActsUntil /\ ~mode.pipeline
    /\ ~(last # <<>> /\ last[1] = form /\ now - last[2] < Duplicate)
    /\ LET c == [t0 |-> now, form |-> form, reqs |-> {}, last |-> now, timer |-> NoTimer]
           own == {id \in DOMAIN known : Belongs(c, known[id])}
       IN active' = [n \in DOMAIN active \cup {submits + 1} |->
                        IF n = submits + 1 THEN Scheduled([c EXCEPT !.reqs = own], known) ELSE active[n]]
    /\ last' = <<form, now>> /\ submits' = submits + 1
    /\ UNCHANGED <<now, mode, calls, posts, known, report>>

\* prune: old requests go unless an open capture has them.
Pruned(table) ==
    LET held == {i \in DOMAIN table : \E n \in DOMAIN active : i \in active[n].reqs}
    IN [id \in {i \in DOMAIN table : table[i].t >= now - Buffer} \cup held |-> table[id]]

\* Mutant of Touched: the timer that runs is left alone.
TouchedOnly(c, table) == [c EXCEPT !.last = Max2(@, now)]

\* A capture one of whose requests has started or ended.
Touched(c, table) == Scheduled([c EXCEPT !.last = Max2(@, now)], table)

\* onReqStart, of the requests that filter.ts takes for the application's.
OnReqStart(id) ==
    IF ~calls[id].r.app THEN UNCHANGED <<known, active>>
    ELSE LET request == [method |-> calls[id].r.method, t |-> calls[id].t, end |-> 0]
             table == [i \in DOMAIN known \cup {id} |-> IF i = id THEN request ELSE known[i]]
         IN /\ known' = Pruned(table)
            /\ active' = [n \in DOMAIN active |->
                            IF Belongs(active[n], request)
                            THEN Touched([active[n] EXCEPT !.reqs = @ \cup {id}], known') ELSE active[n]]

\* onReqEnd.
OnReqEnd(id, of) ==
    IF id \notin DOMAIN known THEN UNCHANGED <<known, active>>
    ELSE /\ known' = [known EXCEPT ![id].end = of]
         /\ active' = [n \in DOMAIN active |-> IF id \in active[n].reqs THEN Touched(active[n], known') ELSE active[n]]

Deliver ==
    /\ posts # <<>> /\ posts' = Tail(posts)
    /\ LET m == Head(posts) IN IF m.kind = "start" THEN OnReqStart(m.id) ELSE OnReqEnd(m.id, m.of)
    /\ UNCHANGED <<now, mode, calls, last, submits, report>>

Without(n) == [k \in DOMAIN active \ {n} |-> active[k]]
Due(n) == active[n].timer # NoTimer /\ active[n].timer[1] <= now

\* The correlation window of capture n is over.
WindowEnds(n) ==
    /\ Due(n) /\ active[n].timer[2] = "window"
    /\ active' = IF active[n].reqs # {} THEN [active EXCEPT ![n] = Scheduled(@, known)] ELSE Without(n)
    /\ UNCHANGED <<now, mode, calls, posts, known, last, submits, report>>

\* finish.
Finish(n) ==
    /\ Due(n) /\ active[n].timer[2] = "finish"
    /\ active' = Without(n)
    /\ report' = IF mode.pipeline \/ active[n].reqs \cap DOMAIN known = {} THEN report
                 ELSE [of |-> active[n], reqs |-> [id \in active[n].reqs \cap DOMAIN known |-> known[id].end]]
    /\ UNCHANGED <<now, mode, calls, posts, known, last, submits>>

\* The hook has not posted the start of call id, or the content script has not got it.
Underway(id) == calls[id].at = "reading" \/ \E i \in DOMAIN posts : posts[i] = StartOf(id)

\* The clock runs while the page acts or a timer runs. Assumed: a start takes no longer than Buffer.
Tick ==
    /\ now < ActsUntil \/ \E n \in DOMAIN active : active[n].timer # NoTimer
    /\ ~\E n \in DOMAIN active : Due(n)
    /\ \A id \in DOMAIN calls : Underway(id) => now - calls[id].t < Buffer
    /\ now' = now + 1
    /\ UNCHANGED <<mode, calls, posts, known, active, last, submits, report>>

-----------------------------------------------------------------------------
CaptureNext ==
    \/ \E r \in Requests : Send(r)
    \/ \E id \in DOMAIN calls : BodyRead(id)
    \/ \E id \in DOMAIN calls : Responds(id)
    \/ SetMode
    \/ HearMode
    \/ \E form \in Forms : Trigger(form)
    \/ Deliver
    \/ \E n \in DOMAIN active : WindowEnds(n)
    \/ \E n \in DOMAIN active : Finish(n)
    \/ Tick

\* Messages and timers come, bodies can be read, and the application answers every request.
CaptureFairness ==
    /\ WF_captureVars(Deliver) /\ WF_captureVars(Tick)
    /\ WF_captureVars(\E n \in DOMAIN active : WindowEnds(n)) /\ WF_captureVars(\E n \in DOMAIN active : Finish(n))
    /\ WF_captureVars(\E id \in DOMAIN calls : BodyRead(id)) /\ WF_captureVars(\E id \in DOMAIN calls : Responds(id))

-----------------------------------------------------------------------------
(* What makes a report a true one. *)

\* A report holds every request around its submit that the content script had heard of by then, each
\* with an answer, and with its own (capture.ts "Correlates a developer's submit with the requests it
\* caused"), however starts and ends of overlapping requests and submits fall.
ReportsAreTrue ==
    [][report' # report =>
        /\ \A id \in DOMAIN report'.reqs : report'.reqs[id] = id
        /\ \A id \in DOMAIN known : calls[id].r.method = "POST" /\ calls[id].t \in report'.of.t0 - Before..report'.of.t0 + After
              => id \in DOMAIN report'.reqs]_captureVars

\* "Request objects: read a clone's body; the original still goes to the page untouched" (hook-core.ts:141):
\* a report holds every request around its submit that has its answer, when no message of the hook is on
\* its way. Violated by a Request with a body, which fetch has used up before the hook clones it.
CallsAreCaught ==
    [][report' # report /\ posts = <<>> =>
        \A id \in DOMAIN calls :
            /\ calls[id].r.method = "POST" /\ calls[id].r.app /\ calls[id].answered /\ calls[id].at # "reading"
            /\ calls[id].t \in report'.of.t0 - Before..report'.of.t0 + After
            => id \in DOMAIN report'.reqs]_captureVars

\* When the application answers, every capture is reported or dropped: none waits for a start or an
\* end that has gone by (hook-core.ts: the end waits for the start; capture.ts "an end will reschedule").
EveryCaptureEnds == active # <<>> ~> active = <<>>
==============================================================================
