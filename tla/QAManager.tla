------------------------------ MODULE QAManager ------------------------------
(***************************************************************************)
(* The live QA agent's run manager (apps/api qa_agent/manager.py), the     *)
(* outer life of a run (qa_agent/agent.py), and the panel that folds the   *)
(* run's events into its state (apps/web lib/qa/use-qa-stream.ts).         *)
(*                                                                         *)
(* Everything runs on one asyncio loop: an action is what a coroutine does *)
(* between two awaits.  start() and stop() await the task they cancel, and *)
(* several of them may wait for the same task; when it ends, its waiters   *)
(* follow one another without anything in between.  A run that is          *)
(* cancelled gets its CancelledError at its next step, wherever it waits.  *)
(***************************************************************************)
EXTENDS Naturals, Sequences, FiniteSets

CONSTANTS
    Requests,   \* bound: calls of the API (start, stop, save hook)
    MaxSteps,   \* guards.max_steps, the actions of a run
    ReplaySize, \* REPLAY_EVENTS
    QueueSize,  \* QUEUE_SIZE, the events a slow panel may be behind
    Connects    \* bound: connections of the panel to the event stream

ASSUME QAManagerAssumption ==
    /\ Requests \in Nat /\ MaxSteps \in Nat /\ Connects \in Nat
    /\ ReplaySize \in Nat \ {0} /\ QueueSize \in Nat /\ QueueSize >= ReplaySize

VARIABLES
    requests,            \* calls so far
    phase, steps,        \* of each run: where its task is, and its actions
    cancelled,           \* the runs whose task was cancelled and has not noticed
    disturbed,           \* observed: the runs ever cancelled
    slot,                \* _task and _current: the run started last (0: none)
    debounce,            \* _debounce: the call whose later() is not done (0: none)
    waiting,             \* of each call: the run whose end its coroutine awaits (0: none), and its turn
    replay,              \* _replay
    conn, queue, panel,  \* the panel: connections left, its queue of events, its state
    reports, verdicts,   \* observed: done events per run; runs that gave a verdict
    outdated, dropped,   \* observed: the runs started before the last save; an event was dropped
    orphans              \* observed: runs in whose place another start put its own while they were alive

runVars == <<phase, steps, cancelled, disturbed, reports, verdicts>>
streamVars == <<replay, queue, dropped>>
panelVars == <<conn, panel>>
callVars == <<requests, slot, debounce, waiting, outdated, orphans>>
vars == <<runVars, streamVars, panelVars, callVars>>

Runs == 1..Requests  \* a run has the number of the call that begins it
None == 0
NotWaiting == [on |-> None, kind |-> "start", turn |-> 0, beside |-> {}]

NoPanel == [run |-> None, shown |-> {}, report |-> None]

Init ==
    /\ requests = 0 /\ slot = None /\ debounce = None /\ outdated = {} /\ orphans = {}
    /\ waiting = [n \in Runs |-> NotWaiting]
    /\ phase = [r \in Runs |-> "none"] /\ steps = [r \in Runs |-> 0]
    /\ cancelled = {} /\ disturbed = {} /\ reports = [r \in Runs |-> 0] /\ verdicts = {}
    /\ replay = <<>> /\ queue = <<>> /\ dropped = FALSE
    /\ conn = [left |-> Connects, open |-> FALSE] /\ panel = NoPanel

Active == {r \in Runs : phase[r] \notin {"none", "ended"}}

-----------------------------------------------------------------------------
(* Events. *)

\* The last n elements: a full deque or queue drops its oldest.
Newest(s, n) == SubSeq(s, IF Len(s) > n THEN Len(s) - n + 1 ELSE 1, Len(s))

\* emit(): to the replay buffer and to the panel, if it is connected.
Emit(frames) ==
    /\ replay' = Newest(replay \o frames, ReplaySize)
    /\ queue' = IF conn.open THEN Newest(queue \o frames, QueueSize) ELSE queue
    /\ dropped' = (dropped \/ (conn.open /\ Len(queue \o frames) > QueueSize))

Frame(r, kind) == [run |-> r, kind |-> kind]

\* The done event of run r (error and interrupt events, which come with it, are left out).
Report(r, stopped) ==
    /\ Emit(<<Frame(r, "done")>>)
    /\ reports' = [reports EXCEPT ![r] = @ + 1]
    /\ verdicts' = IF stopped THEN verdicts ELSE verdicts \cup {r}

-----------------------------------------------------------------------------
(* A run's task: created, opening its page, loading the start URL, acting, closing its page, ended. *)

Move(r, to) == phase' = [phase EXCEPT ![r] = to]
At(r, phases) == phase[r] \in phases /\ r \notin cancelled

BodyStarts(r) ==
    /\ At(r, {"created"}) /\ Move(r, "opening")
    /\ UNCHANGED <<steps, cancelled, disturbed, reports, verdicts, streamVars, panelVars, callVars>>

PageOpens(r) ==
    /\ At(r, {"opening"}) /\ Move(r, "loading")
    /\ UNCHANGED <<steps, cancelled, disturbed, reports, verdicts, streamVars, panelVars, callVars>>

RunStarted(r) ==
    /\ At(r, {"loading"}) /\ Move(r, "acting")
    /\ Emit(<<Frame(r, "run_started")>>)
    /\ UNCHANGED <<steps, cancelled, disturbed, reports, verdicts, panelVars, callVars>>

\* An action, allowed or blocked.
Step(r) ==
    /\ At(r, {"acting"}) /\ steps[r] < MaxSteps
    /\ steps' = [steps EXCEPT ![r] = @ + 1]
    /\ Emit(<<Frame(r, "step")>>)
    /\ UNCHANGED <<phase, cancelled, disturbed, reports, verdicts, panelVars, callVars>>

\* A verdict, a limit, the time-out, a refusal or an error of the model.
Finish(r) ==
    /\ At(r, {"loading", "acting"}) /\ Move(r, "closing")
    /\ Report(r, FALSE)
    /\ UNCHANGED <<steps, cancelled, disturbed, panelVars, callVars>>

\* Any other exception closes the page first; _run reports it.
Crash(r) ==
    /\ At(r, {"loading", "acting"}) /\ Move(r, "crashing")
    /\ UNCHANGED <<steps, cancelled, disturbed, reports, verdicts, streamVars, panelVars, callVars>>

\* Mutant of CrashReported: the exception ends the task silently.
CrashUnreported(r) ==
    /\ At(r, {"opening", "crashing"}) /\ Move(r, "ended")
    /\ UNCHANGED <<steps, cancelled, disturbed, reports, verdicts, streamVars, panelVars, callVars>>

CrashReported(r) ==
    /\ At(r, {"opening", "crashing"}) /\ Move(r, "ended")
    /\ Report(r, FALSE)
    /\ UNCHANGED <<steps, cancelled, disturbed, panelVars, callVars>>

PageClosed(r) ==
    /\ At(r, {"closing"}) /\ Move(r, "ended")
    /\ UNCHANGED <<steps, cancelled, disturbed, reports, verdicts, streamVars, panelVars, callVars>>

\* The CancelledError: only run_qa answers it with a report.  While the page opens or closes, or
\* before the body has started, it just ends the task.
Cancelled(r) ==
    /\ r \in cancelled /\ cancelled' = cancelled \ {r}
    /\ IF phase[r] \in {"loading", "acting"}
       THEN Move(r, "closing") /\ Report(r, TRUE)
       ELSE Move(r, "ended") /\ UNCHANGED <<reports, verdicts, streamVars>>
    /\ UNCHANGED <<steps, disturbed, panelVars, callVars>>

-----------------------------------------------------------------------------
(* Calls. *)

Call == requests < Requests /\ requests' = requests + 1

\* task.cancel() for those of runs rs that are not done.
Cancel(rs) ==
    /\ cancelled' = cancelled \cup (rs \cap Active)
    /\ disturbed' = disturbed \cup (rs \cap Active)

Waiters(r) == {n \in Runs : waiting[n].on = r}
Going == {n \in Runs : waiting[n].on # None}

\* Call n awaits the end of the slot's run, after those that do so already.  Of a stop it is
\* observed which calls were waiting when it came.
Await(n, kind) ==
    waiting' = [waiting EXCEPT ![n] = [on |-> slot, kind |-> kind, turn |-> Cardinality(Waiters(slot)),
                                       beside |-> IF kind = "stop" THEN Going ELSE {}]]

\* The synchronous rest of start(), after _cancel_run(), of the calls ns, of which n is the last.
Begin(ns, n) ==
    /\ slot' = n /\ phase' = [r \in Runs |-> IF r \in ns THEN "created" ELSE phase[r]]
    /\ debounce' = IF debounce \in ns THEN None ELSE debounce
    /\ replay' = <<>> /\ UNCHANGED <<queue, dropped>>

\* Mutant of StartBy: the run in progress is cancelled, but not awaited.
StartByAtOnce(n) ==
    /\ Cancel({slot}) /\ Begin({n}, n)
    /\ UNCHANGED waiting

\* Mutant of StartBy: a start gives up when a run is in progress.
StartByRefuses(n) ==
    IF slot \in Active
    THEN /\ Cancel({slot})
         /\ debounce' = IF debounce = n THEN None ELSE debounce
         /\ UNCHANGED <<slot, phase, waiting, streamVars>>
    ELSE Begin({n}, n) /\ UNCHANGED <<cancelled, disturbed, waiting>>

\* start() by call n, up to its first await or to its end.
StartBy(n) ==
    IF slot \in Active
    THEN Cancel({slot}) /\ Await(n, "start") /\ UNCHANGED <<slot, debounce, phase, streamVars>>
    ELSE Begin({n}, n) /\ UNCHANGED <<cancelled, disturbed, waiting>>

Start ==
    /\ Call /\ StartBy(requests')
    /\ UNCHANGED <<steps, reports, verdicts, outdated, orphans, panelVars>>

\* _cancel_debounce(): a sleeping later() dies.  One that awaits a run passes the cancellation on
\* to it, and its own start() swallows the CancelledError and goes on.
AwaitedByDebounce == {waiting[n].on : n \in Going \cap {debounce}}

\* schedule_from_save(): the run is cancelled at once, without awaiting it.
Save ==
    /\ Call
    /\ Cancel(AwaitedByDebounce \cup {slot})
    /\ debounce' = requests'
    /\ outdated' = {r \in Runs : phase[r] # "none"}
    /\ UNCHANGED <<phase, steps, reports, verdicts, slot, waiting, orphans, streamVars, panelVars>>

\* The debounce is over: later() calls start().
DebounceOver ==
    /\ debounce # None /\ debounce \notin Going
    /\ StartBy(debounce)
    /\ UNCHANGED <<requests, steps, reports, verdicts, outdated, orphans, panelVars>>

\* stop(), up to its await or its end.
StopBy(n) ==
    /\ Cancel(AwaitedByDebounce \cup {slot})
    /\ IF slot \in Active THEN Await(n, "stop") ELSE UNCHANGED waiting
    /\ UNCHANGED <<phase, steps, reports, verdicts, slot, outdated, orphans, streamVars, panelVars>>

\* Mutant of Stop: the debounce stays.
StopKeepsDebounce == Call /\ StopBy(requests') /\ UNCHANGED debounce

\* stop(); aclose() does the same at shutdown, without an answer.
Stop == Call /\ StopBy(requests') /\ debounce' = None

\* The awaited run r has ended, and all who await it go on, in their order: each start puts its run
\* in the slot, whatever is there by now, and each stop answers.
Wake(r) ==
    LET starts == {n \in Waiters(r) : waiting[n].kind = "start"}
    IN  /\ phase[r] = "ended" /\ Waiters(r) # {}
        /\ waiting' = [n \in Runs |-> IF n \in Waiters(r) THEN NotWaiting ELSE waiting[n]]
        /\ \/ starts = {} /\ UNCHANGED <<slot, phase, debounce, orphans, streamVars>>
           \/ \E last \in starts :
                /\ \A n \in starts : waiting[n].turn <= waiting[last].turn
                /\ Begin(starts, last)
                /\ orphans' = orphans \cup ({slot} \cap Active) \cup (starts \ {last})
        /\ UNCHANGED <<requests, steps, cancelled, disturbed, reports, verdicts, outdated, panelVars>>

-----------------------------------------------------------------------------
(* The panel. *)

\* subscribe(): the replay buffer first.
Connect ==
    /\ ~conn.open /\ conn.left > 0
    /\ conn' = [left |-> conn.left - 1, open |-> TRUE]
    /\ queue' = replay
    /\ UNCHANGED <<replay, dropped, panel, runVars, callVars>>

\* The stream breaks; what was queued for it is gone.
Disconnect ==
    /\ conn.open /\ conn.left > 0
    /\ conn' = [conn EXCEPT !.open = FALSE]
    /\ queue' = <<>> /\ dropped' = FALSE
    /\ UNCHANGED <<replay, panel, runVars, callVars>>

\* Mutant of Reduce: a new run does not reset the panel.
ReduceNoReset(p, f) ==
    CASE f.kind = "run_started" -> [p EXCEPT !.run = f.run, !.shown = @ \cup {f.run}]
      [] f.kind = "step" /\ p.run \in {None, f.run} -> [p EXCEPT !.shown = @ \cup {f.run}]
      [] f.kind = "done" /\ p.run \in {None, f.run} -> [p EXCEPT !.run = f.run, !.report = f.run]
      [] OTHER -> p

\* onEvent(): run_started resets the panel, events of another run are stale.
Reduce(p, f) ==
    CASE f.kind = "run_started" -> [run |-> f.run, shown |-> {f.run}, report |-> None]
      [] f.kind = "step" /\ p.run \in {None, f.run} -> [p EXCEPT !.shown = @ \cup {f.run}]
      [] f.kind = "done" /\ p.run \in {None, f.run} -> [p EXCEPT !.run = f.run, !.report = f.run]
      [] OTHER -> p

Receive ==
    /\ conn.open /\ queue # <<>>
    /\ panel' = Reduce(panel, Head(queue)) /\ queue' = Tail(queue)
    /\ UNCHANGED <<conn, replay, dropped, runVars, callVars>>

-----------------------------------------------------------------------------
RunStep ==
    \E r \in Runs :
        \/ BodyStarts(r) \/ PageOpens(r) \/ RunStarted(r) \/ Step(r) \/ Finish(r)
        \/ Crash(r) \/ CrashReported(r) \/ PageClosed(r) \/ Cancelled(r)

Next ==
    \/ RunStep \/ \E r \in Runs : Wake(r)
    \/ Start \/ Save \/ DebounceOver \/ Stop
    \/ Connect \/ Disconnect \/ Receive

Spec == Init /\ [][Next]_vars

\* Every await of a run is bounded (time-outs), and the loop runs what is ready.
FairSpec == Spec /\ WF_vars(RunStep) /\ WF_vars(\E r \in Runs : Wake(r)) /\ WF_vars(DebounceOver)

-----------------------------------------------------------------------------
(* Properties. *)

\* Shapes; buffers within their sizes.
TypeOK ==
    /\ requests \in 0..Requests /\ slot \in 0..Requests /\ debounce \in 0..requests
    /\ phase \in [Runs -> {"none", "created", "opening", "loading", "acting", "closing", "crashing",
                           "ended"}]
    /\ steps \in [Runs -> 0..MaxSteps] /\ cancelled \subseteq Active /\ orphans \subseteq Runs
    /\ waiting \in [Runs -> [on : 0..Requests, kind : {"start", "stop"}, turn : Nat, beside : SUBSET Runs]]
    /\ Len(replay) <= ReplaySize /\ Len(queue) <= QueueSize

\* Two runs are alive only if one of them was left behind by starts that awaited the same run: when
\* that has ended, each of them begins one, whatever has been begun in the meantime.
OneRunAtATime == Active \ orphans \subseteq {slot}

\* "late subscribers replay only this run" (manager.py), or those left behind.
ReplayIsCurrent == \A i \in DOMAIN replay : replay[i].run \in {slot} \cup orphans

\* A run that nobody cancelled reports, and none reports twice.
ReportsOnce ==
    \A r \in Runs :
        /\ reports[r] <= 1
        /\ phase[r] = "ended" /\ r \notin disturbed => reports[r] = 1

\* Once the code has changed under a run, that run gives no verdict any more: "this run's result
\* is stale" (manager.py); only a run left behind is out of reach.
NoStaleVerdict == [][verdicts' \cap outdated \subseteq verdicts \cup orphans]_vars

\* The calls that will still begin a run.
ToBegin == {n \in Going : waiting[n].kind = "start"} \cup ({debounce} \ {None})

\* When stop() answers that it stopped the run, what is alive or still to begin is of a call that
\* was waiting beside the stop, or came after it, or was left behind.
StopStops ==
    [][\A n \in Going :
         waiting[n].kind = "stop" /\ waiting'[n] = NotWaiting =>
             \A m \in (Active' \cup ToBegin') \ orphans' : m \in waiting[n].beside \/ m > n]_vars

\* A connected panel that has read everything shows the run that has shown itself last of those the
\* manager replays, and no other one, and its report.  It is the manager's run or one left behind.
PanelFollows ==
    conn.open /\ ~dropped /\ queue = <<>> =>
        \A i \in DOMAIN replay :
            LET r == replay[i].run
            IN  /\ replay[i].kind = "run_started"
                /\ \A k \in DOMAIN replay : k > i => replay[k].kind # "run_started"
                => /\ r \in {slot} \cup orphans
                   /\ panel.run = r /\ panel.shown = {r}
                   /\ reports[r] = 1 => panel.report = r

\* A save leads to a run that starts after it, unless another call comes first (no call comes after
\* the last one): whatever the save interrupted, and however slowly that ends.
SaveLeadsToRun == (debounce = Requests) ~> (slot # None /\ slot \notin outdated)

\* "One QA run at a time" (manager.py).
NeverTwoRuns == Cardinality(Active) <= 1

\* "a second start cancels the first (`stopped` done event)" (the plan): a run that has ended has
\* reported.
EveryRunReports == \A r \in Runs : phase[r] = "ended" => reports[r] = 1
==============================================================================
