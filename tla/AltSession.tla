------------------------------ MODULE AltSession ------------------------------
(***************************************************************************)
(* The exploration session of the ALT extension (background/session.ts):   *)
(* the loop that pops one task at a time, Gemini enrichment landing while  *)
(* the loop works, the developer's own navigation, and the panel's start,  *)
(* pause, resume and stop.                                                 *)
(*                                                                         *)
(* A step runs from one macrotask to the next.  Awaits that only yield to  *)
(* microtasks (store.getSettings answers from its cache once the service   *)
(* worker has booted) do not end a step; awaits on chrome.tabs, on a       *)
(* content script, on fetch or on a timer do.                              *)
(***************************************************************************)
EXTENDS TaskQueue, FiniteSets

CONSTANTS
    Root,             \* routeKey "/"
    Forms,            \* identities of discovered forms
    FormOf,           \* the form of each case
    RouteOf,          \* the route of each form
    NonSubmitting,    \* cases of a kind in NON_SUBMITTING
    Context,          \* cases only a Gemini plan adds
    Destructive,      \* forms the in-page heuristics flag destructive
    Links,            \* crawlable, non-destructive links of each route
    Landing,          \* the routes a visit may end on (redirects)
    ActionsOn,        \* how many safe actions a route's page offers
    MaxPages, MaxDepth, MaxCases, AllowDestructive, UseGemini,   \* AltSettings
    Sessions,         \* bound: sessions started
    DevActivities     \* bound: developer activities outside the 5 s throttle

ASSUME AltSessionAssumption ==
    /\ Root \in Routes
    /\ "no case" \notin Cases /\ "no route" \notin Routes
    /\ FormOf \in [Cases -> Forms]
    /\ RouteOf \in [Forms -> Routes]
    /\ \A c \in Cases : RouteOfCase[c] = RouteOf[FormOf[c]]
    /\ \A c, d \in Cases : FormOf[c] = FormOf[d] /\ Priority[c] = Priority[d] => c = d
    /\ NonSubmitting \subseteq Cases /\ Context \subseteq Cases \ NonSubmitting
    /\ Destructive \subseteq Forms
    /\ Links \in [Routes -> SUBSET Routes]
    /\ Landing \in [Routes -> SUBSET Routes]
    /\ ActionsOn \in [Routes -> Nat]
    /\ MaxPages \in Nat \ {0} /\ MaxDepth \in Nat /\ MaxCases \in Nat \ {0}
    /\ AllowDestructive \in BOOLEAN /\ UseGemini \in BOOLEAN
    /\ Sessions \in Nat /\ DevActivities \in Nat

NoCase == "no case"
Statuses == {"idle", "live", "paused", "watching", "stopped"}
NoTask == Visit(Root, 0, FALSE)
\* The task with the depth its page was recorded with.
At(t, d) == [kind |-> t.kind, of |-> t.of, depth |-> d, dev |-> t.dev]

VARIABLES
    \* SessionState
    status,      \* session status
    sid,         \* sessionId; 0 before the first start
    pages,       \* discovered routes, each with its crawl depth
    forms,       \* known forms
    destr,       \* the known forms flagged destructive
    cases,       \* planned cases
    executed,    \* cases already run
    inFlight,    \* inFlightCaseId
    queue, boosted,
    \* the loop: where it awaits, the task it popped and what it read when it popped it
    pc, task, local,
    enriching,   \* enrich() calls awaiting gemini.planForm
    devs,        \* developer activities so far
    \* observed only
    execs,       \* how often each case occurs in executions
    thrown       \* cases whose task ended with an exception

stateVars == <<status, sid, pages, forms, destr, cases, executed, inFlight, execs, thrown>>
loopVars == <<pc, task, local>>
vars == <<status, sid, pages, forms, destr, cases, executed, inFlight, queue, boosted,
          pc, task, local, enriching, devs, execs, thrown>>

PCs == {"idle", "visiting", "health", "exploring", "clicking", "checking",
        "ensuring", "running", "settling", "pace", "caughtup"}
\* destr: the form was destructive when test() read it; isNew: the visited page was new;
\* left: actions still to click.
NoLocal == [destr |-> FALSE, isNew |-> FALSE, left |-> 0]
TestLocal(d) == [destr |-> d, isNew |-> FALSE, left |-> 0]
ActionsLeft(n) == [destr |-> FALSE, isNew |-> FALSE, left |-> n]
VisitLocal(new) == [destr |-> FALSE, isNew |-> new, left |-> 0]

Min2(a, b) == IF a < b THEN a ELSE b
Max0(a) == IF a < 0 THEN 0 ELSE a

Init ==
    /\ status = "idle" /\ sid = 0
    /\ pages = [r \in {} |-> 0]
    /\ forms = {} /\ destr = {} /\ cases = {} /\ executed = {}
    /\ inFlight = NoCase
    /\ queue = {} /\ boosted = NoRoute
    /\ pc = "idle" /\ task = NoTask /\ local = NoLocal
    /\ enriching = {} /\ devs = 0
    /\ execs = [c \in Cases |-> 0] /\ thrown = {}

-----------------------------------------------------------------------------
(* The loop's head: from a kick, or after a task, to the loop's next await. *)

\* visit(), up to worker.ensure: nothing to do at the page limit.
BeginVisit(t) ==
    LET known == t.of \in DOMAIN pages'
    IN  /\ pc' = IF ~known /\ Cardinality(DOMAIN pages') >= MaxPages THEN "pace" ELSE "visiting"
        /\ task' = IF known THEN At(t, pages'[t.of]) ELSE t
        /\ local' = NoLocal

\* exploreActions(), up to worker.ensure.
BeginExplore(t) ==
    /\ t.of \notin DOMAIN pages' => pc' = "pace" /\ task' = t
    /\ t.of \in DOMAIN pages' => pc' = "exploring" /\ task' = At(t, pages'[t.of])
    /\ local' = ActionsLeft(ActionsOn[t.of])

\* Mutant of BeginTest: runs what already ran.
BeginTestAgain(t) ==
    /\ pc' = IF t.of \in cases' /\ FormOf[t.of] \in forms' THEN "ensuring" ELSE "pace"
    /\ task' = t
    /\ local' = TestLocal(FormOf[t.of] \in destr')

\* test(), up to worker.ensure: reads the case and its form, and skips what already ran.
BeginTest(t) ==
    /\ pc' = IF t.of \in cases' /\ FormOf[t.of] \in forms' /\ t.of \notin executed'
             THEN "ensuring" ELSE "pace"
    /\ task' = t
    /\ local' = TestLocal(FormOf[t.of] \in destr')

BeginTask(t) ==
    \/ t.kind = "visit" /\ BeginVisit(t)
    \/ t.kind = "explore_actions" /\ BeginExplore(t)
    \/ t.kind = "test" /\ BeginTest(t)
    \/ t.kind = "check_links" /\ pc' = "checking" /\ task' = t /\ local' = NoLocal

AtRest(where) == pc' = where /\ task' = NoTask /\ local' = NoLocal

\* while (status === "live"), with the status and queue the caller leaves behind.
LoopHead(st, q) ==
    \/ /\ st # "live"
       /\ AtRest("idle") /\ status' = st /\ queue' = q
    \/ /\ st = "live" /\ q = {}
       /\ AtRest("caughtup") /\ status' = "watching" /\ queue' = q
    \/ /\ st = "live"
       /\ \E t \in Heads(q, boosted') : BeginTask(t) /\ queue' = q \ {t}
       /\ status' = st

\* kick(): starts the loop unless it runs already.
Kick(st, q) ==
    IF st = "live" /\ pc = "idle"
    THEN LoopHead(st, q)
    ELSE status' = st /\ queue' = q /\ UNCHANGED loopVars

-----------------------------------------------------------------------------
(* Forms and cases. *)

FormsOn(r) == {f \in Forms : RouteOf[f] = r}
CasesOf(f) == {c \in Cases : FormOf[c] = f}

\* The first n of S in priority order (S holds cases of one form).
FirstBy(S, n) == {c \in S : Cardinality({d \in S : Priority[d] < Priority[c]}) < n}

Submittable(S, d) == IF d /\ ~AllowDestructive THEN S \cap NonSubmitting ELSE S

\* planCases
PlanCases(f) == FirstBy(Submittable(CasesOf(f) \ Context, f \in Destructive), MaxCases)

\* registerForm for every form of F: plans and queues the unknown ones and starts enrich().
RegisterForms(F, q) ==
    LET new == F \ forms
        planned == UNION {PlanCases(f) : f \in new}
    IN  /\ forms' = forms \cup new
        /\ destr' = destr \cup (new \cap Destructive)
        /\ cases' = cases \cup planned
        /\ queue' = PushAll(q, {Test(c) : c \in planned})
        /\ enriching' = IF UseGemini THEN enriching \cup [form: new, sid: {sid}] ELSE enriching

\* mergePlan: which cases the form has after a plan that flags it d and adds the cases K.
MergePlan(before, d, K) ==
    LET next == Submittable(before \cup K, d)
        done == next \cap executed
    IN  done \cup FirstBy(next \ executed, Max0(MaxCases - Cardinality(done)))

\* mergePlan: the destructive flag only goes up.
MergedFlag(f, planDestr) == f \in destr \/ planDestr

\* The plan arrived for a form of the session that asked for it.
PlanFits(e) == e.sid = sid /\ e.form \in forms

\* enrich(), after gemini.planForm answered with no plan or for a session that is gone.
EnrichDropped(e) ==
    /\ e \in enriching
    /\ enriching' = enriching \ {e}
    /\ UNCHANGED <<stateVars, queue, boosted, loopVars, devs>>

\* enrich(), with a plan.  removeWhere drops every queued test that is not one of this form's
\* merged cases, and the merged cases that have not run are pushed.
EnrichMerged(e) ==
    /\ e \in enriching /\ PlanFits(e)
    /\ enriching' = enriching \ {e}
    /\ \E planDestr \in BOOLEAN, K \in SUBSET (CasesOf(e.form) \cap Context) :
         LET before == cases \cap CasesOf(e.form)
             isDestr == MergedFlag(e.form, planDestr)
             merged == MergePlan(before, isDestr, K)
             kept == {t \in queue : t.kind = "test" => t.of \in merged}
         IN  /\ destr' = IF isDestr THEN destr \cup {e.form} ELSE destr \ {e.form}
             /\ cases' = (cases \ before) \cup merged
             /\ queue' = PushAll(kept, {Test(c) : c \in merged \ executed})
    /\ UNCHANGED <<status, sid, pages, forms, executed, inFlight, execs, thrown,
                   boosted, loopVars, devs>>

-----------------------------------------------------------------------------
(* visit *)

VisitsQueued(q) == {t \in q : t.kind = "visit"}

\* Crawl the links of page r at depth d: one visit per unknown route, up to maxPages.
LinkPushes(r, d, pgs, q) ==
    LET fresh == {l \in Links[r] : l \notin pgs /\ ~HasKey(q, <<"visit", l>>)}
        room == Max0(MaxPages - Cardinality(pgs) - Cardinality(VisitsQueued(q)))
    IN  IF d < MaxDepth
        THEN {{Visit(l, d + 1, FALSE) : l \in L} :
                L \in {S \in SUBSET fresh : Cardinality(S) = Min2(Cardinality(fresh), room)}}
        ELSE {{}}

\* alt:discover answered: the page, its forms and its links are recorded.
VisitScanned ==
    /\ pc = "visiting"
    /\ \E r \in Landing[task.of] :
         /\ pages' = [x \in DOMAIN pages \cup {r} |-> IF x = r THEN task.depth ELSE pages[x]]
         /\ \E F \in SUBSET FormsOn(r), V \in LinkPushes(r, task.depth, DOMAIN pages', queue) :
              RegisterForms(F, queue \cup V)
         /\ task' = Visit(r, task.depth, task.dev)
         /\ local' = VisitLocal(r \notin DOMAIN pages)
    /\ pc' = "health"
    /\ UNCHANGED <<status, sid, executed, inFlight, boosted, devs, execs, thrown>>

\* worker.navigate or alt:discover failed.
VisitFailed ==
    /\ pc = "visiting"
    /\ pc' = "pace"
    /\ UNCHANGED <<stateVars, queue, boosted, task, local, enriching, devs>>

\* alt:health answered: a new page's actions and links are queued.
VisitDone ==
    /\ pc = "health"
    /\ pc' = "pace"
    /\ queue' = IF local.isNew
                THEN PushAll(queue,
                       (IF ActionsOn[task.of] > 0 THEN {Explore(task.of)} ELSE {}) \cup
                       (IF Links[task.of] # {} THEN {CheckLinks(task.of)} ELSE {}))
                ELSE queue
    /\ UNCHANGED <<stateVars, boosted, task, local, enriching, devs>>

-----------------------------------------------------------------------------
(* explore_actions and check_links *)

\* The head of the loop over the page's actions, with n still to click.
ActionHead(n) ==
    /\ pc' = IF status = "live" /\ n > 0 THEN "clicking" ELSE "pace"
    /\ local' = ActionsLeft(n)
    /\ UNCHANGED task

ExploreReady ==
    /\ pc = "exploring"
    /\ ActionHead(local.left)
    /\ UNCHANGED <<stateVars, queue, boosted, enriching, devs>>

\* A click had no visible effect, or the page did not come up.
ClickNothing ==
    /\ pc = "clicking"
    /\ ActionHead(local.left - 1)
    /\ UNCHANGED <<stateVars, queue, boosted, enriching, devs>>

\* A click navigated to route r.
ClickNavigated ==
    /\ pc = "clicking"
    /\ \E r \in Routes \ {task.of} :
         queue' = IF r \notin DOMAIN pages /\ ~HasKey(queue, <<"visit", r>>) /\ task.depth < MaxDepth
                  THEN queue \cup {Visit(r, task.depth + 1, FALSE)}
                  ELSE queue
    /\ ActionHead(local.left - 1)
    /\ UNCHANGED <<stateVars, boosted, enriching, devs>>

\* A click revealed forms on the page.
ClickRevealed ==
    /\ pc = "clicking"
    /\ \E F \in SUBSET FormsOn(task.of) : F # {} /\ RegisterForms(F, queue)
    /\ ActionHead(local.left - 1)
    /\ UNCHANGED <<status, sid, pages, executed, inFlight, boosted, devs, execs, thrown>>

LinksChecked ==
    /\ pc = "checking"
    /\ pc' = "pace"
    /\ UNCHANGED <<stateVars, queue, boosted, task, local, enriching, devs>>

-----------------------------------------------------------------------------
(* test *)

\* runCase returned: the execution is recorded in the session of that moment.
Record(c) ==
    /\ executed' = executed \cup {c}
    /\ execs' = [execs EXCEPT ![c] = @ + 1]
    /\ inFlight' = NoCase
    /\ pc' = "pace"

\* The worker tab is there: the case is in flight, and the safety gate of runCase decides with
\* the form that was read when the task was popped.
TestReady ==
    /\ pc = "ensuring"
    /\ IF local.destr /\ ~AllowDestructive /\ task.of \notin NonSubmitting
       THEN Record(task.of)
       ELSE inFlight' = task.of /\ pc' = "running" /\ UNCHANGED <<executed, execs>>
    /\ UNCHANGED <<status, sid, pages, forms, destr, cases, queue, boosted, task, local,
                   enriching, devs, thrown>>

\* The page does not load, the form is missing, filling fails, the case needs no submit.
TestEndsEarly ==
    /\ pc = "running"
    /\ Record(task.of)
    /\ UNCHANGED <<status, sid, pages, forms, destr, cases, queue, boosted, task, local,
                   enriching, devs, thrown>>

\* Mutant of TestSubmits: a reload or keyboard case falls through to the submit.
TestSubmitsAnyKind ==
    /\ pc = "running"
    /\ pc' = "settling"
    /\ UNCHANGED <<stateVars, queue, boosted, task, local, enriching, devs>>

\* The form is filled and ALT presses its button.
TestSubmits ==
    /\ pc = "running" /\ task.of \notin NonSubmitting
    /\ pc' = "settling"
    /\ UNCHANGED <<stateVars, queue, boosted, task, local, enriching, devs>>

TestSettled ==
    /\ pc = "settling"
    /\ Record(task.of)
    /\ UNCHANGED <<status, sid, pages, forms, destr, cases, queue, boosted, task, local,
                   enriching, devs, thrown>>

\* A chrome.tabs call rejects (tab closed): the loop's catch drops the task.
TaskThrows ==
    /\ pc \in {"visiting", "exploring", "clicking", "ensuring", "running"}
    /\ pc' = "pace"
    /\ inFlight' = NoCase
    /\ thrown' = IF task.kind = "test" THEN thrown \cup {task.of} ELSE thrown
    /\ UNCHANGED <<status, sid, pages, forms, destr, cases, executed, execs, queue, boosted,
                   task, local, enriching, devs>>

\* The pace sleep after a task (paceMs > 0) is over.
NextTask ==
    /\ pc = "pace"
    /\ UNCHANGED <<sid, pages, forms, destr, cases, executed, inFlight, execs, thrown,
                   boosted, enriching, devs>>
    /\ LoopHead(status, queue)

\* Mutant of CaughtUp: running is never reset.
CaughtUpStillRunning ==
    /\ pc = "caughtup"
    /\ UNCHANGED <<pc, stateVars, queue, boosted, task, local, enriching, devs>>

\* The "Caught up" overlay was shown: the loop ends, whatever the status is by now.
CaughtUp ==
    /\ pc = "caughtup"
    /\ pc' = "idle"
    /\ UNCHANGED <<stateVars, queue, boosted, task, local, enriching, devs>>

-----------------------------------------------------------------------------
(* Panel, alarm and developer. *)

\* start() of another origin, or after stop: a new session replaces the state, not the loop.
StartNew ==
    /\ sid < Sessions
    /\ sid' = sid + 1
    /\ pages' = [r \in {} |-> 0]
    /\ forms' = {} /\ destr' = {} /\ cases' = {} /\ executed' = {}
    /\ inFlight' = NoCase
    /\ boosted' = NoRoute
    /\ execs' = [c \in Cases |-> 0] /\ thrown' = {}
    /\ \E r \in Routes :
         Kick("live", {Visit(Root, 0, FALSE)} \cup (IF r = Root THEN {} ELSE {Visit(r, 0, TRUE)}))
    /\ UNCHANGED <<enriching, devs>>

\* start() of the session's own origin, and resume().
GoLive(from) ==
    /\ status \in from
    /\ UNCHANGED <<sid, pages, forms, destr, cases, executed, inFlight, execs, thrown,
                   boosted, enriching, devs>>
    /\ Kick("live", queue)

StartSame == GoLive({"live", "watching", "paused"})
Resume == GoLive({"paused", "watching"})
Tick == GoLive({"live"})

Pause ==
    /\ status \in {"live", "watching"}
    /\ status' = "paused"
    /\ UNCHANGED <<sid, pages, forms, destr, cases, executed, inFlight, execs, thrown,
                   queue, boosted, loopVars, enriching, devs>>

Stop ==
    /\ status \notin {"idle", "stopped"}
    /\ status' = "stopped"
    /\ queue' = {} /\ boosted' = NoRoute
    /\ UNCHANGED <<sid, pages, forms, destr, cases, executed, inFlight, execs, thrown,
                   loopVars, enriching, devs>>

\* Mutant of WithoutVisit: drops every task of the route.
WithoutRoute(q, r) == {t \in q : RouteOfTask(t) # r}

\* removeWhere of onDeveloperActivity: the route's queued visit makes room for the new one.
WithoutVisit(q, r) == {t \in q : ~(t.kind = "visit" /\ t.of = r)}

\* onDeveloperActivity: the route is boosted and re-visited first.
DevActivity(r) ==
    /\ devs < DevActivities
    /\ status \notin {"idle", "stopped"}
    /\ devs' = devs + 1
    /\ boosted' = r
    /\ UNCHANGED <<sid, pages, forms, destr, cases, executed, inFlight, execs, thrown, enriching>>
    /\ Kick(IF status = "watching" THEN "live" ELSE status,
            PushAll(WithoutVisit(queue, r),
                    {Visit(r, IF r \in DOMAIN pages THEN pages[r] ELSE 0, TRUE)}))

-----------------------------------------------------------------------------
LoopStep ==
    \/ VisitScanned \/ VisitFailed \/ VisitDone
    \/ ExploreReady \/ ClickNothing \/ ClickNavigated \/ ClickRevealed \/ LinksChecked
    \/ TestReady \/ TestEndsEarly \/ TestSubmits \/ TestSettled
    \/ TaskThrows \/ NextTask \/ CaughtUp

EnrichStep == \E e \in enriching : EnrichDropped(e) \/ EnrichMerged(e)

UserStep ==
    \/ StartNew \/ StartSame \/ Pause \/ Resume \/ Stop
    \/ \E r \in Routes : DevActivity(r)

Next == LoopStep \/ EnrichStep \/ Tick \/ UserStep

Spec == Init /\ [][Next]_vars

\* The browser answers or times out every await, the 30 s alarm keeps firing, and gemini.planForm
\* always settles (20 s timeout).  The panel and the developer owe nothing.
FairSpec == Spec /\ WF_vars(LoopStep) /\ WF_vars(Tick) /\ WF_vars(EnrichStep)

-----------------------------------------------------------------------------
(* Properties. *)

\* Every variable keeps the shape the source gives it.
TypeOK ==
    /\ status \in Statuses /\ sid \in 0..Sessions
    /\ DOMAIN pages \subseteq Routes /\ \A r \in DOMAIN pages : pages[r] \in Nat
    /\ forms \subseteq Forms /\ destr \subseteq forms
    /\ cases \subseteq Cases /\ executed \subseteq Cases /\ thrown \subseteq Cases
    /\ inFlight \in Cases \cup {NoCase}
    /\ queue \subseteq Task /\ boosted \in Routes \cup {NoRoute}
    /\ pc \in PCs /\ task \in Task
    /\ local \in [destr : BOOLEAN, isNew : BOOLEAN, left : Nat]
    /\ enriching \subseteq [form : Forms, sid : 0..Sessions]
    /\ devs \in 0..DevActivities
    /\ execs \in [Cases -> Nat]

TestPCs == {"ensuring", "running", "settling"}

\* A case runs at most once in a session, although enrich() queues the case in flight again and
\* a developer or a plan may bring its form back at any moment.
RunOnce == \A c \in Cases : execs[c] = (IF c \in executed THEN 1 ELSE 0)

\* inFlightCaseId, which recovery trusts, only ever names the case the loop is running, and that
\* case has no recorded execution yet.
InFlightIsRunning ==
    inFlight # NoCase => task = Test(inFlight) /\ pc \in TestPCs /\ inFlight \notin executed

\* The array of tasks never holds two tasks with one key, whatever order pushes, removals and
\* the developer's re-queued visits come in.
QueueKeysUnique == KeysUnique(queue)

\* "Caught up" is said only when nothing is queued.
DrainedWhenWatching == status = "watching" => queue = {}

\* A planned case is never forgotten: until the session is stopped it has run, its task ended
\* with an exception, it is queued, or the loop is on it.
NoOrphanCase ==
    status # "stopped" =>
      \A c \in cases : \/ c \in executed \cup thrown
                       \/ Test(c) \in queue
                       \/ task = Test(c) /\ pc \in TestPCs

\* A session never records more than maxPages pages.
PageLimit == Cardinality(DOMAIN pages) <= MaxPages

\* No page and no queued visit is deeper than maxDepth.
DepthLimit ==
    /\ \A r \in DOMAIN pages : pages[r] <= MaxDepth
    /\ \A t \in VisitsQueued(queue) : t.depth <= MaxDepth

\* A form that is flagged destructive at the moment of the submit is not submitted.
NoDestructiveSubmit ==
    [][TestSubmits => AllowDestructive \/ FormOf[task.of] \notin destr]_vars

\* A form the page's own heuristics flag is never submitted, whatever plans and sessions do.
HeuristicsRespected ==
    [][TestSubmits => AllowDestructive \/ FormOf[task.of] \notin Destructive]_vars

\* A plan may raise the destructive flag of a form but never clear it.
FlagNeverCleared == [][sid' = sid => destr \subseteq destr']_vars

\* A plan asked for by one session changes nothing in a later one.
PlansStayInSession ==
    [][\A e \in enriching \ enriching' :
         e.sid # sid => UNCHANGED <<forms, destr, cases, queue>>]_vars

\* A case that has run stays in its session's list of cases.
ExecutedCasesKept == [][sid' = sid => cases \cap executed \subseteq cases']_vars

\* Unless the session is live the loop takes no task from the queue and clicks no further action.
OnlyLiveWorks ==
    [][status # "live" /\ status' # "live" =>
         /\ pc \in {"idle", "pace"} => pc' \in {"idle", "pace", "caughtup"}
         /\ pc' = "clicking" => pc = "clicking" /\ local'.left = local.left]_vars

\* The developer's route comes first: the loop never takes a task of another route, nor a test or
\* an exploration before the visit, while a task of the boosted route stays queued.
TakesTask == pc \in {"idle", "pace"} /\ pc' \notin {"idle", "caughtup"} /\ task' # task
BoostedFirst ==
    [][TakesTask =>
         \A t \in queue' : RouteOfTask(t) = boosted' /\ t.kind # "check_links" =>
            (RouteOfTask(task') = boosted' /\ t.kind # "visit")]_vars

\* A live session gets through its queue, or is paused, stopped or replaced on the way, even when
\* the developer's activity falls into the loop's last await.
CatchesUp == (status = "live") ~> (status # "live")
==============================================================================
