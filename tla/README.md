# ALT and the VALT QA agent in TLA+

ALT is a browser extension that explores a web application on its own while a developer works on
it. Its service worker takes one task at a time from a priority queue, drives a tab of its own
through pages, forms and test cases, asks Gemini (through the VALT API) for better test plans, and
shows in a side panel what it does. The VALT API also runs a QA agent: every save of the developer's
code starts a run in a headless browser, whose events are streamed to the web client. The web client
itself turns text and files into an analysis by the model.

This directory holds TLA+ models of that system, the TLC runs that check them on small instances,
and TLAPS proofs of what matters most for instances of any size. `PROJECT.json` relates every
definition to the lines it models, every hazard of the code to the properties that would catch it,
and lists runs and theorems.

    tlc -workers 2 -config AltSessionGemini.cfg MCAltSession     # a run
    tlapm AltSessionProofs.tla                                   # the proofs of a module

Paths below are relative to `apps/extension/src/background/` unless they say otherwise; `QA` stands
for `apps/api/src/valt_api/qa_agent/`, `content/`, `hook/`, `shared/` and `sidepanel/` for those
directories of `apps/extension/src/`, and `web/` for `apps/web/src/`.

1. [The system](#1-the-system) - 2. [The modules](#2-the-modules) - 3. [The runs](#3-the-runs) -
4. [Fairness](#4-fairness) - 5. [Where code and documents disagree](#5-where-code-and-documents-disagree) -
6. [What is proved](#6-what-is-proved) - 7. [What is only model-checked](#7-what-is-only-model-checked) -
8. [What the models leave out](#8-what-the-models-leave-out) - 9. [Plan](#9-plan)

## 1. The system

### Components

| Part | Source | State | Operations | What is hard |
|---|---|---|---|---|
| Exploration session | `session.ts` | status, pages, forms, cases, executed, in-flight case, the popped task | start, pause, resume, stop, kick, developer activity, visit, explore, test, check links, enrich | plans, the panel and the developer act between any two awaits of the loop; one `running` flag keeps it single |
| Work queue | `queue.ts` | array, key set, insertion numbers, boosted route | push, pop, boost, removeWhere, serialize, create | three structures for one set; ranks and ties; restart |
| Case executor | `executor.ts`, `shared/outcome.ts`, `network.ts` | one case's phase, polls left, recorded requests | runCase: safety gate, fill, submit, settle, judge | the page, the network and the tab change between two polls |
| Case planning | `shared/datagen.ts`, `shared/merge-plan.ts` | a form's cases and their values | planCases, mergePlan | a plan rewrites cases of which some have run; boundaries coincide; caps |
| Gemini plans | `gemini.ts` | pending calls by signature, a chain of calls, backoff | planForm | cache and pending calls are read two awaits apart; late, failing, hanging answers |
| Store | `store.ts` | session, knowledge, settings; their stored copies | update with a debounced write, replace, restore, getPlan, putPlan | writes are late or fail; read-modify-write of all plans |
| Service worker | `index.ts` | boot phase, alarm, ports | boot, alarm, tab removed, panel commands, pushState | it dies at any moment; events come while it boots |
| Worker tab | `worker-tab.ts`, `injection.ts` | tab id, a creation in progress | ensure, create, navigate, back, reload, ready, mark, adopt, forget, close | loads complete, fail or hang while it waits; the tab is closed or not yet known |
| Watcher | `watch.ts` | none | developer activity by page load, route change, DOM change | tells the developer's tabs from ALT's by an id that may be null |
| Panel connection | `sidepanel/connection.ts`, `sidepanel/panel.ts` | port, time it opened, one silent retry | connect, lost, reconnect, send | timers and ports of earlier connections; a worker that boots |
| Helper connection | `connection.ts`, `tools/mock-helper/` | socket, token, retries | pair, connect, hello, close, wake | pairings, retries, alarms and restarts of both ends |
| Page discovery | `content/discover.ts`, `selectors.ts`, `labels.ts` | none; its names outlive the document | discoverPage, selectors and keys of what it saw | names must find the same thing in the next load |
| Content script | `content/index.ts`, `overlay.ts`, `health.ts` | one instance per document, a timer, an overlay | start, answer, watch the DOM, keyboard walk | it is injected twice, and outlives a reload of the extension as an orphan |
| Filling and observing | `content/fill.ts`, `observe.ts` | the observation of one document | beginObservation, fillForm, snapshot | the application's handlers run in the middle of the filling |
| Capture | `hook/hook-core.ts`, `content/capture.ts` | captures around submits, known and pending requests | submit, start, end, finish | starts and ends of overlapping requests and submits |
| QA manager | `QA/manager.py` | current run and its task, debounce, subscribers, replay | start, stop, save, emit, subscribe | asyncio cancellation in the middle of awaits |
| QA agent | `QA/agent.py`, `browser.py`, `executor.py`, `guards.py` | one run's turns; one browser on a thread | run_qa, launch, new run, close | step, turn and time limits; cancellation across a thread |
| QA stream client | `web/lib/qa/use-qa-stream.ts` | what the panel shows | a reducer over server-sent events, reconnects | replays, lost events, events of older runs |
| Input form | `web/components/workflow/multimodal-input.tsx`, `image-upload.tsx`, `file-dropzone.tsx` | attached files by type, the open tab | choose, drop, record, remove, submit, edit | three components fill one list, and one of them replaces what it thinks is its part |
| AI workflow | `web/lib/workflow/`, `web/lib/api.ts`, `apps/api/` routers and services | stage, one AbortController, uploads; files and calls at the API | submit, cancel, retry, reset, attach; upload, analyze | answers of an aborted request; errors that cross five layers; a restart of the API |
| Token stream | `core/sse.py`, `web/lib/api.ts`, `web/hooks/use-generate-stream.ts` | the text shown | generate, read, stop | chunks end anywhere; a second start |
| Voice recorder | `web/hooks/use-audio-recorder.ts` | microphone, time limit | start, stop, mount, unmount | the permission comes after the form has gone |

The rest (event bus, pages and views, routes and semantics, items and their table, demo
applications, evaluations, migrations, build) is listed in `PROJECT.json` with the reason it is not
modelled.

### How the parts interact

- **Loop and enrichment.** `kick()` starts `loop()` unless `running` is set. The loop pops a task
  and works on it through awaits of the tab, of content scripts and of timers. A new form starts
  `enrich()`, which awaits `gemini.planForm` for up to 20 s and then rewrites cases and queue,
  whatever the loop is doing.
- **Developer and loop.** The watcher reports navigations in the developer's own tabs; they boost a
  route, replace its queued visit, and bring a `watching` session back to `live`.
- **Panel and loop.** start, pause, resume and stop change the status the loop reads after each task
  and before each click. The panel's port dies with the worker; one reconnect is silent.
- **Store and worker.** Every change is written 250 ms later. A death of the worker leaves what was
  written last; an event or the 30 s alarm starts a new worker, which restores state, tab and queue
  in that order, with awaits in between.
- **Loop, tab and browser.** The loop asks the tab for a page and waits for a load to complete, at
  most 20 s, and for the content script to answer, at most 15 s. Any load that completes meanwhile
  ends the wait. Every document gets its scripts by registration, by hand, or by both.
- **Executor, page and network.** The executor fills, submits and polls through the content script;
  responses, renderings, a navigation and a closing tab come between the polls, the application's
  handlers between two fields, and the recorder writes down requests as they begin and end.
- **Page, hook and content script.** The hook in the page's world posts the start and the end of
  each request; the content script correlates them with a submit and waits for their ends.
- **QA manager and run.** The manager owns one asyncio task per run. `start` and `stop` cancel it and wait
  for it to end, several of them perhaps for the same one; a save cancels it at once and starts another
  after a debounce. The run works through a thread with one Chromium, emits to a replay buffer and to the
  subscribers' queues.
- **Web page and API.** One AbortController per submission; an aborted request is dead for the page
  while the API goes on serving it. The API forgets its files in a restart, the page keeps their ids.

### What makes each part correct

- *Session*: a planned case runs once or is still on its way; it says it is caught up only when it
  is; the developer's route comes first; a form the heuristics flag destructive is not submitted.
- *Queue*: its three structures agree, it behaves as an ordered set, and a restart keeps the order.
- *Service worker*: a death costs at most what was queued since the last write and the task that was
  popped then; the session comes back.
- *Worker tab*: a task works on the page it asked for, or where the site sends that, and ends; no tab
  is left behind.
- *Links*: the panel shows the latest state or says it is lost; there is one socket, and it heals.
- *Gemini plans*: one call at a time, no call for a stored plan, no lost put, everyone is answered.
- *Case planning*: a case has one fault, the one it is named for, also after a merge.
- *Case executor*: the verdict agrees with what the application did, and every case ends.
- *Content*: a name found once is found again; one voice per document; what the filling reports and
  a poll says is true of the page; a submit's report has its requests and their answers.
- *QA manager and agent*: one run in the slot, one report per run, no verdict on stale code, a stop
  that stops what it met, a save that leads to a run, a panel that follows, a conversation that fits together,
  a browser that is cleaned up.
- *Web*: the page shows what belongs to its input, "Try again" is offered where it helps, a stream is
  shown as it was said, the microphone goes off, the files a user attached stay.

## 2. The modules

    TaskQueue ──┬── AltSession ────── AltSessionProofs      WorkQueue (abstract queue)
                │        └ MCAltSession                         ↑ refinement
                └── WorkQueue ── (INSTANCE) ── QueueImpl ─────┐
                                                 └ MCQueue    │
    WorkerTab ── PanelLink ─┬─ MCShell          PanelLink ────┼─ BackgroundProofs
    HelperLink ─────────────┘                   HelperLink ───┘

    ServiceWorker ── ServiceWorkerProofs        QAManager ── QAManagerProofs
    GeminiPlans ──── AltSessionProofs           QARun ────── QARunProofs
    CaseRun, FormFill ── CaseRunProofs          Ordering ─┬─ CasePlanning ──────────────┬─ ListProofs
                                                          ├─ PageHealth ────────────────┤
                                                          └─ PageScan ── ContentScript ─┘

    ContentScript, PageHealth, ┬─ MCContent     AiService ── AiWorkflow ─┬─ MCWeb
    Capture, FormFill ─────────┘                TokenStream, InputForm,  │
                                                VoiceRecorder ───────────┘

    Capture, AiWorkflow, TokenStream, InputForm ── PageProofs

Every module is checked through its `MC` module, which defines constants. `MCShell`, `MCWeb` and
`MCContent` put together parts that share no state: a behaviour lets one of them move, and the
variable `part` says which, so that the states of the parts add up instead of multiplying. In each
module the definitions marked `Mutant of X` are X with a bug somebody might have written; with one
of them in the place of X the property that goes with it in `PROJECT.json` is violated, so that no
property holds merely by the shape of the model.

A *step* of every model is what the code does between two awaits that can really suspend it: an
await of a browser API, a content script, `fetch`, storage or a timer (extension, web), of a task, a
queue or the browser thread (API). Everything done in between is one action, trailing saves and
normalisations included.

### The service worker

**`TaskQueue`** is the vocabulary of the queue: the four kinds of task as records, `TaskKey`,
`Rank` (with the boost) and `PushAll`. `Priority` is a case's place in its form's list after the
stable sort, so that two cases of a form never tie; `Heads` is the set of tasks `pop()` may return.

**`AltSession`** is `createSession()`. `pc` says at which await the loop is (`idle` when it does not
run), `task` and `local` what it popped and what it read then. `LoopHead` is the head of
`loop()`; `BeginTask` and `VisitScanned`, `VisitDone`, `ExploreReady`, `Click*`, `LinksChecked`,
`TestReady`, `TestSubmits`, `TestSettled`, `TaskThrows` are the pieces of `visit`,
`exploreActions`, `checkLinks`, `test` and `runTask` between their awaits; `CaughtUp` is the loop's
last await, after `watching` was set. `RegisterForms`, `MergePlan`, `EnrichDropped` and
`EnrichMerged` are `registerForm` and `enrich`. `StartNew`, `StartSame`, `Resume`, `Pause`, `Stop`,
`Tick` and `DevActivity` are the public operations. `execs` and `thrown` only observe.

**`WorkQueue`** states the interface of `queue.ts`, **`QueueImpl`** the closure behind it: the
array (as a set; its order is rank and insertion number), the key set, the insertion numbers and
the restart through `serialize()`. `ImplementsInterface` is the refinement.

**`ServiceWorker`** is the session reduced to what is stored, across deaths of the worker: `mem`
and `disk` are `store.state` and its stored copy, `dirty` the write timer, `queue` the live queue
beside its serialization in `mem`, `boot` the phases of `booted`. `Persist`, `PersistFails` and
`Crash` may come at any moment; `BootRead`, `BootDone` and `Restore` are the boot, and alarms and
navigations come in the middle of it, as in the code, where nothing but the panel awaits `booted`. Four
variables only remember: the tasks ever queued (`pushed`), those queued since the last write
(`unsaved`), the one popped then (`atRisk`), and of those the ones a death may have cost (`excused`).
A death takes none of that back, so that what it loses is counted.

**`WorkerTab`** is ALT's own tab as the browser and the worker see it: `tab` what the browser shows
(the page, a navigation in flight, the mark, what ALT's scripts do there), `tabId`, `stored` and
`disk` the worker's id of it and the two copies of that, `pc`, `at`, `site` and `want` the loop's task. Loads
end where they were to or where the site sends them (`Landing`), fail or hang, pages move on by
themselves, tabs close, the worker dies and boots. A task may begin as soon as the state has been read,
before the boot has adopted the tab; `early` says that the last one did. `taken` records a load of ALT's
own tab that the watcher took for the developer's.

**`PanelLink`** extends `WorkerTab` with the side panel's port, since both hang on the same worker:
ports of earlier connections, the silent retry, the timeout without a state, and `version`, a state
that changes and is pushed.

**`HelperLink`** is the WebSocket to the helper: pairing, `hello`, a version that does not fit,
retries, the alarm and restarts on both ends, with a handler for each socket, old ones included.

**`GeminiPlans`** is `createGemini()` with `getPlan` and `putPlan`. An ask is one call of
`planForm`; the ask that finds no pending call creates a job and appends it to the chain. `storage`
is the queue of unanswered requests of `chrome.storage.local`, which answers in order; the code
relies on that where it reads all plans, adds one and writes them back (`store.ts:253`).

**`CasePlanning`** is `planCases()` and `mergePlan()` as operators on forms and cases, and the
small machine around them: cases run in order, the plan comes before or between two of them, and
the developer may change a setting before it comes. Values are a sort and a number (tenths,
lengths, days from today).

**`Ordering`** is the vocabulary of lists `CasePlanning`, `PageHealth` and `PageScan` use: what `filter()` and
`sort()` make of a list, and one object spread over another. An element of a sorted list is the one that
so many others come before; that says what the code's loops compute, at one place at a time.

**`CaseRun`** is one `runCase()` with `settle()`, the recorder and `judge()`. The application and
the browser are the environment: `Respond`, `Show`, `Loaded`, `Stir`, `TabCloses`. An application
is a record of what it does with input and how it shows it; `Honest` says which applications tell
the truth.

### The page

**`PageScan`** is `discoverPage()` on a page given as a sequence of elements: its forms and groups of
fields without one, fields, actions and links, their names, keys and selectors. A load makes the ids in
`Made` anew; `LooksGenerated` goes by what its patterns match (`Patterned`), whoever made it, so that an
id made by counting passes for the author's and an author's with a year in it does not. A selector is a
sequence of parts, one for each shadow tree on the way in, and a part is what it selects by; `QueryAll` is
what the browser makes of them. Names and keys are sequences of what stands between their underscores, so
that "qty_2" may be a name of the page's and what `dedupeKeys` makes of a second "qty". `Visible` and what
is found by it depend on the elements that are shut at the time.

**`ContentScript`** scans such a page over several loads while a developer opens and closes its
dialog, which changes an attribute, a style, or puts nodes in and takes them out: copies of the script by
registration and by hand, orphans after a reload of the extension, their overlays, and the report of
structural changes after 800 ms of rest. `Observed` is what the observer of the document hears and heeds:
nothing of what happens inside a shadow tree.

**`PageHealth`** is `runHealthChecks()` and `keyboardWalk()` on a page given as a sequence of boxes:
broken images, what makes the page scroll sideways, what covers a control, cut text, labels, the
document's markup, the load time, five findings of a kind at the most; and the walk over the controls
of a form in the order of Tab, with the jumps it reports. `scroll` is the width the page scrolls over,
which decides whether anything is looked for. `Screens` are the pages it may meet.

**`Capture`** is the way from a developer's submit to the report of its requests: the hook's posts
in order, the window around the submit, pending requests, the rest before a report, with a clock of
ticks. `Send`, `BodyRead` and `Responds` are the hook's, `Trigger` and `Deliver` the pipeline's steps.
The pipeline turns the hook on and off while requests and submits are under way. What becomes of a
request's body depends on how it is sent (`Reached`): a `Request` with a body is sent before it is cloned,
so that the clone throws and nothing is posted.

**`FormFill`** is what the content script does for one case: `beginObservation`, `fillForm`, and the
snapshot of every poll. `StartFill` begins to fill in; `FillField` is one field of `todo` with all its
events and what the application does on them (rewrite, revert, cancel, validate, fill another
field), which may also change nodes of the page. `fillForm` awaits nothing, so that nothing but these
handlers comes between two fields: while `step` is "filling" the application's own actions are disabled.
Its `catch` is not modelled, since nothing in the `try` throws: a selector that is none finds nothing
(`content/selectors.ts:194`), and what a handler throws does not come back from `dispatchEvent`. `was` only
observes.

### The API and the web client

**`QAManager`** is `QAManager` of the API with the outer life of a run (`_run`, `browser_runner`,
`run_qa`) and the panel's reducer. Calls are numbered, and a run has the number of the call that begins
it. `waiting` says of each call which cancelled run's end it awaits and in which turn; calls, saves and
the debounce may come while others wait. When a run ends, all that await it go on one after the other,
with nothing in between (`Wake`): each start begins its run, and puts it in the slot whatever is there by
now. `orphans` are the runs that were alive then, or began then and lost the slot at once: nobody can stop
them any more. `debounce` is the call whose `later()` is not done; `replay`, `queue` and `panel` are the
replay buffer, the panel's queue of events and its state.

**`QARun`** is a run from inside, runs one after the other over one Chromium: turns with the model
and the calls of each, guards and limits, what the conversation holds, contexts and processes on
the browser's thread, and a cancellation at each await, of which the thread hears later. Opening a page may
fail after its context has been made, which then nobody closes (`OpenFails`), and `close()` swallows the
failure of the context's (`Closes`); `failed` remembers those runs.

**`AiService`** is what the API answers, layer by layer, and what the page makes of it. The provider turns
a request down for its text, for its files or for reasons of its own ("400"), and may stop an answer
("withheld"); `bare` is what an input nobody can object to would have met at the same moment.
**`AiWorkflow`** is the page's submission against that API: `net` holds the requests under way, dead ones
included, `stored` the API's files. **`TokenStream`** cuts the server's tokens into chunks anywhere and
reads them back; `current` is the request it shows; the button that starts one is disabled while one runs
(`kit-gallery.tsx:384`), which keeps the hook from a second start. **`VoiceRecorder`** is the recorder's
tab and the microphone, which stays on when `MediaRecorder` throws (`Throws`). **`InputForm`** is the form
the input is composed in: the tabs of a mode, the files chosen, dropped or recorded in each (`AddFiles`
appends, `PickImages` replaces all images by the image tab's own list, cut at the limit), removals, and
the input handed on and taken back.


## 3. The runs

`HealthIsRight` is `WalkIsRight`, of the walk with Tab, `ReportIsRight`, of the other checks, and
`BlameIsRight`, of the box that is blamed when a page scrolls sideways.

| Run | Modules | States | Shows |
|---|---|---|---|
| `session_heuristics` | `AltSession` | 194,933 | without Gemini: `NoOrphanCase`, `BoostedFirst`, and `CatchesUp` under fairness |
| `session_gemini` | `AltSession` | 224,692 | with plans landing at any moment and two sessions: `RunOnce`, `HeuristicsRespected` |
| `queue` | `QueueImpl`, `WorkQueue` | 5,208 | `ImplementsInterface`: the closure refines the abstract queue, restarts included |
| `service_worker` | `ServiceWorker` | 1,848,318 | `LossBounded` over two deaths and with events during the boots, and `RecoversFromCrash` under fairness |
| `shell` | `WorkerTab`, `PanelLink`, `HelperLink` | 616,675 | `WorksOnThePage`, `NoTabForgotten`, and under fairness `EveryTaskEnds`, and `LinksComeBack`, which is `PanelCatchesUp` and `LinkHeals` |
| `gemini_plans` | `GeminiPlans` | 110,039 | `StoredAreNewest`, and `EveryAskIsAnswered` under fairness |
| `case_planning` | `CasePlanning` | 53,967 | `OneFaultEach`, `MergeKeepsBest`, and `OneTestEach`, which is `DuplicateRepeatsHappy` and `EachLimitOnce` |
| `case_run` | `CaseRun` | 454,913 | `VerdictIsRight`, and `EveryCaseEnds` under fairness |
| `content` | `PageScan`, `ContentScript`, `PageHealth`, `Capture`, `FormFill` | 415,743 | `OneVoice`, `ScanOutlivesLoad`, `HealthIsRight`, `EvidenceIsTrue`, `ReportsAreTrue`, `FilledAsReported`, and `ChangesReported`, `EveryCaptureEnds` under fairness |
| `qa_manager` | `QAManager` | 2,010,818 | `OneRunAtATime`, `ReportsOnce`, `PanelFollows`, `StopStops`, and `SaveLeadsToRun` under fairness |
| `qa_run` | `QARun` | 148,190 | `NothingLeaks`, `TurnsMatch`, and `EveryRunEnds` under fairness |
| `web` | `AiService`, `AiWorkflow`, `TokenStream`, `VoiceRecorder`, `InputForm` | 238,755 | `ShowsItsInput`, `RetryWhereItHelps`, `StreamFaithful`, `FilesStay`, and under fairness `WebSettles`, which is `EveryRunSettles` and `MicGoesOff` |

Some invariants that are proved (section 6) have no place in a run: `TypeOK`, `InFlightIsRunning`,
`QueueKeysUnique`, `PlansStayInSession`, `MarkIsTrue`, `QueueIsStored`, `OneCallAtATime`,
`ReplayIsCurrent`, `NoStaleVerdict` and others hold in these runs as well when they are added to the
configuration.

### Bounds, and why they are enough

- **Session** (`MCAltSession`): a chain of three routes, "/" → "b" → "c", with `MaxPages` 2 and
  `MaxDepth` 1, so that both limits cut something off; a form on "/" with two cases and a context
  case that only a plan adds, with `MaxCases` 2, so that the cap cuts as well; a destructive form on
  "b"; one safe action; one developer activity, which may come at any await. With Gemini on there are
  two sessions instead, because a stale plan needs a second one, and "c", the action, the activity
  and one of the cases are left out: what plans do to the queue does not depend on them.
- **Queue**: two routes, two visits of the same route that differ in depth, two tests of equal
  priority, and three insertions (`MaxSeq`): enough for a key to be pushed, popped and pushed again,
  with a tie to be decided by insertion.
- **Service worker**: a page with one case and two deaths, so that a death during the recovery from
  the first one is included (the one retry of the interrupted case, `retried`, is only told apart by
  the second); of deaths, activities and plans at most two in a behaviour (`Disturbances`), while alarms
  come as they like, during a boot as well.
- **Shell**: two tabs, so that one may be forgotten; two pages, each of an origin of its own, of which the
  second is where the server may send the load of the first (a sign-in page); two operations of the loop and two
  faults, so that a load of one task can end the wait of the next. Three ports of the panel and three
  uses of it, so that a port can be replaced while its successor is silent; three sockets, for one
  that is replaced, one that fails and one that heals. Of the troubles (the loop busy with the panel
  closed, the panel used while the loop rests, the helper) one family comes in a behaviour and three
  events of it.
- **Gemini plans**: four asks about three forms, one asked about twice: sharing a call, and waiting
  behind another. Room for two plans, so that the third evicts; one storage fault and one death.
- **Case planning**: forms of two fields, the first of thirteen sorts and the second one that is required,
  an end date, a company or an email (what the first can collide with), and special ones (search, login,
  destructive), because each interaction in the code is between a field under test and one other; plans
  with eight values for each field, among them a blank, a number off the step, a past day and a day there
  is not. `MaxCases` is the default of the settings, 12, which the larger forms exceed and the
  smaller ones do not, so that `EachLimitOnce` meets both.
- **Case run**: seven kinds of case (those the executor treats differently), every honest
  application, three polls. `settle()` looks at two consecutive polls, so the third is one on which
  everything may still differ; more polls repeat it (and the proofs are for any number).
- **Content**: a page of 18 elements (an invoice: a form, a dialog with a form that a button opens,
  groups without a form, repeated and unlabelled fields, one with the key a repeated one would get,
  links), whose dialog is opened by an attribute or by its nodes, and one with shadow trees, opened by an
  attribute or a style; ids a load makes, and one of the author's that looks made;
  two loads, one reload of the extension and two changes of the dialog, so that an orphan meets a new script. Keyboard: three controls on a grid of four cells,
  which has every order of rows and columns. Faults: a page with none, one, two or all of eight
  faults, with limits of two for the findings of a kind; five pages that scroll sideways because of
  different boxes, one that cuts what sticks out and so does not scroll, and one with controls under layers
  that are pinned or modal, near and far.
  Capture: two submits and two requests in windows of one or two ticks, so that a request can be in
  both windows, in one, or in none; sent by `fetch`, by a `Request` and by `XMLHttpRequest`; the hook is
  turned off and on again (`Toggles` 2). Filling: two forms of the fields the code treats differently, five
  assignments of values, two regions and two texts, two acts of the application, so that it can undo
  what it did.
- **QA manager**: three calls of any kind (start, save, stop), so that two await the end of the first
  one's run, and both begin one; one action per run, so that its three events just fit the replay
  buffer (in the code a run's events fit its 40 as well); two connections of the panel, one of them
  lost; a queue of four events, which a panel that does not read while two runs go by overruns.
- **QA run**: two runs over one Chromium, two steps, replies of up to two calls and two screenshots
  kept, so that one is dropped; three launches (a preflight beside a run's own) and two
  cancellations, the second in the middle of what the first one made the run do.
- **Web**: four files, one of each kind the API tells apart (fine, corrupt, flagged, unsupported), of
  which an input holds two; two submissions, so that an aborted request meets its successor; one
  restart of the API, which forgets its files. Two streams of three tokens, cut anywhere. Two mounts
  and two takes of the recorder, so that a permission can come to the tab after the one that asked.
  Room for two attached files and three choices, so that the third meets a full list, images by
  ones and twos among other files, and every tab from which they can be chosen.

Numbers that stand for time are ticks: in `Capture` the windows, in `FormFill` the page's rest
(300 ms), in `ContentScript` nothing but the order of a timer and the changes that restart it.

`CHECK_DEADLOCK FALSE` stands in the configurations in which the system may stop: a session that
is watching, stopped or paused with all its bounded calls made, a case or a run that has ended, a QA
manager with no run and no call left, plans all answered, a page that rests. The queue and the
service worker never stop (an empty queue is popped, the alarm ticks), and deadlock is checked there.

## 4. Fairness

Safety properties and proofs assume nothing. A liveness property names the actions that cannot be
held up:

- `AltSession`: the loop's steps, because every await of the loop is one of Chrome's promises, a timer, or
  a message with a time limit (`worker-tab.ts:11`), but for the `fetch` of `checkLinks`
  (`session.ts:367`), of which it is assumed that the server answers or the connection fails; the alarm,
  which Chrome fires every 30 s; a plan's arrival or failure, after 20 s at the latest (`gemini.ts:29`).
  The panel and the developer owe nothing, and a session nobody resumes stays paused.
- `ServiceWorker`: the same for the loop, the steps of the boot, and the alarm, which outlives the
  worker. `RecoversFromCrash` speaks of the time after the last death; a session whose worker is
  killed again and again need not get anywhere. Writes are *not* fair: they may fail for ever.
- `WorkerTab`: Chrome answers (`Ensured`, `Create`, `Mark`, `Navigate`, the boot), and the waits for a
  load and for the script end with their timers (`WaitTimesOut`, `Answered \/ Unanswered`). A load
  itself owes no end. `TaskDone` is strongly fair, because the tab it needs may come and go.
- `PanelLink`: the silent retry, the notice of a lost port, the timeouts without a state and of an
  export, and what the worker does for a port once it runs. The developer need not open the panel.
- `HelperLink`: storage, the alarm, the retry timer, and the events of each socket. The helper may be
  off for as long as it likes; `LinkHeals` speaks of one that stays.
- `GeminiPlans`: storage answers, a job whose turn has come calls, and the abort timer ends a call.
  The service itself owes no answer.
- `CaseRun`: the executor's steps, all of which are timers or messages with a time limit. The
  application, the network and the page owe nothing.
- `ContentScript`: the 800 ms timer. It starts again with every change (`content/index.ts:233`), so
  that `ChangesReported` leans on the bound on changes: a page that never rests is never reported.
- `Capture`: posts are delivered, timers fire, a request's body can be read, and every request is
  answered. `EveryCaptureEnds` also assumes that a start is posted within the 10 s of the buffer; a
  request pruned before its start is read leaves a capture whose timer of 0 ms is set again for ever.
- `QAManager`: a run's step (every await of a run is limited by its own time-outs and, around
  `run_qa`, by `asyncio.timeout`), a coroutine whose awaited run has ended, and the debounce.
- `QARun`: the same seen from inside: launches, opening and closing answer or fail, the run's time limit
  fires, calls and cancellations go on. `RunEnsures` is strongly fair, because the lock may be held by
  a preflight whenever it looks. The model may never answer: the time limit is there for that.
- `AiWorkflow`: the API serves a request or the connection fails, and what arrives is read.
- `VoiceRecorder`: the recorder's events and its time limit of a take. The user may leave the question
  for the permission unanswered for ever; a recorder that could not be made has no events, and `MicGoesOff`
  does not speak of it.

Deadlines themselves are not modelled as numbers: a wait that has one may end at any moment.

## 5. Where code and documents disagree

What follows was met while the models were written. For each TLC prints a trace, mostly in a few seconds.
The passing runs say what holds in spite of them, by naming the exception in the property; elsewhere they
are the reason for a premise or a bound.

### Statements of the code and of its documents that the models refute

The first three are in `AltSessionPlans.cfg`, a configuration beside the listed ones; one of them is switched
on, the other two stand in comments. Every other one is refuted by adding its property to the configuration
named, with its constants or the change given.

- **Tests of other forms are thrown away** (`AltSessionPlans`: `NoOrphanCase`, `session.ts:204`).
  `enrich()` removes every queued test that is not among the merged cases of *its* form. The tests of
  all other forms leave the queue and are never pushed again; the plan of phase 1 says only cases of
  the form that have not run are replaced. This is why `NoOrphanCase` is checked without Gemini only.
- **A late plan is not worked on** (`AltSessionPlans`: `DrainedWhenWatching`, `session.ts:206`). A
  plan that comes when the session is already `watching` queues its tests, but neither changes the
  status nor kicks the loop: the tests wait for the developer's next navigation.
- **The gate reads an old form** (`AltSessionPlans`: `NoDestructiveSubmit`). `test()` hands the executor
  the form it read before it waited for the tab (`session.ts:381`, `executor.ts:103`); a plan that
  flags the form destructive meanwhile comes too late. What the heuristics flag is safe.
- **Events during the boot** (`ServiceWorker`: `LoopAfterRestore`, `index.ts:178`). The alarm and
  the watcher do not wait for `booted`. Between the restored state and the restored queue the status
  is `live` and the queue empty: the loop starts, says `watching` and writes the empty queue. All runs
  and proofs have such events; what they overwrite is part of `excused`.
- **A second tab** (`Shell`: `AdoptsNeverOpens`, `session.ts:459`). A loop that starts in that window
  finds no tab it knows and opens another one, while the boot adopts the first or the task forgets it:
  "Adopt the existing ALT tab instead of opening another" (`index.ts:196`). `NoTabForgotten` names such
  tasks (`early`).
- **Two QA runs at a time** (`QAManager`: `NeverTwoRuns`, `QA/manager.py:127`). Two calls that await
  the end of the same cancelled run both start one afterwards, and nobody can stop the first of the
  two any more (`orphans`). What `qa_manager` shows holds beside it: `OneRunAtATime` of all other runs,
  and `StopStops` of all calls that did not wait beside the stop.
- **Reversed dates** (`CasePlanning`: `EndBeforeStart`, `shared/merge-plan.ts:162`). A plan's start
  date takes its place in the case about an end before the start (`shared/datagen.ts:559`), which then
  has none. `OneFaultEach` excepts a case in which a plan has moved the other date.
- **A plan's values** (`CasePlanning`: `PlanValuesFit`, `shared/merge-plan.ts:93`).
  `satisfiesConstraints` lets through spaces for a required field, a number off the field's step and a day
  there is not (31 February), and the happy path is made of them. `OneFaultEach` excepts just these.
- **Ids made by counting** (`Content` with `Pages <- MCCounted`: `NoSelectorLeansOnMadeIds`, `content/selectors.ts:74`). The
  patterns for generated ids miss them, and a selector leans on one. `ScanOutlivesLoad` is about pages
  whose made ids the patterns know.
- **Fields in a shadow tree** (`Content`: `NothingComesUnnoticed`, `content/index.ts:257`). The
  observer of the document does not enter shadow trees, which the scan does.
- **The box to blame** (`Content` with `Screens <- MCFlexible`: `BlameIsRight`, `content/health.ts:123`).
  A flexible item that a child of a fixed width lifts is ranked above the child, and blamed.
- **A body used up** (`Content` with `Requests <- MCConsumed`: `CallsAreCaught`,
  `hook/hook-core.ts:143`). A `Request` with a body is cloned after it was sent, which throws: the submit
  is reported without it. In `content` such requests have no body.
- **A stopped answer** (`Web`: `OnlyFlaggedBlocked`, `client.py:170`). An answer the provider stops
  is told as "The content was flagged by safety filters. Try different input.", without "Try again",
  whatever the input. `RetryWhereItHelps` says that the retry is withheld only where the input is at fault
  or any other one would have met the same.

### More of them, in short

| Start from | Change | Property | What happens |
|---|---|---|---|
| `AltSessionGemini` | the larger constants of `AltSessionPlans.cfg` | `ExecutedCasesKept` | a plan that finds a form destructive filters its cases before it keeps the executed ones (`shared/merge-plan.ts:196`, against the comment at `:198`); their executions stay, without a case |
| `AltSessionHeuristic` | `Landing <- MCRedirects`, `MaxPages = 1` | `PageLimit` | `session.ts:225` tests the limit against the route it was asked to visit; a redirect records another route (`:262`) |
| `Queue` | `MaxSeq = 4` | `DiscoveryFirst` | the boost puts the developer's tests before other pages' visits; the header of `queue.ts` says discovery comes first |
| `ServiceWorker` | `DevActivities = 0`, `Disturbances = 3` | `InterruptedHasResult` | recovery re-queues the interrupted case without recording the `error` of which the phase 1 plan speaks; when the second attempt is interrupted too, the case has no result at all (`session.ts:521`) |
| `QAManager` | `Requests = 2`, `Connects = 0` | `EveryRunReports` | a run cancelled before or while its page opens ends without the `stopped` report the plan promises (`docs/plans/live-qa-agent-plan.md:471`) |
| `CasePlanning` | | `OwnUniqueValues` | a context case gets the happy case's unique values, so that it collides as the duplicate the comment at `shared/merge-plan.ts:155` wants to avoid |
| `CaseRun` | `Apps <- BannerApps` | `VerdictIsRight` | the baseline of messages goes with the document; after a full navigation a standing alert counts as news (`content/observe.ts:304`, against `shared/messages.ts:56`) |
| `CaseRun` | `Apps <- QuietApps` | `VerdictIsRight` | an application that refuses with a 200 and renders that late is settled on before it has: the last page was read before the response, the pending requests after it (`executor.ts:123`) |
| `CaseRun` | `Apps <- AutosaveApps` | `VerdictIsRight` | a request of the filling that begins in the last 50 ms before the submission counts as the submission's (`executor.ts:216`) |
| `CaseRun` | `Apps <- LocalApps` | `VerdictIsRight` | an application without a server that empties its form after it took the input leaves required fields invalid, and is judged to have refused it (`shared/outcome.ts:39`) |
| `Shell` | | `DialogsNeutralised` | "a dialog can never block the unattended test run" (`content/main-world.ts:6`): a page the tab moved to by itself is not marked |
| `Shell` | | `OnlyDevelopersActivity` | while ALT's own tab is being created, or not adopted yet after a death, the watcher compares with an id that is null and takes its loads for the developer's (`watch.ts:10`) |
| `Shell` | | `OnePort` | the panel "owns the port" (`sidepanel/connection.ts:28`); a timeout connects again without closing the port that kept silent |
| `QARun` | | `NeverAutoApproved` | "the run ends, never auto-approved" (`QA/guards.py:7`): of several safety decisions in a reply only the last one is kept |
| `Web` | | `NothingGone` | the page keeps the ids of files a restarted API has forgotten, and no button uploads them again (`docs/adr/0014`:49, `web/lib/workflow/use-ai-workflow.ts:32`) |
| `Web` | | `MicOnlyWhileShown` | the cleanup of `web/hooks/use-audio-recorder.ts` finds no recorder to stop while the permission is asked for; the time limit is what turns the microphone off |
| `Content` | | `SubmitIsNoAction` | "Orphan-group submit buttons are the form's submit, not a separate action" (`content/discover.ts:490`): in a shadow tree `querySelector` does not resolve the submit's selector |
| `Content` | | `SubmitIsNoCancel` | a button without a type is a "submit"; where Cancel comes first it is taken for the primary action (`content/discover.ts:191`) |
| `Content` | `Reused = TRUE` | `ReportsAreTrue` | a page that sends through one `XMLHttpRequest` again and again: the listener of each earlier send posts an end for the later answer too, and a report has an answer that is not its request's |
| `Content` | | `OldIsNotTold` | of several regions that say the same only the first is in the baseline; when that one goes, the next is told as news (`content/observe.ts:113`) |

Others are excluded by the constants `MCContent` chooses: a field the application copies another one
to while a reset is told (`content/observe.ts:292`), and a radio button asked for by its label, which
is reported as sanitised though it was chosen, other than an option of a list
(`content/fill.ts:174`, `:209`).

### Without a run of their own

- A restart of the worker forgets that the token was refused, so that the promise of
  `docs/plans/alt-extension-plan.md:603` holds until the next eviction.
- Nothing in the build constructs the helper's `Connection`, nor the capture pipeline and the hook;
  their tests do. They are modelled as they stand.
- What only a class or a style shows is no structural change (`content/index.ts:251`); `Observed` has it so,
  and `NothingComesUnnoticed` leaves it out.
- A link that never answers holds up the loop for ever: `checkLinks` waits without a limit (`session.ts:367`).
- `readSse` takes any clean end of a stream for its completion.
- `pathSelector` gives the top siblings of a shadow tree no `nth-of-type`, against "verified" at
  `content/selectors.ts:174`; `fieldKey` falls back on an id that may be generated (`:273`). The selector of
  a group of radios names no shadow tree (`content/discover.ts:124`), so that in one it finds nothing.
  `AllNameable` excludes all three.
- The check for duplicate triggers of a capture remembers the last container only; one request may be
  reported for two overlapping submits.
- An `invalid` event of the application's own `checkValidity()` during a fill counts as the browser's
  refusal (`content/observe.ts:146`); a field changed by a later field's handler is not read again
  (`content/fill.ts`).

## 6. What is proved

All theorems are about the same modules and definitions the runs check, for every value of the
constants that satisfies the modules' named assumptions, which TLC evaluates in every run. The
assumptions give constants their types and say which sets are disjoint or finite; further premises
stand in the theorems.

**The queue** (`BackgroundProofs`). `Consistent` is inductive: keys are the keys of the tasks, insertion
numbers belong to keys, are distinct and below the next one. `QueueImplements`: with `Consistent`,
two tasks are always ordered, hence a finite set has a first one, which is of minimal rank, and each
operation maps to the abstract one. `RestartKeepsOrder`: new numbers are handed out in the old order.

**The session** (`AltSessionProofs`). The types alone do not imply that a case runs once:
`IInv` adds that the popped task fits the await the loop is at and, while a test is on its way, has
not run (`TaskFitsPC`), that the in-flight mark names that test (`InFlightIsRunning`), and that
queued keys are distinct (`QueueKeysUnique`). From it follow `TypeOK` and `RunOnce`. With it
`Gate` is inductive as well: a heuristic flag is set when a form is registered, kept by every
merge, and part of what a test has read; `HeuristicsRespected` follows. `PlansStayInSession` and
`FlagsAreNeverCleared` go step by step. `DrainedWithoutGemini` has the premise `~UseGemini`, without
which it is false (`AltSessionPlans.cfg`), and so has `NoCaseIsForgotten`, which
`AltSessionPlans.cfg` refutes without it: `OrphanInv` adds that without plans every case belongs
to a registered form of the session, so that no popped test is skipped without having run.
`BoostedComesFirst` has the premise `BoostDecides`, because the code's boost is a number, -1,000,000:
below 1,000 levels and 900,000 cases of a form it outweighs every other difference in rank. It needs
that nothing queued or worked on is deeper than `MaxDepth` (`DepthInv`, which also gives
`DepthIsLimited`), and that keys are unique, so that the only visit of a route is the one it takes.

**The service worker** (`ServiceWorkerProofs`). What a death costs depends on what was written, so that the
invariant speaks of both copies of the state, with alarms and navigations at any moment of a boot.
`LiveInv`: every task ever queued is in the live state queued, at work, done or excused, or will come back
when the boot ends (`Back`). `DiskInv`: the stored state misses only what a death at this moment would
excuse, which is what was queued since the write and the task popped then, and once the worker has died,
nothing but what is excused. `EarlyInv`: a loop that began during the boot has its queue stored, so that
what `Restore` puts in its place is known. From these follow `DeathsCostTheUnwritten`, `MarkStaysTrue` and
`QueueStaysStored`, for any number of deaths and any age of the stored state, without a premise.

**The QA manager** (`QAManagerProofs`). Calls, saves and the debounce may come at any await. Then only
this much is true of runs that are alive: they are in the slot, or orphans (`SlotInv`). `CallInv` says who
will begin a run, and that no call begins two; `StopInv`, that while a stop waits whatever is alive or to
begin is the run it awaits, of a call that waited beside it, of a later one, or an orphan; `StaleInv`,
that a run a save has outdated is cancelled, or past the point where it could report, or an orphan. These
give `OneRun`, `StopIsFinal`, `StaleRunsAreSilent` and `ReplayStaysCurrent`. Each names the orphans, and
has to: `NeverTwoRuns` is false. `ReportInv` relates a run's phase to its reports: none while it works,
one while its page closes, at most one after that and none missing unless it was disturbed by a
cancellation; it gives `EveryRunIsReportedOnce`, orphans included. For the panel, `FollowInv` says of what
the manager still replays, of the run that began in it last, that its report follows if there is one
(`Tells`), and that what the panel has not read yet either tells the same or completes what the panel
shows (`Completes`), while orphans go on emitting in between. Full buffers drop from the front, so that a
buffer which still holds the start holds all that came after it (`NewestTells`); `PanelFollowsRun` is the
case of an empty queue.

**The QA run** (`QARunProofs`). Launches happen on a thread that goes on after its coroutine was
cancelled, so the question is what is left behind. `LockInv`: whoever launches holds the lock, and no
Chromium that is known runs meanwhile; `ContextInv`: an open context belongs to the present run at a step
where a page is open, to a run cut off, or to one whose page failed to open or to close; `CutInv`: the run
that is at work has not been cut off, so that it can be cut off only once; `ProcInv`: the processes
besides the known one are no more than the runs cut off. Together they are inductive and imply
`NothingLeaks` (`RunsLeaveNothing`), for any number of runs, launches and cancellations.

`EveryCallIsAnswered` is about the conversation with the model. `TalkInv`: while a reply is worked on,
the conversation before it was one that can be asked about (`Fit`), and the outcomes so far are of its
first calls, in their order. The heart is `PruneKeepsNewest`: each asking prunes what an earlier one
left, and counts the images that are *left*. An image that was dropped had `Keep` newer ones behind it,
so that wherever the count of images left is below `Keep` none behind is missing; counting those ever
taken, as `NewestShotsKept` does, decides alike.

**The worker's tab** (`BackgroundProofs`). `TabInv` is about `PanelLink`, the tab with the panel on top.
`TaskHasItsTab`: a task is at work only where the state has been read, and unless it began before the tab
was adopted (`early`) the boot is over, and while its tab is being created there is no open one ALT knows
of; `Existing`: no id is known before its tab exists; `BootKnows`: between the two reads of a boot in
which no task has begun the id of an open tab is on its way; `OnTheWay`: unless a wait timed out, a load
was aborted or the page moved by itself (`doubt`), the tab is going to the wanted page, there, where the
site ends that load, or on the error page. They give `TaskWorksOnThePage`, for any `Landing`,
`TabsAreKept` (the worker loses sight of a tab only by dying or through an early task) and
`OwnLoadsAreKnown` (a load of ALT's own tab passes for the developer's only before the tab is known).

**The helper link** (`BackgroundProofs`). `OneLink`: for any number of sockets, pairings, retries, alarms
and restarts there is one socket alive. `LinkInv`: a socket that is not free is the one `ws` names; a
retry waits only where there is none; and before the stored token has been read there is neither, so
that the boot's `connect` cannot meet another's. That read comes first in the queue of the storage.

**The content script** (`ListProofs`). `VoiceInv`: every copy of the script belongs to a world
of the extension that is or was, at most one copy is of the present one, which is listening, and where
there is one the others are silent, because they heard the event by which a new copy retires the old
ones. It needs the guard `AlreadyInjected`: the two ways of injection meet in one document all the
time. `OneVoiceSpeaks` follows, for any page and any number of loads and reloads.

**The capture of submissions** (`PageProofs`). `ReportsAreOwn`, with the premise `~Reused` (section 5 has
what happens without it). `EndsAreOwn`: an end carries the answer of its own call, and the pipeline knows
each request as it was called; `GathersOwn`: an open capture holds every known request around its submit
and no other; `EndedBeforeReport`: when a capture's timer stands on its last wait, all it holds that is
known has ended, because a start or an end of one of them sets the timer anew.

**The web page** (`PageProofs`). `WorkInv` follows a submission through page and API: one submission is
heard at most, and it is of the input on the page (`OneHeard`); an id the page holds is that of the file
or of one the API forgot (`IdsKept`); what is asked for the submission is each missing file once, and
then the model about all (`Asked`); an answer that withholds a retry is about an input at fault, or one
that the provider would have given to any other (`Judges`, `Judged`), and one that offers it says what any
other would have met; and the page shows how far it is (`Shown`). They need each other: that the model is asked
about the right ids leans on uploads of aborted submissions not being heard. `PageShowsItsInput`
and `RetryIsOfferedWhereItHelps` follow, for any files and any number of submissions and restarts. The
lemmas before them follow an error through the layers of `AiService`. Premise, and named assumption of
the module: the files are finitely many.

**The token stream** (`PageProofs`). `TokenInv`: the remainder of the last chunk followed by what is on
the wire is whole events, first those of the tokens not yet shown, in order, then the one that ends the
answer (`HasEvents`); what is shown is a prefix of what was said. A chunk may end inside an event; that
the remainder is put before the next one is what keeps the halves together. `StreamIsFaithful` follows
for any number of requests and tokens and every way of cutting them.

**The input form** (`PageProofs`). `AttachedFilesStay` needs the types only. The work is in the lemmas:
appending, cutting a list at a limit it has not reached and removing one element are shown on sequences
to lose nothing else, and a tab's guard `Full` is what makes the cut harmless.

**Gemini plans** (`AltSessionProofs`). `FlightInv`: `inflight` names exactly the pending jobs;
`ChainInv`: all jobs before one that has begun are done; `StoreInv`: every storage request belongs to
one ask or job, and a write carries what is stored with its own plan on top. `OneCall` needs the
first two. `StoredPlansAreUsed` needs the third, since a job that has read the plans before another
one's write would undo it. So does `NoPutIsUndone`: with it every write is a put on top of what is
stored, and `PutsInv`, that the stored signatures stand in the order of their last puts and that
what is missing was put before all of them, is kept by taking out, appending and evicting.

**The case run** (`CaseRunProofs`). `RequestInv` numbers the requests: each is recorded once, and
only Back sends in the third phase, hence `BackIsBlamedRightly` for *any* application. For
`VerdictsAreRight`, whose premise is that the application is honest, `VerdictInv` says that what a
page, the executor's last reading of it and its reply show are each evidence of what the server
did: a message, a move or an emptied form appears only after a recorded answer, and an answer is
recorded with the application's own status. Without the premise the statement is false, as
`QuietApps`, `BannerApps`, `AutosaveApps` and `LocalApps` show.

**The filling of a form** (`CaseRunProofs`, about `FormFill`). Both theorems rest on `Touches`: whatever
the handlers do while one field is filled in, every other field is as it was or has "other" as its last
writer, shown event by event (`FireTouches`) and put together for clicks, lists and texts. For
`FillingIsToldRight` the inductive part is `FillTold`: while fields are left, each report so far is of a
field that is not, and true. Its premise `ByValue` says that radio buttons are asked for by their values
(`shared/datagen.ts:305` and `shared/merge-plan.ts:93` see to it; by a label the report is wrong,
section 5). `EvidenceHolds` needs
`Remembered`, that a fill remembers of each field the default a reset restores and that after a reset
every field is at it, and `PageTyped`, that the baseline is made of what the regions said and that the
page's rest counts from the application's own changes. Of several regions that say the same the first
is the one in question: there is one by well-founded induction on numbers (`LeastOf`). Its premise
`NoneSyncs` excludes a framework that keeps the default of a control in step with its value: then every
filled form looks reset. The run's constants satisfy both premises.

**Lists** (`ListProofs`). A test case or a report is what a chain of loops over a form or a page makes of
it, so that the proofs lean on what a loop computes. The library states induction with an operator as a
parameter, which the provers cannot instantiate; three lemmas take its place. `UpTo` has the induction as
a fact about a set of numbers, `Built` and `Grown` show that there is a function with the values a
recursion along a list, or up a tree, prescribes, and that it has the type of a step's results. Sorting
and filtering need neither: `InOrderIsOrder` counts how many come before, from which `SortedSorts`
(ordered by the key, ties as they were, nothing lost) and `FilteredKeeps` follow.

**Case planning** (`ListProofs`). `PlanInv`: the cases of a form test one thing each (`ProperCases`), have
different ids (`OwnIds`), are sorted by priority and no more than the setting allows, and until the plan
has come whatever has run is among them. One fault each is shown kind by kind: what the heuristics fill in
fits its field, each test is wrong as its kind says, a case changes one field of the happy case, and a
plan's value only takes its place where `satisfiesConstraints` lets it. `Fine` is what the form would take
by the rules of HTML, of which that function asks less (`Slips`), and a plan may move the other date of
the case about reversed dates (`Moved`): the two exceptions, refuted without in section 5. Different ids
are what makes `MergeKeepsBest` true: the merge puts first what has run, sorts the rest and cuts, so that
nothing left out is better than something taken in. `PlanningOneFault` has the premise `ClearFields`: a
field's type agrees with what its label says it is, its limits leave a value, those of an integer field
are integers, and its step leads to its largest value and to the number preferred for it, since
`shared/datagen.ts` looks at no step when it makes the happy value; without it the happy value itself is
wrong, and no case has just one fault. The run's forms satisfy it (`MCAssumption`).

**Page health** (`ListProofs`). What has been answered is what the checks make of the screen
(`HealthInv`); the rest is about the checks. *The walk*: both orders are of the same controls, that of Tab
sorted by a positive `tabindex` and otherwise as in the document, that of the eye by rows and then from
the left; they differ exactly when Tab goes backwards somewhere (`TabJumps`). The code begins a new row
with a control half a height lower than the one that began the last, so that what is one row depends on
where rows begin; premise of `HealthWalk` is `OnGrid`, under which it does not (`RowsApart`,
`VisualReads`). *The report*, without a premise: each finding is told by one check, of one kind (`Sound`),
every kind found at all is in the report, and no more than `MaxPerKind` of it (`KeptHas`, `KeptFew`). *The
box to blame*: `Likelier` is an order (by the cause, then depth, then width, then the place), so that
among finitely many candidates there is a first (`CulpritIsWide`); if it were only stretched, what
stretches it would come before it. The premise `Stretches` of `HealthBlame` is about layout, not about the
code's ranking: where a page scrolls sideways, a box that is wide by itself is wide whatever it is in (a
`min-width`, a table, an image, a preformatted text) or sticks out of its parent; and a box that only
sticks out of the screen is lifted by one of the former inside it, or fills one that is wide or lifted.
That the first is what `Cause` prefers is proved. What `Stretches` excludes is where the code goes wrong
or says nothing: a flexible item lifted by a child of a fixed width (section 5), and offenders
within a box that scrolls or cuts.

**What a scan names** (`ListProofs`). `ScanLasts`: for pages of any size, with shadow trees in shadow
trees, whatever is open when they are scanned, what a scan calls a form, a field or an action finds it in
every later load with the same elements, and nothing else; no two fields of a form have one key; and as
long as the same is open the forms have the same ids. Of the patterns of `LooksGenerated` it assumes only
that they miss no id a load makes; what they match of the author's own is given up, and does no harm.
*Selectors*: each of the ways `selectorInRoot` tries goes by nothing a load makes anew (`Stable`,
`TriesAlike`), so that the choice is the same in every load (`SelectorInRootIs`), and what is chosen is
unique, except for the path, of which the code does not ask. It is all the same (`PathFinds`): an element
the path fits has the same ancestors as the one it was made of, from the anchor down, since at each step
the tag and the number tell siblings apart (`NthApart`); and what holds in each tree holds along the hosts
(`SelectorFinds`). *Keys*: a second field with a key gets a longer one, and among so many lengths one is
free (`FreeIsThere`, `DedupeDistinct`). *Forms*: the fields, the submit button and the order depend on
what is visible and not on the load, and so do the keys (`FieldKeyIs`), hence the ids (`FormsAre`). The
premise is `AllNameable`, which is what the code takes for granted of a page: ids that loads make are
among the patterns, at the top of a shadow tree an element has an id or a tag to itself, radios that form
a group are in the document, and a field whose id is generated has a name or a label. Without each of the
four there are pages for which the statement is false (section 5). The run's pages satisfy it
(`MCAssumption`).

## 7. What is only model-checked

- Everything under fairness: `CatchesUp`, `RecoversFromCrash`, `SaveLeadsToRun`,
  `EveryAskIsAnswered`, `EveryCaseEnds`, `EveryTaskEnds`, `PanelCatchesUp`, `LinkHeals`, `EveryRunEnds`,
  `WebSettles`, `ChangesReported`, `EveryCaptureEnds`. The provers at hand do not reason about fairness.
- `PanelLink`'s port and `VoiceRecorder`, whose properties are among the first.
- `DuplicateRepeatsHappy` and `EachLimitOnce`, about what planning and merging make of certain cases.

Every other property of a passing run is stated by a theorem. The violations of section 5 are TLC's as well.

## 8. What the models leave out

- **Time.** Deadlines are nondeterminism (section 4). The 5 s throttle of the developer's activity
  becomes a bound on activities, backoff delays become "later". `paceMs` is taken to be positive, so
  that the loop always awaits between two tasks. `CaseRun` counts polls; the recorder's cut-off of
  10 s for pending requests is longer than the 6 s of settling and therefore left out.
- **`AltSession`.** The site is constant (routes, forms, links, actions, and where a visit may land),
  the session's origin goes with its id, all URLs of a route are one. Health findings, the activity
  log, the overlay and the attribution of console and network events to pages are left out; checking
  links is one await. `getSettings()` answers from its cache and does not suspend the loop for other
  tasks. Queue ties are nondeterministic. Settings do not change under a session.
- **`ServiceWorker`.** One session; a task that fails is `failed`; once the tab is ready, a task is one
  await (`WorkerTab` has what is inside it). Trimming the stored state to its quota (`store.ts:146`) is
  left out: it drops executions of the history, never queue, cases or marks.
- **`WorkerTab`, `PanelLink`, `HelperLink`.** A page is one of a few; what the loop does on it is the
  session's matter. The live branch of the helper's `wake()` never finds anything to do. Frames of
  events change nothing in the link.
- **`GeminiPlans`.** One origin; `chrome.storage` answers in order; the check of `useGemini` is
  the session's; a job may start later than at once after the one before it. Invalid answers are one
  of the failures.
- **`CasePlanning`.** Patterns, minimum lengths, labels of options, file fields, ranges, collisions
  of the hash that makes values distinct and the truncation of unique values by a maximum length are
  left out; the regular expressions that tell an end date are the field's `end`.
- **`CaseRun`.** Console errors, wording, steps and the interaction log do not influence a verdict's
  status except through `snapshot`; types of requests are "call of a script" or "navigation". Of a
  classic double click the second navigation aborts the first. `settle()` reads the page and the recorder
  in two steps (`Poll`, `Answer`), so that a response may come in between. `Honest` is an assumption about the
  environment: status codes, or else the page, tell what happened, refusals are shown with or before
  their response, there is no standing alert after a navigation and no autosave in the window.
- **`PageScan`, `PageHealth`.** Test attributes (`data-testid`), the wording of labels and findings, fields
  missing from the document during a keyboard walk, ALT's own overlay, the limit of 5,000 elements and
  that of the 200 widest offenders.
- **`FormFill`.** Lists with several options chosen, nested regions, the tone of a message.
- **`Capture`.** What is redacted, filtered and scraped. The 50, 2000, 1500, 800 and 10000 ms of the
  code are ticks.
- **`QAManager`.** Error and interrupt events, which come with a report, are left out. The browser
  thread is a sequence of awaits, and the page's actions are steps without content.
- **`QARun`.** An action of the page succeeds, fails, is unknown, takes long or leads off the site.
  Prompts, screenshots' contents, the scenarios' text and the network summary are left out.
- **`AiService`, `AiWorkflow`, `TokenStream`, `VoiceRecorder`, `InputForm`.** The text of errors, prompts
  and results; the field lists of single pages; why a file does not fit (`fits`). A list of attached files
  whose keys are name, size and date (`web/components/workflow/file-preview-list.tsx`) shows a file
  chosen twice under one key.
- **Not modelled.** Components without a state of their own or whose state is rendering, regular
  expressions over labels and URLs (their results are constants), the event bus, items and their
  table (one statement per request), health, logging and rate limits of the API, the form-plan service
  behind `planForm` (an outcome of `GeminiPlans`), demonstration applications, evaluations, migrations
  and the build. `PROJECT.json` gives the reason for each.

## 9. Plan

The order followed so far: the session and its queue, which everything else serves; the deaths of
its worker; the QA manager; the plans; the planning and the execution of a case; the worker's tab
and its links; the QA run; the web client; the content scripts. What is left, by importance:

1. **Refinements between models that overlap**: `QARun` as an implementation of the run in `QAManager`,
   `WorkerTab`'s task as one of `AltSession`'s awaits, `AltSession` as `ServiceWorker` without deaths.
2. **Store and settings**: `trimToFit`, the settings' read-modify-write in two handlers at once.
3. **Network recorder** on its own: limits of 400 and 500, redirects, requests of a closed tab;
   `CaseRun` relies on its windows.
4. **The form-plan service** of the API, an outcome of `GeminiPlans` so far.
5. **The rest of a page's names**: test attributes, fields without a name or label, and the wording of
   labels, on which the heuristics of `CasePlanning` work.
