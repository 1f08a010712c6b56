------------------------------ MODULE WorkerTab ------------------------------
(***************************************************************************)
(* ALT's own tab: how it is created, marked, navigated and found again     *)
(* (background/worker-tab.ts), what the watcher takes for the developer's  *)
(* activity (background/watch.ts), and the two scripts every document of   *)
(* an enabled origin gets (background/injection.ts, content/main-world.ts, *)
(* content/index.ts).                                                      *)
(*                                                                         *)
(* The browser and the loop take turns: loads complete, fail or hang while *)
(* the loop waits, the tab may be closed, the page may navigate by itself, *)
(* and the service worker may die and boot again.                          *)
(***************************************************************************)
EXTENDS Naturals, FiniteSets

CONSTANTS
    Tabs,        \* the ids the browser gives to the tabs ALT creates
    Pages,       \* the pages of the sites
    OriginOf,    \* the origin of each page
    Home,        \* the page at the root of each origin
    Landing,     \* where the sites' servers and redirects may end the load of each page
    Ops,         \* bound: tasks of the loop
    Faults       \* bound: closed tabs, navigations of the page, deaths of the worker, switches of origin

None == "none"
ErrorPage == "error"
Origins == {OriginOf[p] : p \in Pages}

ASSUME WorkerTabAssumption ==
    /\ None \notin Tabs \cup Pages \cup Origins /\ ErrorPage \notin Pages
    /\ Pages # {} /\ Home \in [Origins -> Pages]
    /\ \A o \in Origins : OriginOf[Home[o]] = o
    /\ Landing \in [Pages -> SUBSET Pages \ {{}}]
    /\ Ops \in Nat /\ Faults \in Nat

VARIABLES
    tab,     \* the browser's tabs: open, page shown, navigation in flight, the origins whose
             \* session storage holds the mark, and what ALT's scripts do in the document
    tabId,   \* the tab ALT knows as its own
    stored,  \* store.state.workerTabId
    disk,    \* the value last written to chrome.storage.session
    origin,  \* the session's origin
    pc, at, site, want, \* the loop's task: its step, its tab, its origin, the page it asked for
    doubt,   \* the page may not be the one asked for: a timeout, an aborted load, the page's own move
    boot,    \* the service worker: "dead", "reading" storage, "asking" for the tab, "done"
    early,   \* the last task of this boot began before the boot had adopted the tab
    taken,   \* the tab of ALT's own whose load was taken for the developer's and queued a visit
    ops, faults

vars == <<tab, tabId, stored, disk, origin, pc, at, site, want, doubt, boot, early, taken, ops, faults>>
task == <<pc, at, site, want, doubt>>
known == <<tabId, stored, disk, origin>>

Loading == {"firstload", "secondload", "navigating", "moving"}
Creating == {"creating", "firstload", "marking", "secondload", "recording"}
Scripts == {"none", "plain", "neutral"}
NotYet == [life |-> "new", page |-> None, nav |-> None, marks |-> {},
           scripts |-> "none"]
Closed == [NotYet EXCEPT !.life = "closed"]

\* A session in which n tasks have begun.
InitWith(n) ==
    /\ tab = [t \in Tabs |-> NotYet]
    /\ tabId = None /\ stored = None /\ disk = None
    /\ origin \in Origins
    /\ pc = "idle" /\ at = None /\ site = None /\ want = None /\ doubt = FALSE
    /\ boot = "done" /\ early = FALSE /\ taken = None /\ ops = n /\ faults = 0
Init == InitWith(0)

Open(t) == tab[t].life = "open"
Alive == boot \in {"asking", "done"}
Scriptable(t) == Open(t) /\ tab[t].page \in Pages
\* The pages of the origin the task began with.
TaskPages == {p \in Pages : OriginOf[p] = site}
Goto(step) == pc' = step /\ UNCHANGED <<at, site, want, doubt>>
TaskEnds == pc' = "idle" /\ at' = None /\ site' = None /\ want' = None /\ doubt' = FALSE
Fault == faults < Faults /\ faults' = faults + 1

-----------------------------------------------------------------------------
(* The browser. *)

\* The MAIN-world script of a document: it reads the mark once.
MainOf(t, p) == IF OriginOf[p] \in tab[t].marks THEN "neutral" ELSE "plain"

\* A new document: the registered scripts run in it, unless it raced their registration.
Document(t, p, registered) ==
    [tab[t] EXCEPT !.page = p, !.nav = None,
                   !.scripts = IF registered THEN MainOf(t, p) ELSE "none"]

\* injectTab: both scripts; a MAIN-world script that is there already returns.
Injected(t) ==
    [tab EXCEPT ![t].scripts = IF Scriptable(t) /\ @ = "none" THEN MainOf(t, tab[t].page) ELSE @]

\* Mutant of EndsWait: the frame is not looked at.
EndsWaitAnyFrame(t, frame) == pc \in Loading /\ at = t

\* waitForLoad's listener: an event of the main frame of the tab it waits for.
EndsWait(t, frame) == pc \in Loading /\ at = t /\ frame = 0

\* The step after each wait.
AfterLoad ==
    CASE pc = "firstload" -> "marking"
      [] pc = "secondload" -> "recording"
      [] OTHER -> "pinging"

\* The watcher's test of a tab.
NotOurs(t) == t # tabId

\* onLoad, then onDeveloperActivity with its guards.
Noticed(t, p) ==
    taken' = IF Alive /\ NotOurs(t) /\ OriginOf[p] = origin THEN t ELSE taken

\* onCompleted: a navigation ends in a document, of the page asked for or of one the site
\* redirects it to.
LoadCompletes(t) ==
    /\ Open(t) /\ tab[t].nav # None
    /\ \E p \in Landing[tab[t].nav] :
         /\ \E registered \in BOOLEAN : tab' = [tab EXCEPT ![t] = Document(t, p, registered)]
         /\ Noticed(t, p)
    /\ IF EndsWait(t, 0) THEN Goto(AfterLoad) ELSE UNCHANGED task
    /\ UNCHANGED <<known, boot, early, ops, faults>>

\* onErrorOccurred: the error page, in which no script runs; nor does one in a page of a site
\* that is not enabled, to which a redirect may lead.
LoadFails(t) ==
    /\ Open(t) /\ tab[t].nav # None
    /\ tab' = [tab EXCEPT ![t].page = ErrorPage, ![t].nav = None, ![t].scripts = "none"]
    /\ IF EndsWait(t, 0) THEN Goto(AfterLoad) ELSE UNCHANGED task
    /\ UNCHANGED <<known, boot, early, taken, ops, faults>>

\* A frame inside the page completes: nobody waits for it.
FrameCompletes(t) ==
    /\ Open(t)
    /\ IF EndsWait(t, 1) THEN Goto(AfterLoad) ELSE UNCHANGED task
    /\ UNCHANGED <<tab, known, boot, early, taken, ops, faults>>

\* A test's submission or a click makes the page navigate.
PageNavigates(t) ==
    /\ Open(t) /\ tab[t].page \in Pages /\ pc = "working" /\ at = t
    /\ \E p \in TaskPages : tab' = [tab EXCEPT ![t].nav = p]
    /\ doubt' = TRUE
    /\ Fault
    /\ UNCHANGED <<known, pc, at, site, want, boot, early, taken, ops>>

\* onRemoved: the tab is forgotten wherever it is known; an event of a dead worker starts it.
TabClosed(t) ==
    /\ Open(t)
    /\ tab' = [tab EXCEPT ![t] = Closed]
    /\ tabId' = IF tabId = t THEN None ELSE tabId
    /\ stored' = IF stored = t /\ Alive THEN None ELSE stored
    /\ boot' = IF boot = "dead" THEN "reading" ELSE boot
    /\ Fault
    /\ UNCHANGED <<disk, origin, task, early, taken, ops>>

-----------------------------------------------------------------------------
(* The loop: ensure(), then navigations of the tab. *)

\* visit, exploreActions and test begin with worker.ensure(origin). The loop awaits no boot: once
\* the state is restored, an alarm or a tab of the developer's starts it.
Ensure ==
    /\ pc = "idle" /\ Alive /\ ops < Ops
    /\ pc' = "asking" /\ site' = origin /\ want' = Home[origin]
    /\ early' = (boot # "done")
    /\ ops' = ops + 1 /\ taken' = None
    /\ UNCHANGED <<tab, known, at, doubt, boot, faults>>

\* tabs.get answers for the tab ALT knows.
Exists == tabId # None /\ Open(tabId)

\* ensure: the tab is there (and a visit stores it), or it is created.
Ensured ==
    /\ pc = "asking"
    /\ \/ /\ Exists
          /\ pc' = "have" /\ at' = tabId
          /\ \E visits \in BOOLEAN : stored' = IF visits THEN tabId ELSE stored
       \/ ~Exists /\ pc' = "creating" /\ UNCHANGED <<at, stored>>
    /\ UNCHANGED <<tab, tabId, disk, origin, site, want, doubt, boot, early, taken, ops, faults>>

\* tabs.create: a new tab loads the origin's root, and the first wait begins.
Create ==
    /\ pc = "creating"
    /\ \E t \in Tabs : tab[t].life = "new"
    /\ at' = CHOOSE t \in Tabs : tab[t].life = "new"
    /\ tab' = [tab EXCEPT ![at'].life = "open", ![at'].nav = want]
    /\ pc' = "firstload"
    /\ UNCHANGED <<known, site, want, doubt, boot, early, taken, ops, faults>>

\* markWorker writes to the session storage of the document's origin.
MarkOf(p) == {OriginOf[p]}

\* markWorker and the reload; a page that takes no script is recorded as it is.
Mark ==
    /\ pc = "marking"
    /\ IF Scriptable(at)
       THEN tab' = [tab EXCEPT ![at].marks = @ \cup MarkOf(tab[at].page), ![at].nav = tab[at].page]
            /\ Goto("secondload")
       ELSE Goto("recording") /\ UNCHANGED tab
    /\ UNCHANGED <<known, boot, early, taken, ops, faults>>

\* create's end: the tab is known from here on.
RecordTab ==
    /\ pc = "recording" /\ Goto("have")
    /\ tabId' = at /\ stored' = at
    /\ UNCHANGED <<tab, disk, origin, boot, early, taken, ops, faults>>

\* A navigation of the tab. One that aborts another gets that one's onErrorOccurred as well.
Moves(step, p) ==
    /\ tab' = [tab EXCEPT ![tabId].nav = p]
    /\ at' = tabId /\ want' = p /\ UNCHANGED site
    /\ \/ pc' = step /\ doubt' = FALSE
       \/ tab[tabId].nav # None /\ pc' = "pinging" /\ doubt' = TRUE

\* navigate, with the refusals of a forgotten and of a closed tab.
Navigate ==
    /\ pc \in {"have", "working"}
    /\ \/ /\ Exists
          /\ \E p \in TaskPages : Moves("navigating", p)
       \/ ~Exists /\ TaskEnds /\ UNCHANGED tab
    /\ UNCHANGED <<known, boot, early, taken, ops, faults>>

\* reload and back, which may find no page to go back to and then wait for nothing.
ReloadOrBack ==
    /\ pc = "working" /\ Exists
    /\ tab[tabId].page \in Pages
    /\ \/ Moves("moving", tab[tabId].page)
       \/ \E p \in TaskPages : Moves("moving", p)
       \/ pc' = "moving" /\ at' = tabId /\ want' = tab[tabId].page /\ UNCHANGED <<tab, site>>
          /\ doubt' = (tab[tabId].nav # None)
    /\ UNCHANGED <<known, boot, early, taken, ops, faults>>

\* Mutant of WaitTimesOut: the creation's waits have no timer.
WaitTimesOutMoving ==
    /\ pc \in {"navigating", "moving"}
    /\ pc' = AfterLoad /\ doubt' = TRUE
    /\ UNCHANGED <<tab, known, at, site, want, boot, early, taken, ops, faults>>

\* waitForLoad's timer.
WaitTimesOut ==
    /\ pc \in Loading
    /\ pc' = AfterLoad /\ doubt' = TRUE
    /\ UNCHANGED <<tab, known, at, site, want, boot, early, taken, ops, faults>>

\* ready: the content script of whatever document is there answers.
Answered ==
    /\ pc = "pinging" /\ tab[at].scripts # "none"
    /\ Goto("working")
    /\ UNCHANGED <<tab, known, boot, early, taken, ops, faults>>

\* ready: half the time has passed without an answer.
InjectsLate ==
    /\ pc = "pinging" /\ tab[at].scripts = "none"
    /\ tab' = Injected(at) /\ tab' # tab
    /\ UNCHANGED <<known, task, boot, early, taken, ops, faults>>

\* ready: the time is over; navigate is not ok, and the task ends.
Unanswered ==
    /\ pc = "pinging" /\ tab[at].scripts = "none" /\ TaskEnds
    /\ UNCHANGED <<tab, known, boot, early, taken, ops, faults>>

TaskDone ==
    /\ pc = "working" /\ TaskEnds
    /\ UNCHANGED <<tab, known, boot, early, taken, ops, faults>>

-----------------------------------------------------------------------------
(* The service worker: the stored id, deaths and boots. *)

\* The store's debounced write.
Persist ==
    /\ Alive /\ disk # stored /\ disk' = stored
    /\ UNCHANGED <<tab, tabId, stored, origin, task, boot, early, taken, ops, faults>>

\* start() on another origin: a fresh state without the tab, which the worker still knows.
SwitchOrigin ==
    /\ boot = "done" /\ Fault
    /\ origin' \in Origins \ {origin} /\ stored' = None
    /\ UNCHANGED <<tab, tabId, disk, task, boot, early, taken, ops>>

Dies ==
    /\ Alive /\ Fault
    /\ boot' = "dead" /\ tabId' = None /\ stored' = None /\ early' = FALSE /\ TaskEnds
    /\ UNCHANGED <<tab, disk, origin, taken, ops>>

\* The next alarm, or any event.
Wakes ==
    /\ boot = "dead" /\ boot' = "reading"
    /\ UNCHANGED <<tab, known, task, early, taken, ops, faults>>

\* store.restore: the stored state is there again, and the tab it names is asked for.
BootReads ==
    /\ boot = "reading"
    /\ stored' = disk /\ boot' = IF disk = None THEN "done" ELSE "asking"
    /\ UNCHANGED <<tab, tabId, disk, origin, task, early, taken, ops, faults>>

\* Mutant of BootAdopts: a new tab will be opened.
BootForgets ==
    /\ boot = "asking" /\ boot' = "done"
    /\ UNCHANGED <<tab, known, task, early, taken, ops, faults>>

\* Adopt the existing ALT tab instead of opening another.
BootAdopts ==
    /\ boot = "asking" /\ boot' = "done"
    /\ tabId' = IF stored # None /\ Open(stored) THEN stored ELSE tabId
    /\ UNCHANGED <<tab, stored, disk, origin, task, early, taken, ops, faults>>

BrowserStep ==
    \E t \in Tabs : \/ LoadCompletes(t) \/ LoadFails(t) \/ FrameCompletes(t)
                    \/ PageNavigates(t) \/ TabClosed(t)
EnsureStep == Ensure \/ Ensured \/ Create \/ Mark \/ RecordTab
MoveStep == Navigate \/ ReloadOrBack \/ WaitTimesOut \/ Answered \/ InjectsLate \/ Unanswered \/ TaskDone
WorkerStep == Persist \/ SwitchOrigin \/ Dies \/ Wakes \/ BootReads \/ BootAdopts
Next == BrowserStep \/ EnsureStep \/ MoveStep \/ WorkerStep

\* Timers fire, Chrome's calls answer, and a task navigates only so often; no page has to load.
Fairness ==
    /\ WF_vars(Ensured) /\ WF_vars(Create) /\ WF_vars(Mark) /\ WF_vars(RecordTab)
    /\ WF_vars(WaitTimesOut) /\ WF_vars(Answered \/ Unanswered)
    /\ WF_vars(Navigate) /\ SF_vars(TaskDone)
    /\ WF_vars(Wakes) /\ WF_vars(BootReads) /\ WF_vars(BootAdopts)

Spec == Init /\ [][Next]_vars
FairSpec == Spec /\ Fairness

-----------------------------------------------------------------------------
(* What is claimed. *)

TypeOK ==
    /\ tab \in [Tabs -> [life : {"new", "open", "closed"}, page : Pages \cup {None, ErrorPage},
                          nav : Pages \cup {None}, marks : SUBSET Origins,
                          scripts : Scripts]]
    /\ {tabId, stored, disk, at} \subseteq Tabs \cup {None}
    /\ origin \in Origins /\ site \in Origins \cup {None} /\ want \in Pages \cup {None}
    /\ doubt \in BOOLEAN /\ early \in BOOLEAN
    /\ pc \in {"idle", "asking", "have", "pinging", "working"} \cup Loading \cup Creating
    /\ boot \in {"dead", "reading", "asking", "done"}
    /\ taken \in Tabs \cup {None} /\ ops \in 0..Ops /\ faults \in 0..Faults

\* The tabs ALT knows, is creating, or will find on the disk when it boots.
Found ==
    {tabId} \cup (IF pc \in Creating THEN {at} ELSE {}) \cup (IF boot # "done" THEN {disk} ELSE {})
Strays == {t \in Tabs : Open(t)} \ Found

\* ALT loses sight of an open tab of its own only when the service worker dies, and then only of
\* one it had not written yet, or through a task that began before the boot had adopted the tab:
\* while the boot goes on, or where that task records the second tab it has opened.
NoTabForgotten ==
    [][\/ Strays' \subseteq Strays
       \/ boot' = "dead"
       \/ early /\ (boot = "asking" \/ pc = "recording")]_vars

\* "Adopt the existing ALT tab instead of opening another" (index.ts:196), whatever the loop does
\* meanwhile: violated.
AdoptsNeverOpens == [][Strays' \subseteq Strays \/ boot' = "dead"]_vars

\* A load of ALT's own tab passes for the developer's activity only while that tab is being
\* created, before a boot has adopted it, or once it is lost (watch.ts:10).
OwnLoadsOnlyEarly ==
    [][taken' \notin {taken, None} =>
          \/ pc \in Creating /\ at = taken'
          \/ boot = "asking"
          \/ taken' \in Strays]_vars

\* A task works on the page it asked for or on one the site ends that page's load on, never on
\* what the tab showed before, unless the wait timed out, the navigation aborted an older one or
\* the page went on by itself: ok only says that some document answered.
WorksOnThePage == pc = "working" /\ Open(at) /\ ~doubt => tab[at].page \in {want} \cup Landing[want]

\* "a dialog can never block the unattended test run" (main-world.ts:6), where the tab could be
\* marked: violated, see the README.
DialogsNeutralised ==
    pc = "working" /\ at # None /\ Open(at) /\ ~doubt => tab[at].scripts = "neutral"

\* Whatever hangs, fails or is closed, a task of the loop comes to its end.
EveryTaskEnds == pc # "idle" ~> pc = "idle"

\* "ALT never acts in them" (watch.ts:4) and its own tab is not one of them: violated.
OnlyDevelopersActivity == taken = None
==============================================================================
