---------------------------- MODULE ServiceWorker ----------------------------
(***************************************************************************)
(* ALT's session across deaths of its MV3 service worker: the store's      *)
(* debounced write-through (background/store.ts), the boot sequence and    *)
(* the 30 s alarm (background/index.ts), and the restore of the queue and  *)
(* of the interrupted test (background/session.ts).                        *)
(*                                                                         *)
(* The loop is AltSession's, reduced to what is stored: which task is      *)
(* queued, popped, in flight and done.                                     *)
(***************************************************************************)
EXTENDS Naturals, FiniteSets

CONSTANTS
    Visits, Cases,  \* the session's tasks: pages to visit and cases to test
    Root,           \* the visit start() queues
    Reveals,        \* the visits and cases a visit queues when its page is new
    Crashes,        \* bound: deaths of the service worker
    DevActivities,  \* bound: developer activities
    Plans,          \* bound: Gemini plans that arrive
    Disturbances    \* bound: deaths, activities and plans together

ASSUME ServiceWorkerAssumption ==
    /\ Visits \cap Cases = {} /\ Root \in Visits
    /\ "none" \notin Visits \cup Cases
    /\ Reveals \in [Visits -> SUBSET (Visits \cup Cases)]
    /\ IsFiniteSet(Visits) /\ IsFiniteSet(Cases)
    /\ Crashes \in Nat /\ DevActivities \in Nat /\ Plans \in Nat
    /\ Disturbances \in Nat

VARIABLES
    mem,      \* store.state
    disk,     \* chrome.storage.session: the last state written
    dirty,    \* the write timer is set
    queue,    \* the session's queue; mem.queue is its serialization
    pc, task, \* the loop and the task it popped
    boot,     \* the worker: "dead", "reading" storage, "asking" for the ALT tab, "done"
    crashes, devs, plans,
    \* What LossBounded has to remember; no action reads it.
    pushed,   \* the tasks ever queued in this session, those a plan dropped taken out
    unsaved,  \* those queued since the state was last written
    atRisk,   \* the task that was popped, and not marked for a retry, when it was last written
    excused   \* what deaths, and events during a boot, may have cost

history == <<pushed, unsaved, atRisk, excused>>
vars == <<mem, disk, dirty, queue, pc, task, boot, crashes, devs, plans, history>>

None == "none"
Tasks == Visits \cup Cases

\* emptyState().  A task that failed has a line in the state's activity log.
EmptyState ==
    [status |-> "idle", workerTab |-> FALSE, pages |-> {}, executed |-> {}, queue |-> {},
     inFlight |-> None, retried |-> {}, failed |-> {}]

Init ==
    /\ mem = EmptyState /\ disk = EmptyState /\ dirty = FALSE
    /\ queue = {}
    /\ pc = "idle" /\ task = None
    /\ boot = "done"
    /\ crashes = 0 /\ devs = 0 /\ plans = 0
    /\ pushed = {} /\ unsaved = {} /\ atRisk = {} /\ excused = {}

\* store.update: whatever changed will be written.
Update == dirty' = (dirty \/ mem' # mem)

Undisturbed == crashes + devs + plans < Disturbances

\* persistQueue(), after a push or a pop.
WithQueue(m, q) == [m EXCEPT !.queue = q]

\* The tasks T are queued.
Pushed(T) ==
    /\ pushed' = pushed \cup T /\ unsaved' = unsaved \cup T
    /\ UNCHANGED <<atRisk, excused>>

-----------------------------------------------------------------------------
(* The loop. *)

\* The loop's head, with the state and queue the caller leaves behind.
LoopHead(m, q) ==
    \/ /\ m.status # "live"
       /\ mem' = m /\ queue' = q /\ pc' = "idle" /\ task' = None
    \/ /\ m.status = "live" /\ q = {}
       /\ mem' = [WithQueue(m, {}) EXCEPT !.status = "watching"]
       /\ queue' = {} /\ pc' = "caughtup" /\ task' = None
    \/ /\ m.status = "live"
       /\ \E t \in q :
            /\ mem' = WithQueue(m, q \ {t}) /\ queue' = q \ {t}
            /\ task' = t
            /\ pc' = IF t \in m.executed THEN "pace" ELSE "ensuring"

\* Mutant of Kick: starts the loop only when it runs already.
KickInverted(m, q) ==
    IF m.status = "live" /\ pc # "idle"
    THEN LoopHead(m, q)
    ELSE mem' = m /\ queue' = q /\ UNCHANGED <<pc, task>>

Kick(m, q) ==
    IF m.status = "live" /\ pc = "idle"
    THEN LoopHead(m, q)
    ELSE mem' = m /\ queue' = q /\ UNCHANGED <<pc, task>>

\* worker.ensure answered: the ALT tab is recorded, and a test is marked as in flight.
TabReady ==
    /\ pc = "ensuring" /\ pc' = "working"
    /\ mem' = [mem EXCEPT !.workerTab = TRUE, !.inFlight = IF task \in Cases THEN task ELSE @]
    /\ Update
    /\ UNCHANGED <<disk, queue, task, boot, crashes, devs, plans, history>>

\* A visit is done: what a new page reveals is queued, unless it is known.
VisitDone ==
    /\ pc = "working" /\ task \in Visits /\ pc' = "pace"
    /\ LET fresh == IF task \in mem.pages THEN {} ELSE Reveals[task] \ mem.pages
       IN  /\ queue' = queue \cup fresh
           /\ mem' = [(IF fresh \subseteq queue THEN mem ELSE WithQueue(mem, queue'))
                         EXCEPT !.pages = @ \cup {task}]
           /\ Pushed(fresh)
    /\ Update
    /\ UNCHANGED <<disk, task, boot, crashes, devs, plans>>

\* The execution is recorded and the mark cleared, in one update.
TestDone ==
    /\ pc = "working" /\ task \in Cases /\ pc' = "pace"
    /\ mem' = [mem EXCEPT !.executed = @ \cup {task}, !.inFlight = None]
    /\ Update
    /\ UNCHANGED <<disk, queue, task, boot, crashes, devs, plans, history>>

\* The task throws, or the page does not come up.
TaskFails ==
    /\ pc \in {"ensuring", "working"} /\ pc' = "pace"
    /\ mem' = [mem EXCEPT !.inFlight = None, !.failed = @ \cup {task}]
    /\ Update
    /\ UNCHANGED <<disk, queue, task, boot, crashes, devs, plans, history>>

\* The pace sleep is over.
NextTask ==
    /\ pc = "pace"
    /\ LoopHead(mem, queue)
    /\ Update
    /\ UNCHANGED <<disk, boot, crashes, devs, plans, history>>

\* The "Caught up" overlay was shown.
CaughtUp ==
    /\ pc = "caughtup" /\ pc' = "idle"
    /\ UNCHANGED <<mem, disk, dirty, queue, task, boot, crashes, devs, plans, history>>

\* enrich() with a plan that drops the queued tests D and wants the cases K: the removal alone is
\* not serialized, only a push is.
PlanArrives ==
    /\ boot = "done" /\ mem.status # "idle"
    /\ plans < Plans /\ Undisturbed /\ plans' = plans + 1
    /\ \E K \in SUBSET (Cases \ mem.executed) : \E D \in SUBSET ((queue \cap Cases) \ K) :
         /\ queue' = (queue \ D) \cup K
         /\ mem' = IF K \subseteq queue THEN mem ELSE WithQueue(mem, queue')
         /\ pushed' = (pushed \ D) \cup (K \ queue) /\ unsaved' = unsaved \cup (K \ queue)
    /\ UNCHANGED <<atRisk, excused>>
    /\ Update
    /\ UNCHANGED <<disk, pc, task, boot, crashes, devs>>

-----------------------------------------------------------------------------
(* Storage, death and boot. *)

\* What a restart from the state m brings back or has an outcome for: the interrupted test if it is
\* its first time.
Interrupted(m) == {m.inFlight} \ (m.retried \cup {None})
Known(m) == m.queue \cup Interrupted(m) \cup m.pages \cup m.executed \cup m.failed

\* The task the loop is working on.
AtWork == IF pc \in {"ensuring", "working"} THEN {task} ELSE {}

\* The 250 ms timer fires: the whole state is written at once.
Persist ==
    /\ dirty /\ dirty' = FALSE
    /\ disk' = mem
    /\ unsaved' = {} /\ atRisk' = AtWork \ Interrupted(mem)
    /\ UNCHANGED <<mem, queue, pc, task, boot, crashes, devs, plans, pushed, excused>>

\* storage.set rejects (quota): nothing is written until the next update.
PersistFails ==
    /\ dirty /\ dirty' = FALSE
    /\ UNCHANGED <<mem, disk, queue, pc, task, boot, crashes, devs, plans, history>>

\* Chrome kills the service worker: only the disk remains.  It may cost what was queued since the
\* state was written, and the task of which that state only knows that it was popped.
Crash ==
    /\ boot # "dead" /\ crashes < Crashes /\ Undisturbed
    /\ boot' = "dead" /\ crashes' = crashes + 1
    /\ mem' = EmptyState /\ dirty' = FALSE /\ queue' = {}
    /\ pc' = "idle" /\ task' = None
    /\ excused' = excused \cup ((unsaved \cup atRisk) \ Known(disk))
    /\ UNCHANGED <<disk, devs, plans, pushed, unsaved, atRisk>>

\* An alarm, a navigation or the panel starts the worker again.
Wake ==
    /\ boot = "dead" /\ boot' = "reading"
    /\ UNCHANGED <<mem, disk, dirty, queue, pc, task, crashes, devs, plans, history>>

\* Mutant of Restore: the stored queue is not read back.
RestoreEmptyQueue(m) ==
    LET again == m.inFlight # None /\ m.inFlight \notin m.retried
        q == IF again THEN {m.inFlight} ELSE {}
    IN  Kick(IF again
             THEN [WithQueue(m, q) EXCEPT !.retried = @ \cup {m.inFlight}, !.inFlight = None]
             ELSE m, q)

\* session.restore(): the queue as stored, and the interrupted test again, if it is its first time.
Restore(m) ==
    LET again == m.inFlight # None /\ m.inFlight \notin m.retried
        q == IF again THEN m.queue \cup {m.inFlight} ELSE m.queue
    IN  Kick(IF again
             THEN [WithQueue(m, q) EXCEPT !.retried = @ \cup {m.inFlight}, !.inFlight = None]
             ELSE m, q)

\* store.restore() answered.  Without an ALT tab session.restore() follows at once.
BootRead ==
    /\ boot = "reading"
    /\ IF disk.workerTab
       THEN boot' = "asking" /\ mem' = disk /\ UNCHANGED <<queue, pc, task>>
       ELSE boot' = "done" /\ Restore(disk)
    /\ dirty' = (dirty \/ mem' # disk)
    /\ UNCHANGED <<disk, crashes, devs, plans, history>>

\* chrome.tabs.get answered (the ALT tab is adopted if it is still there).
BootDone ==
    /\ boot = "asking" /\ boot' = "done"
    /\ Restore(mem)
    /\ Update
    /\ UNCHANGED <<disk, crashes, devs, plans, history>>

\* chrome.tabs.onRemoved for the ALT tab.
TabRemoved ==
    /\ boot # "dead" /\ mem.workerTab
    /\ mem' = [mem EXCEPT !.workerTab = FALSE]
    /\ Update
    /\ UNCHANGED <<disk, queue, pc, task, boot, crashes, devs, plans, history>>

-----------------------------------------------------------------------------
(* Alarm, developer and panel. *)

\* What an alarm or a navigation costs between the two halves of a boot: the restored queue it
\* overwrites, and the mark of a loop that works before restore() has looked at it.
Overrun ==
    IF boot # "asking" THEN {}
    ELSE (mem.queue \ mem'.queue)
           \cup (IF pc = "idle" /\ pc' \notin {"idle", "caughtup"} THEN {mem.inFlight} \ {None} ELSE {})

\* The alarm: session.kick().  Neither it nor a navigation waits for the boot.
Tick ==
    /\ boot # "dead"
    /\ Kick(mem, queue)
    /\ Update
    /\ excused' = excused \cup Overrun
    /\ UNCHANGED <<disk, boot, crashes, devs, plans, pushed, unsaved, atRisk>>

\* onDeveloperActivity: the page is visited again.
DevActivity(v) ==
    /\ boot # "dead" /\ devs < DevActivities /\ Undisturbed
    /\ mem.status \notin {"idle", "stopped"}
    /\ devs' = devs + 1
    /\ Kick([WithQueue(mem, queue \cup {v})
               EXCEPT !.status = IF @ = "watching" THEN "live" ELSE @], queue \cup {v})
    /\ Update
    /\ pushed' = pushed \cup {v} /\ unsaved' = unsaved \cup {v}
    /\ excused' = excused \cup Overrun
    /\ UNCHANGED <<disk, boot, crashes, plans, atRisk>>

\* The panel waits for the boot.  One session is enough here (AltSession has several): a stopped
\* one is not replaced.
Start ==
    /\ boot = "done" /\ mem.status = "idle"
    /\ Kick([WithQueue(EmptyState, {Root}) EXCEPT !.status = "live"], {Root})
    /\ Update
    /\ pushed' = {Root} /\ unsaved' = {Root}
    /\ UNCHANGED <<disk, boot, crashes, devs, plans, atRisk, excused>>

Pause ==
    /\ boot = "done" /\ mem.status \in {"live", "watching"}
    /\ mem' = [mem EXCEPT !.status = "paused"]
    /\ Update
    /\ UNCHANGED <<disk, queue, pc, task, boot, crashes, devs, plans, history>>

Resume ==
    /\ boot = "done" /\ mem.status \in {"paused", "watching"}
    /\ Kick([mem EXCEPT !.status = "live"], queue)
    /\ Update
    /\ UNCHANGED <<disk, boot, crashes, devs, plans, history>>

Stop ==
    /\ boot = "done" /\ mem.status \notin {"idle", "stopped"}
    /\ mem' = [mem EXCEPT !.status = "stopped", !.queue = {}]
    /\ queue' = {}
    /\ Update
    /\ UNCHANGED <<disk, pc, task, boot, crashes, devs, plans, history>>

-----------------------------------------------------------------------------
LoopStep == TabReady \/ VisitDone \/ TestDone \/ TaskFails \/ NextTask \/ CaughtUp
BootStep == Wake \/ BootRead \/ BootDone
PanelStep == Start \/ Pause \/ Resume \/ Stop

Next ==
    \/ LoopStep \/ BootStep \/ PanelStep \/ PlanArrives
    \/ Persist \/ PersistFails \/ Crash
    \/ TabRemoved \/ Tick \/ \E v \in Visits : DevActivity(v)

Spec == Init /\ [][Next]_vars

\* The browser answers every await, and the alarm, which outlives the worker, keeps firing.
FairSpec == Spec /\ WF_vars(LoopStep) /\ WF_vars(BootStep) /\ WF_vars(Tick)

-----------------------------------------------------------------------------
(* Properties. *)

State ==
    [status : {"idle", "live", "paused", "watching", "stopped"}, workerTab : BOOLEAN,
     pages : SUBSET Visits, executed : SUBSET Cases, queue : SUBSET Tasks,
     inFlight : Cases \cup {None}, retried : SUBSET Cases, failed : SUBSET Tasks]

\* Every variable keeps the shape the source gives it; a dead worker runs nothing.
TypeOK ==
    /\ mem \in State /\ disk \in State /\ dirty \in BOOLEAN
    /\ queue \subseteq Tasks /\ task \in Tasks \cup {None}
    /\ pc \in {"idle", "ensuring", "working", "pace", "caughtup"}
    /\ boot \in {"dead", "reading", "asking", "done"}
    /\ crashes \in 0..Crashes /\ devs \in 0..DevActivities /\ plans \in 0..Plans
    /\ boot = "dead" => pc = "idle" /\ queue = {}
    /\ pushed \subseteq Tasks /\ unsaved \subseteq Tasks /\ atRisk \subseteq Tasks /\ excused \subseteq Tasks

\* Tasks of a running session that are neither queued nor being worked on, and have no outcome.
Lost ==
    IF boot # "done" \/ mem.status \in {"idle", "stopped"} THEN {}
    ELSE pushed \ (mem.pages \cup mem.executed \cup mem.failed \cup queue \cup AtWork)

\* A death of the service worker costs the session only what was queued since the state was last
\* written and the one task that was popped then, unless that was a test marked for its first retry;
\* and an event during the boot costs only the queue it overwrites, and the mark.
LossBounded == Lost \subseteq excused

\* The in-flight mark names the case the loop is running, or one that was given up after it had
\* been interrupted twice.
MarkIsTrue ==
    boot = "done" /\ mem.inFlight # None =>
        (task = mem.inFlight /\ pc = "working") \/ mem.inFlight \in mem.retried

\* Whatever is queued would survive a death of the worker; what a restart would bring back beyond
\* it is only what a plan has dropped.
Fits(m, q) == q \subseteq m.queue /\ (m.queue \ q) \cap pushed = {}
QueueIsStored == boot = "done" => Fits(mem, queue)

\* A session that was stored as live when the worker died is worked on again until it is caught up,
\* paused or stopped, once the deaths, of which there are only so many, have come to an end.
RecoversFromCrash ==
    (boot = "dead" /\ disk.status = "live")
        ~> (boot = "done" /\ mem.status \in {"watching", "paused", "stopped"})

\* "State is restored from storage before the loop resumes" (index.ts).
LoopAfterRestore == pc # "idle" => boot = "done"

\* "Interrupted cases are marked `error` and re-queued once" (the plan): a case that was re-queued
\* has a result, or is still on its way.
InterruptedHasResult ==
    boot = "done" /\ mem.status # "stopped" =>
        \A c \in mem.retried :
            c \in mem.executed \cup mem.failed \cup queue \cup (IF pc = "idle" THEN {} ELSE {task})
==============================================================================
