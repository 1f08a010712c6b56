------------------------- MODULE ServiceWorkerProofs -------------------------
(***************************************************************************)
(* Proofs about the session across deaths of the service worker, for any   *)
(* pages, cases and number of deaths, with alarms and navigations at any   *)
(* moment of a boot.  The inductive invariant says of the live and of the  *)
(* stored state which of the tasks ever queued they may miss.              *)
(***************************************************************************)
EXTENDS ServiceWorker, TLAPS

Active(m) == m.status \notin {"idle", "stopped"}
Done(m) == m.pages \cup m.executed \cup m.failed

TypeInv ==
    /\ mem \in State /\ disk \in State
    /\ queue \in SUBSET Tasks /\ task \in Tasks \cup {None}
    /\ pc \in {"idle", "ensuring", "working", "pace", "caughtup"}
    /\ boot \in {"dead", "reading", "asking", "done"}
    /\ pc \in {"ensuring", "working"} => task \in Tasks
    /\ boot \in {"dead", "reading"} => ~Active(mem) /\ pc = "idle"

\* What restore() will still bring back in a boot whose loop has not begun to work by itself.
Back == IF boot = "asking" /\ pc \in {"idle", "caughtup"} THEN Interrupted(mem) ELSE {}

\* The live state misses nothing that is not excused.
LiveInv ==
    Active(mem) /\ boot \in {"asking", "done"} =>
        pushed \subseteq mem.queue \cup Done(mem) \cup AtWork \cup Back \cup excused

\* The stored state misses what a death now would cost, and after a death nothing else.
DiskInv ==
    Active(disk) =>
        pushed \subseteq Known(disk) \cup excused
                           \cup (IF boot \in {"dead", "reading"} THEN {} ELSE unsaved \cup atRisk)

\* A loop that an event has started during the boot has its queue stored.
EarlyInv == boot = "asking" /\ pc # "idle" => queue = mem.queue

Inv == TypeInv /\ QueueIsStored /\ MarkIsTrue /\ LiveInv /\ DiskInv /\ EarlyInv

-----------------------------------------------------------------------------
\* What a caller hands to the loop is, afterwards, queued, worked on or done.

LEMMA WithQueueType ==
  ASSUME NEW m \in State, NEW q \in SUBSET Tasks
  PROVE  /\ WithQueue(m, q) \in State
         /\ WithQueue(m, q).queue = q
         /\ WithQueue(m, q).status = m.status
         /\ WithQueue(m, q).inFlight = m.inFlight
         /\ WithQueue(m, q).retried = m.retried
         /\ Done(WithQueue(m, q)) = Done(m)
BY DEF WithQueue, State, Done

\* What the loop makes of a state m and a queue q.
Taken(m, q) ==
    /\ mem' \in State /\ queue' \in SUBSET Tasks
    /\ task' \in Tasks \cup {None}
    /\ pc' \in {"idle", "ensuring", "working", "pace", "caughtup"}
    /\ pc' \in {"ensuring", "working"} => task' \in Tasks
    /\ Done(mem') = Done(m) /\ mem'.inFlight = m.inFlight /\ mem'.retried = m.retried
    /\ Active(mem') = Active(m)
    /\ q \subseteq queue' \cup AtWork' \cup Done(m)
    /\ mem'.queue = queue' \/ (mem' = m /\ queue' = q)

LEMMA LoopHeadTakes ==
  ASSUME NEW m \in State, NEW q \in SUBSET Tasks, LoopHead(m, q)
  PROVE  /\ Taken(m, q) /\ pc' # "working"
         /\ m.status # "live" => mem' = m /\ queue' = q /\ pc' = "idle"
         /\ m.status = "live" => mem'.queue = queue' /\ pc' # "idle"
<1>1. CASE m.status # "live" /\ mem' = m /\ queue' = q /\ pc' = "idle" /\ task' = None
  BY <1>1 DEF Taken
<1>2. CASE /\ m.status = "live" /\ q = {}
           /\ mem' = [WithQueue(m, {}) EXCEPT !.status = "watching"]
           /\ queue' = {} /\ pc' = "caughtup" /\ task' = None
  <2>1. /\ mem' \in State /\ mem'.queue = {} /\ Done(mem') = Done(m)
        /\ mem'.inFlight = m.inFlight /\ mem'.retried = m.retried /\ mem'.status = "watching"
    BY <1>2 DEF WithQueue, State, Done
  <2> QED BY <1>2, <2>1 DEF Taken, Active
<1>3. ASSUME NEW t \in q, m.status = "live",
             mem' = WithQueue(m, q \ {t}), queue' = q \ {t}, task' = t,
             pc' = IF t \in m.executed THEN "pace" ELSE "ensuring"
      PROVE  /\ Taken(m, q) /\ pc' # "working" /\ mem'.queue = queue' /\ pc' # "idle"
  <2>1. /\ mem' \in State /\ mem'.queue = queue' /\ Done(mem') = Done(m)
        /\ mem'.inFlight = m.inFlight /\ mem'.retried = m.retried /\ mem'.status = m.status
    BY <1>3, WithQueueType
  <2>2. q \subseteq queue' \cup AtWork' \cup Done(m)
    BY <1>3 DEF AtWork, Done
  <2> QED BY <1>3, <2>1, <2>2 DEF Taken, Active
<1> QED BY <1>1, <1>2, <1>3 DEF LoopHead

\* kick() changes nothing while the loop runs.
LEMMA KickTakes ==
  ASSUME NEW m \in State, NEW q \in SUBSET Tasks, Kick(m, q), TypeInv
  PROVE  /\ Taken(m, q)
         /\ AtWork \subseteq AtWork'
         /\ pc # "idle" => mem' = m /\ queue' = q /\ pc' = pc /\ task' = task
         /\ pc = "idle" => pc' # "working"
         /\ m.status # "live" => mem' = m /\ queue' = q /\ pc' = pc /\ task' = task
         /\ pc' # "idle" /\ pc = "idle" => mem'.queue = queue'
<1>1. CASE m.status = "live" /\ pc = "idle"
  <2>1. LoopHead(m, q) /\ AtWork = {}
    BY <1>1 DEF Kick, AtWork
  <2> QED BY <1>1, <2>1, LoopHeadTakes
<1>2. CASE ~(m.status = "live" /\ pc = "idle")
  <2>1. mem' = m /\ queue' = q /\ pc' = pc /\ task' = task
    BY <1>2 DEF Kick
  <2>2. AtWork' = AtWork
    BY <2>1 DEF AtWork
  <2> QED BY <1>2, <2>1, <2>2 DEF Taken, TypeInv
<1> QED BY <1>1, <1>2

\* A step of a living worker that writes nothing leaves what a death would cost in sight.
LEMMA DiskKeeps ==
  ASSUME DiskInv, disk' = disk, atRisk' = atRisk,
         boot' \in {"asking", "done"},
         pushed' \subseteq pushed \cup unsaved', unsaved \subseteq unsaved', excused \subseteq excused'
  PROVE  DiskInv'
BY DEF DiskInv, Known, Interrupted

\* What all steps of a living worker but a death, a write and the boot have in common.
LEMMA LiveKeeps ==
  ASSUME Inv, boot \in {"asking", "done"},
         UNCHANGED <<disk, boot, atRisk>>,
         mem' \in State, queue' \in SUBSET Tasks, task' \in Tasks \cup {None},
         pc' \in {"idle", "ensuring", "working", "pace", "caughtup"},
         pc' \in {"ensuring", "working"} => task' \in Tasks,
         pushed' \subseteq pushed \cup unsaved', unsaved \subseteq unsaved', excused \subseteq excused',
         boot = "done" => Fits(mem, queue)', MarkIsTrue', LiveInv', EarlyInv'
  PROVE  Inv'
<1>1. TypeInv'
  BY DEF Inv, TypeInv
<1>2. QueueIsStored'
  BY DEF QueueIsStored
<1>3. DiskInv'
  BY DiskKeeps DEF Inv
<1> QED BY <1>1, <1>2, <1>3 DEF Inv

-----------------------------------------------------------------------------
\* The loop's own steps: the task they were at has an outcome, or is still being worked on.

LEMMA TabReadyKeeps == ASSUME Inv, TabReady PROVE Inv'
<1>1. /\ mem' = [mem EXCEPT !.workerTab = TRUE, !.inFlight = IF task \in Cases THEN task ELSE @]
      /\ queue' = queue /\ task' = task /\ pc = "ensuring" /\ pc' = "working"
      /\ UNCHANGED <<disk, boot, pushed, unsaved, atRisk, excused>>
  BY DEF TabReady, history
<1>2. boot \in {"asking", "done"} /\ mem \in State
  BY <1>1 DEF Inv, TypeInv
<1>3. /\ mem' \in State /\ mem'.queue = mem.queue /\ Done(mem') = Done(mem)
      /\ Active(mem') = Active(mem) /\ mem'.retried = mem.retried
      /\ mem'.inFlight = IF task \in Cases THEN task ELSE mem.inFlight
  BY <1>1, <1>2 DEF State, Done, Active
<1>4. AtWork' = AtWork /\ Back = {} /\ Back' = {}
  BY <1>1 DEF AtWork, Back
<1>5. LiveInv'
  BY <1>1, <1>2, <1>3, <1>4 DEF Inv, LiveInv
<1>6. MarkIsTrue'
  BY <1>1, <1>3 DEF Inv, MarkIsTrue
<1>7. boot = "done" => Fits(mem, queue)'
  BY <1>1, <1>3 DEF Inv, QueueIsStored, Fits
<1>8. EarlyInv'
  BY <1>1, <1>3 DEF Inv, EarlyInv
<1> QED BY <1>1, <1>2, <1>3, <1>5, <1>6, <1>7, <1>8, LiveKeeps DEF Inv, TypeInv

\* What VisitDone, TestDone and TaskFails have in common.
LEMMA OutcomeKeeps ==
  ASSUME Inv, pc \in {"ensuring", "working"}, pc' = "pace", task' = task,
         mem' \in State, mem'.status = mem.status, queue' \in SUBSET Tasks,
         Done(mem') = Done(mem) \cup {task},
         \/ mem'.queue = mem.queue /\ queue' = queue /\ pushed' \subseteq pushed \cup queue
         \/ mem'.queue = queue' /\ queue \subseteq queue' /\ pushed' \subseteq pushed \cup queue',
         pushed' \subseteq pushed \cup unsaved', unsaved \subseteq unsaved',
         UNCHANGED <<disk, boot, atRisk, excused>>,
         boot = "done" /\ mem'.inFlight # None => mem'.inFlight \in mem'.retried
  PROVE  Inv'
<1>1. boot \in {"asking", "done"} /\ mem \in State
  BY DEF Inv, TypeInv
<1>2. AtWork = {task} /\ AtWork' = {} /\ Back = {} /\ Back' = {}
  BY DEF AtWork, Back
<1>3. boot = "done" => Fits(mem, queue)
  BY DEF Inv, QueueIsStored
<1>4. boot = "asking" => queue = mem.queue
  BY DEF Inv, EarlyInv
<1>5. LiveInv'
  <2> SUFFICES ASSUME Active(mem') PROVE pushed' \subseteq mem'.queue \cup Done(mem') \cup excused
    BY <1>2 DEF LiveInv
  <2>1. pushed \subseteq mem.queue \cup Done(mem) \cup {task} \cup excused
    BY <1>1, <1>2 DEF Inv, LiveInv, Active
  <2>2. queue \subseteq mem.queue /\ (mem.queue \ queue) \cap pushed = {}
    BY <1>1, <1>3, <1>4 DEF Fits
  <2> QED BY <2>1, <2>2
<1>6. MarkIsTrue'
  BY DEF MarkIsTrue
<1>7. boot = "done" => Fits(mem, queue)'
  BY <1>3 DEF Fits
<1>8. EarlyInv'
  BY <1>4 DEF EarlyInv
<1> QED BY <1>1, <1>5, <1>6, <1>7, <1>8, LiveKeeps DEF Inv, TypeInv

LEMMA VisitDoneKeeps == ASSUME Inv, VisitDone PROVE Inv'
<1>1. PICK fresh \in SUBSET Tasks :
        /\ queue' = queue \cup fresh
        /\ mem' = [(IF fresh \subseteq queue THEN mem ELSE WithQueue(mem, queue'))
                     EXCEPT !.pages = @ \cup {task}]
        /\ pushed' = pushed \cup fresh /\ unsaved' = unsaved \cup fresh
        /\ UNCHANGED <<atRisk, excused>>
  <2>1. task \in Visits => Reveals[task] \ mem.pages \in SUBSET Tasks
    BY ServiceWorkerAssumption DEF Tasks
  <2> QED BY <2>1 DEF VisitDone, Pushed
<1>2. /\ pc = "working" /\ pc' = "pace" /\ task \in Visits /\ task' = task
      /\ UNCHANGED <<disk, boot>>
  BY DEF VisitDone
<1>3. queue' \in SUBSET Tasks /\ mem \in State
  BY <1>1 DEF Inv, TypeInv
<1> DEFINE w == IF fresh \subseteq queue THEN mem ELSE WithQueue(mem, queue')
<1>4. /\ w \in State /\ w.status = mem.status /\ w.inFlight = mem.inFlight
      /\ w.retried = mem.retried /\ Done(w) = Done(mem)
      /\ w.queue = IF fresh \subseteq queue THEN mem.queue ELSE queue'
  BY <1>3, WithQueueType
<1>5. mem' = [w EXCEPT !.pages = @ \cup {task}]
  BY <1>1
<1> HIDE DEF w
<1>6. /\ mem' \in State /\ mem'.status = mem.status /\ mem'.queue = w.queue
      /\ mem'.inFlight = mem.inFlight /\ mem'.retried = mem.retried
      /\ Done(mem') = Done(mem) \cup {task}
  BY <1>2, <1>4, <1>5 DEF State, Done
<1>7. boot = "done" /\ mem'.inFlight # None => mem'.inFlight \in mem'.retried
  BY <1>2, <1>3, <1>6, ServiceWorkerAssumption DEF Inv, MarkIsTrue, State
<1>8. \/ mem'.queue = mem.queue /\ queue' = queue /\ pushed' \subseteq pushed \cup queue
      \/ mem'.queue = queue' /\ queue \subseteq queue' /\ pushed' \subseteq pushed \cup queue'
  BY <1>1, <1>4, <1>6
<1>9. pushed' \subseteq pushed \cup unsaved' /\ unsaved \subseteq unsaved'
  BY <1>1
<1> QED BY <1>1, <1>2, <1>3, <1>6, <1>7, <1>8, <1>9, OutcomeKeeps

LEMMA TestDoneKeeps == ASSUME Inv, TestDone PROVE Inv'
<1>1. /\ mem' = [mem EXCEPT !.executed = @ \cup {task}, !.inFlight = None]
      /\ pc = "working" /\ pc' = "pace" /\ task \in Cases /\ task' = task /\ queue' = queue
      /\ UNCHANGED <<disk, boot, pushed, unsaved, atRisk, excused>>
  BY DEF TestDone, history
<1>2. /\ mem' \in State /\ mem'.status = mem.status /\ mem'.inFlight = None /\ mem'.queue = mem.queue
      /\ Done(mem') = Done(mem) \cup {task} /\ queue' \in SUBSET Tasks
  BY <1>1 DEF Inv, TypeInv, State, Done
<1> QED BY <1>1, <1>2, OutcomeKeeps

LEMMA TaskFailsKeeps == ASSUME Inv, TaskFails PROVE Inv'
<1>1. /\ mem' = [mem EXCEPT !.inFlight = None, !.failed = @ \cup {task}]
      /\ pc \in {"ensuring", "working"} /\ pc' = "pace" /\ task' = task /\ queue' = queue
      /\ UNCHANGED <<disk, boot, pushed, unsaved, atRisk, excused>>
  BY DEF TaskFails, history
<1>2. /\ mem' \in State /\ mem'.status = mem.status /\ mem'.inFlight = None /\ mem'.queue = mem.queue
      /\ Done(mem') = Done(mem) \cup {task} /\ queue' \in SUBSET Tasks
  BY <1>1 DEF Inv, TypeInv, State, Done
<1> QED BY <1>1, <1>2, OutcomeKeeps

LEMMA NextTaskKeeps == ASSUME Inv, NextTask PROVE Inv'
<1>1. LoopHead(mem, queue) /\ pc = "pace" /\ UNCHANGED <<disk, boot, pushed, unsaved, atRisk, excused>>
  BY DEF NextTask, history
<1>2. /\ boot \in {"asking", "done"} /\ mem \in State /\ queue \in SUBSET Tasks
      /\ AtWork = {} /\ Back = {}
  BY <1>1 DEF Inv, TypeInv, AtWork, Back
<1>3. /\ Taken(mem, queue) /\ pc' # "working"
      /\ mem.status = "live" => mem'.queue = queue'
      /\ mem.status # "live" => mem' = mem /\ queue' = queue /\ pc' = "idle"
  BY <1>1, <1>2, LoopHeadTakes
<1>4. queue \subseteq mem.queue /\ (mem.queue \ queue) \cap pushed = {}
  BY <1>1, <1>2 DEF Inv, QueueIsStored, EarlyInv, Fits
<1>5. LiveInv'
  <2> SUFFICES ASSUME Active(mem')
               PROVE  pushed \subseteq mem'.queue \cup Done(mem') \cup AtWork' \cup excused
    BY <1>1 DEF LiveInv
  <2>1. pushed \subseteq mem.queue \cup Done(mem) \cup excused
    BY <1>2, <1>3 DEF Inv, LiveInv, Taken
  <2>2. queue \subseteq mem'.queue \cup AtWork' \cup Done(mem') /\ Done(mem') = Done(mem)
    BY <1>3, <1>4 DEF Taken
  <2> QED BY <1>4, <2>1, <2>2
<1>6. MarkIsTrue'
  BY <1>1, <1>3 DEF Inv, MarkIsTrue, Taken
<1>7. Fits(mem, queue)'
  BY <1>1, <1>3, <1>4 DEF Taken, Fits
<1>8. EarlyInv'
  BY <1>3 DEF Taken, EarlyInv
<1> QED BY <1>1, <1>2, <1>3, <1>5, <1>6, <1>7, <1>8, LiveKeeps DEF Taken

LEMMA CaughtUpKeeps == ASSUME Inv, CaughtUp PROVE Inv'
<1>1. /\ UNCHANGED <<mem, disk, queue, task, boot, pushed, unsaved, atRisk, excused>>
      /\ pc = "caughtup" /\ pc' = "idle"
  BY DEF CaughtUp, history
<1>2. AtWork = {} /\ AtWork' = {} /\ Back' = Back /\ boot \in {"asking", "done"}
  BY <1>1 DEF AtWork, Back, Interrupted, Inv, TypeInv
<1>3. LiveInv' /\ MarkIsTrue' /\ EarlyInv' /\ (boot = "done" => Fits(mem, queue)')
  BY <1>1, <1>2 DEF Inv, LiveInv, MarkIsTrue, EarlyInv, QueueIsStored, Fits
<1> QED BY <1>1, <1>2, <1>3, LiveKeeps DEF Inv, TypeInv

-----------------------------------------------------------------------------
\* Developer, alarm and panel.

\* kick() with the present state and queue, or with more in both; what it costs in a boot is excused.
LEMMA KickKeeps ==
  ASSUME Inv, boot \in {"asking", "done"}, NEW m \in State, NEW q \in SUBSET Tasks, Kick(m, q),
         UNCHANGED <<disk, boot, atRisk>>, excused' = excused \cup Overrun,
         m.inFlight = mem.inFlight, m.retried = mem.retried, Done(m) = Done(mem),
         Active(m) => Active(mem),
         \/ m.queue = mem.queue /\ q = queue /\ pushed' = pushed
         \/ m.queue = q /\ queue \subseteq q /\ pushed' \subseteq pushed \cup q,
         pushed' \subseteq pushed \cup unsaved', unsaved \subseteq unsaved'
  PROVE  Inv'
<1>1. mem \in State /\ queue \in SUBSET Tasks /\ TypeInv
  BY DEF Inv, TypeInv
<1>2. /\ Taken(m, q) /\ AtWork \subseteq AtWork'
      /\ pc # "idle" => mem' = m /\ queue' = q /\ pc' = pc /\ task' = task
      /\ pc = "idle" => pc' # "working"
      /\ m.status # "live" => mem' = m /\ queue' = q /\ pc' = pc /\ task' = task
      /\ pc' # "idle" /\ pc = "idle" => mem'.queue = queue'
  BY <1>1, KickTakes
<1>3. boot = "done" => queue \subseteq mem.queue /\ (mem.queue \ queue) \cap pushed = {}
  BY DEF Inv, QueueIsStored, Fits
<1>4. LiveInv'
  <2> SUFFICES ASSUME Active(mem')
               PROVE  pushed' \subseteq mem'.queue \cup Done(mem') \cup AtWork' \cup Back' \cup excused'
    BY DEF LiveInv
  <2>1. pushed \subseteq mem.queue \cup Done(mem) \cup AtWork \cup Back \cup excused
    BY <1>2 DEF Inv, LiveInv, Taken
  <2>2. q \subseteq mem'.queue \cup AtWork' \cup Done(mem') \/ mem' = m
    BY <1>2 DEF Taken
  <2>3. Done(mem') = Done(mem)
    BY <1>2 DEF Taken
  <2>4. Back \subseteq Back' \cup excused'
    <3>1. Interrupted(mem') = Interrupted(mem)
      BY <1>2 DEF Taken, Interrupted
    <3>2. CASE boot = "asking" /\ pc \in {"idle", "caughtup"}
      <4>1. CASE pc' \in {"idle", "caughtup"}
        BY <3>1, <3>2, <4>1 DEF Back
      <4>2. CASE pc' \notin {"idle", "caughtup"}
        <5>1. pc = "idle"
          BY <1>2, <3>2, <4>2
        <5> QED BY <3>2, <4>2, <5>1 DEF Back, Overrun, Interrupted
      <4> QED BY <4>1, <4>2
    <3>3. CASE ~(boot = "asking" /\ pc \in {"idle", "caughtup"})
      BY <3>3 DEF Back
    <3> QED BY <3>2, <3>3
  <2>5. mem.queue \cap pushed \subseteq mem'.queue \cup AtWork' \cup Done(mem') \cup excused'
    <3>1. CASE boot = "asking"
      BY <3>1 DEF Overrun
    <3>2. CASE boot = "done"
      BY <1>3, <2>2, <3>2
    <3> QED BY <3>1, <3>2
  <2>6. pushed' \subseteq pushed \cup mem'.queue \cup AtWork' \cup Done(mem')
    BY <2>2
  <2> QED BY <1>2, <2>1, <2>3, <2>4, <2>5, <2>6
<1>5. MarkIsTrue'
  <2>1. CASE pc = "idle"
    BY <1>2, <2>1 DEF Inv, MarkIsTrue, Taken
  <2>2. CASE pc # "idle"
    BY <1>2, <2>2 DEF Inv, MarkIsTrue
  <2> QED BY <2>1, <2>2
<1>6. boot = "done" => Fits(mem, queue)'
  BY <1>2, <1>3 DEF Taken, Fits
<1>7. EarlyInv'
  BY <1>2 DEF Inv, EarlyInv
<1>8. excused \subseteq excused'
  OBVIOUS
<1> QED BY <1>2, <1>4, <1>5, <1>6, <1>7, <1>8, LiveKeeps DEF Taken

\* Before the state has been read there is no session, and no event does anything.
LEMMA TickKeeps == ASSUME Inv, Tick PROVE Inv'
<1>1. CASE boot \in {"asking", "done"}
  <2>1. mem \in State /\ queue \in SUBSET Tasks
    BY DEF Inv, TypeInv
  <2> QED BY <1>1, <2>1, KickKeeps DEF Tick
<1>2. CASE boot \notin {"asking", "done"}
  <2>1. boot = "reading" /\ mem.status # "live" /\ Overrun = {} /\ ~Active(mem)
    BY <1>2 DEF Tick, Inv, TypeInv, Active, Overrun
  <2>2. UNCHANGED <<mem, disk, queue, pc, task, boot, pushed, unsaved, atRisk, excused>>
    BY <2>1 DEF Tick, Kick
  <2> QED BY <2>2 DEF Inv, TypeInv, QueueIsStored, MarkIsTrue, LiveInv, DiskInv, EarlyInv, Active,
             Done, Fits, AtWork, Back, Interrupted, Known
<1> QED BY <1>1, <1>2

LEMMA DevActivityKeeps == ASSUME Inv, NEW v \in Visits, DevActivity(v) PROVE Inv'
<1> DEFINE w == WithQueue(mem, queue \cup {v})
           m == [w EXCEPT !.status = IF @ = "watching" THEN "live" ELSE @]
<1>1. queue \cup {v} \in SUBSET Tasks /\ mem \in State
  BY DEF Inv, TypeInv, Tasks
<1>2. /\ w \in State /\ w.queue = queue \cup {v} /\ w.status = mem.status
      /\ w.inFlight = mem.inFlight /\ w.retried = mem.retried /\ Done(w) = Done(mem)
  BY <1>1, WithQueueType
<1>3. /\ Kick(m, queue \cup {v}) /\ Active(mem)
      /\ pushed' = pushed \cup {v} /\ unsaved' = unsaved \cup {v}
      /\ excused' = excused \cup Overrun
      /\ UNCHANGED <<disk, boot, atRisk>>
  BY DEF DevActivity, Active
<1>4. boot \in {"asking", "done"}
  BY <1>3 DEF DevActivity, Inv, TypeInv
<1> HIDE DEF w
<1>5. /\ m \in State /\ m.queue = queue \cup {v} /\ Done(m) = Done(mem)
      /\ m.inFlight = mem.inFlight /\ m.retried = mem.retried
  BY <1>2 DEF State, Done
<1> HIDE DEF m
<1> QED BY <1>1, <1>3, <1>4, <1>5, KickKeeps

LEMMA ResumeKeeps == ASSUME Inv, Resume PROVE Inv'
<1> DEFINE m == [mem EXCEPT !.status = "live"]
<1>1. /\ Kick(m, queue) /\ Active(mem) /\ boot = "done"
      /\ UNCHANGED <<disk, boot, pushed, unsaved, atRisk, excused>>
  BY DEF Resume, Active, history
<1>2. /\ m \in State /\ m.queue = mem.queue /\ Done(m) = Done(mem) /\ queue \in SUBSET Tasks
      /\ m.inFlight = mem.inFlight /\ m.retried = mem.retried
  BY DEF Inv, TypeInv, State, Done
<1>3. excused' = excused \cup Overrun
  BY <1>1 DEF Overrun
<1> HIDE DEF m
<1> QED BY <1>1, <1>2, <1>3, KickKeeps

LEMMA StartKeeps == ASSUME Inv, Start PROVE Inv'
<1> DEFINE w == WithQueue(EmptyState, {Root})
           m == [w EXCEPT !.status = "live"]
<1>1. EmptyState \in State /\ {Root} \in SUBSET Tasks
  BY ServiceWorkerAssumption DEF EmptyState, State, Tasks
<1>2. w \in State /\ w.queue = {Root} /\ w.inFlight = None
  BY <1>1, WithQueueType DEF EmptyState
<1>3. /\ Kick(m, {Root}) /\ boot = "done" /\ pushed' = {Root} /\ unsaved' = {Root}
      /\ UNCHANGED <<disk, boot, atRisk, excused>>
  BY DEF Start
<1> HIDE DEF w
<1>4. m \in State /\ m.queue = {Root} /\ m.inFlight = None /\ m.status = "live"
  BY <1>2 DEF State
<1> HIDE DEF m
<1>5. /\ Taken(m, {Root}) /\ AtWork \subseteq AtWork'
      /\ pc # "idle" => mem' = m /\ queue' = {Root} /\ pc' = pc /\ task' = task
  BY <1>1, <1>3, <1>4, KickTakes DEF Inv
<1>6. LiveInv'
  BY <1>3, <1>4, <1>5 DEF LiveInv, Taken
<1>7. MarkIsTrue' /\ QueueIsStored'
  BY <1>3, <1>4, <1>5 DEF MarkIsTrue, QueueIsStored, Taken, Fits
<1>8. EarlyInv' /\ DiskInv'
  BY <1>3 DEF EarlyInv, DiskInv
<1>9. TypeInv'
  BY <1>3, <1>5 DEF Inv, TypeInv, Taken
<1> QED BY <1>6, <1>7, <1>8, <1>9 DEF Inv

LEMMA PauseKeeps == ASSUME Inv, Pause PROVE Inv'
<1>1. /\ mem' = [mem EXCEPT !.status = "paused"] /\ Active(mem) /\ boot = "done"
      /\ UNCHANGED <<disk, queue, pc, task, boot, pushed, unsaved, atRisk, excused>>
  BY DEF Pause, Active, history
<1>2. /\ mem' \in State /\ mem'.queue = mem.queue /\ Done(mem') = Done(mem)
      /\ mem'.inFlight = mem.inFlight /\ mem'.retried = mem.retried
  BY <1>1 DEF Inv, TypeInv, State, Done
<1>3. AtWork' = AtWork /\ Back = {} /\ Back' = {}
  BY <1>1 DEF AtWork, Back
<1>4. LiveInv' /\ MarkIsTrue' /\ EarlyInv' /\ Fits(mem, queue)'
  BY <1>1, <1>2, <1>3 DEF Inv, LiveInv, MarkIsTrue, EarlyInv, QueueIsStored, Fits
<1> QED BY <1>1, <1>2, <1>4, LiveKeeps DEF Inv, TypeInv

LEMMA StopKeeps == ASSUME Inv, Stop PROVE Inv'
<1>1. /\ mem' = [mem EXCEPT !.status = "stopped", !.queue = {}] /\ queue' = {} /\ boot = "done"
      /\ UNCHANGED <<disk, pc, task, boot, pushed, unsaved, atRisk, excused>>
  BY DEF Stop, history
<1>2. /\ mem' \in State /\ mem'.queue = {} /\ ~Active(mem')
      /\ mem'.inFlight = mem.inFlight /\ mem'.retried = mem.retried
  BY <1>1 DEF Inv, TypeInv, State, Active
<1>3. LiveInv' /\ MarkIsTrue' /\ EarlyInv' /\ Fits(mem, queue)'
  BY <1>1, <1>2 DEF Inv, LiveInv, MarkIsTrue, EarlyInv, Fits
<1> QED BY <1>1, <1>2, <1>3, LiveKeeps DEF Inv, TypeInv

\* A plan takes back the tests it drops and queues those it wants.
LEMMA PlanArrivesKeeps == ASSUME Inv, PlanArrives PROVE Inv'
<1>1. PICK K \in SUBSET Cases, D \in SUBSET queue :
        /\ D \cap K = {}
        /\ queue' = (queue \ D) \cup K
        /\ mem' = IF K \subseteq queue THEN mem ELSE WithQueue(mem, queue')
        /\ pushed' = (pushed \ D) \cup (K \ queue) /\ unsaved' = unsaved \cup (K \ queue)
  BY DEF PlanArrives
<1>2. UNCHANGED <<disk, pc, task, boot, atRisk, excused>> /\ boot = "done"
  BY DEF PlanArrives
<1>3. mem \in State /\ queue' \in SUBSET Tasks
  BY <1>1 DEF Inv, TypeInv, Tasks
<1>4. /\ mem' \in State /\ mem'.queue = (IF K \subseteq queue THEN mem.queue ELSE queue')
      /\ Done(mem') = Done(mem) /\ mem'.status = mem.status
      /\ mem'.inFlight = mem.inFlight /\ mem'.retried = mem.retried
  BY <1>1, <1>3, WithQueueType
<1>5. queue \subseteq mem.queue /\ (mem.queue \ queue) \cap pushed = {}
  BY <1>2 DEF Inv, QueueIsStored, Fits
<1>6. AtWork' = AtWork /\ Back = {} /\ Back' = {} /\ Active(mem') = Active(mem)
  BY <1>2, <1>4 DEF AtWork, Back, Active
<1>7. LiveInv'
  <2> SUFFICES ASSUME Active(mem)
               PROVE  pushed' \subseteq mem'.queue \cup Done(mem) \cup AtWork \cup excused
    BY <1>2, <1>4, <1>6 DEF LiveInv
  <2>1. pushed \subseteq mem.queue \cup Done(mem) \cup AtWork \cup excused
    BY <1>2, <1>6 DEF Inv, LiveInv
  <2>2. mem.queue \cap (pushed \ D) \subseteq mem'.queue /\ K \subseteq mem'.queue
    BY <1>1, <1>4, <1>5
  <2> QED BY <1>1, <2>1, <2>2
<1>8. Fits(mem, queue)'
  BY <1>1, <1>4, <1>5 DEF Fits
<1>9. MarkIsTrue' /\ EarlyInv' /\ excused \subseteq excused'
  BY <1>2, <1>4 DEF Inv, MarkIsTrue, EarlyInv
<1>10. TypeInv'
  BY <1>2, <1>3, <1>4 DEF Inv, TypeInv
<1>11. QueueIsStored'
  BY <1>8 DEF QueueIsStored
<1>12. DiskInv'
  BY <1>1, <1>2, DiskKeeps DEF Inv
<1> QED BY <1>7, <1>9, <1>10, <1>11, <1>12 DEF Inv

-----------------------------------------------------------------------------
\* Storage, death and boot.

\* What is written misses only the task the loop has popped, unless it is marked for its first retry.
LEMMA PersistKeeps == ASSUME Inv, Persist PROVE Inv'
<1>1. /\ disk' = mem /\ UNCHANGED <<mem, queue, pc, task, boot, pushed, excused>>
      /\ unsaved' = {} /\ atRisk' = AtWork \ Interrupted(mem)
  BY DEF Persist
<1>2. TypeInv' /\ QueueIsStored' /\ MarkIsTrue' /\ LiveInv' /\ EarlyInv'
  BY <1>1 DEF Inv, TypeInv, QueueIsStored, MarkIsTrue, LiveInv, EarlyInv, Active, Done, Fits,
     AtWork, Back, Interrupted
<1>3. DiskInv'
  <2> SUFFICES ASSUME Active(mem) PROVE pushed \subseteq Known(mem) \cup excused \cup AtWork
    BY <1>1 DEF DiskInv, Known, Inv, TypeInv, Active
  <2>1. boot \in {"asking", "done"}
    BY DEF Inv, TypeInv
  <2>2. pushed \subseteq mem.queue \cup Done(mem) \cup AtWork \cup Back \cup excused
    BY <2>1 DEF Inv, LiveInv
  <2>3. Back \subseteq Interrupted(mem)
    BY DEF Back
  <2> QED BY <2>2, <2>3 DEF Known, Done
<1> QED BY <1>2, <1>3 DEF Inv

LEMMA CrashKeeps == ASSUME Inv, Crash PROVE Inv'
<1>1. /\ boot' = "dead" /\ mem' = EmptyState /\ queue' = {} /\ pc' = "idle" /\ task' = None
      /\ UNCHANGED <<disk, pushed, unsaved, atRisk>>
      /\ excused' = excused \cup ((unsaved \cup atRisk) \ Known(disk))
  BY DEF Crash
<1>2. EmptyState \in State /\ ~Active(EmptyState)
  BY DEF EmptyState, State, Active
<1>3. TypeInv'
  BY <1>1, <1>2 DEF Inv, TypeInv
<1>4. DiskInv'
  BY <1>1 DEF Inv, DiskInv, Active, Known, Interrupted
<1> QED BY <1>1, <1>3, <1>4 DEF Inv, QueueIsStored, MarkIsTrue, LiveInv, EarlyInv

LEMMA WakeKeeps == ASSUME Inv, Wake PROVE Inv'
<1>1. /\ boot = "dead" /\ boot' = "reading"
      /\ UNCHANGED <<mem, disk, queue, pc, task, pushed, unsaved, atRisk, excused>>
  BY DEF Wake, history
<1>2. TypeInv' /\ DiskInv'
  BY <1>1 DEF Inv, TypeInv, DiskInv, Active, Known, Interrupted
<1> QED BY <1>1, <1>2 DEF Inv, QueueIsStored, MarkIsTrue, LiveInv, EarlyInv

\* session.restore() hands the loop the queue as it is stored, and the interrupted test once more;
\* a loop that an event has started already goes on.
LEMMA RestoreKeeps ==
  ASSUME Inv, NEW m \in State, Restore(m), boot' = "done",
         UNCHANGED <<disk, pushed, unsaved, atRisk, excused>>,
         Active(m) => pushed \subseteq m.queue \cup Done(m) \cup AtWork \cup Interrupted(m) \cup excused
  PROVE  Inv'
<1> DEFINE again == m.inFlight # None /\ m.inFlight \notin m.retried
           q == IF again THEN m.queue \cup {m.inFlight} ELSE m.queue
           w == WithQueue(m, q)
           n == IF again THEN [w EXCEPT !.retried = @ \cup {m.inFlight}, !.inFlight = None] ELSE m
<1>1. q \in SUBSET Tasks
  BY DEF State, Tasks
<1>2. /\ w \in State /\ w.queue = q /\ w.status = m.status /\ Done(w) = Done(m)
      /\ w.inFlight = m.inFlight /\ w.retried = m.retried
  BY <1>1, WithQueueType
<1>3. Kick(n, q)
  BY DEF Restore
<1>4. /\ n \in State /\ n.queue = q /\ Active(n) = Active(m) /\ Done(n) = Done(m)
      /\ n.inFlight # None => n.inFlight \in n.retried
  <2>1. CASE again
    <3>1. m.inFlight \in Cases
      BY <2>1 DEF State
    <3> HIDE DEF q, w
    <3>2. n = [w EXCEPT !.retried = @ \cup {m.inFlight}, !.inFlight = None]
      BY <2>1
    <3> HIDE DEF n
    <3> QED BY <1>2, <3>1, <3>2 DEF State, Active, Done
  <2>2. CASE ~again
    BY <2>2
  <2> QED BY <2>1, <2>2
<1>5. m.queue \cup Interrupted(m) \subseteq q
  BY DEF Interrupted
<1> HIDE DEF n, w, q
<1>6. /\ Taken(n, q) /\ AtWork \subseteq AtWork'
      /\ pc # "idle" => mem' = n /\ queue' = q /\ pc' = pc /\ task' = task
      /\ pc = "idle" => pc' # "working"
  BY <1>1, <1>3, <1>4, KickTakes DEF Inv
<1>7. TypeInv'
  BY <1>6 DEF Inv, TypeInv, Taken
<1>8. QueueIsStored'
  BY <1>4, <1>6 DEF QueueIsStored, Fits, Taken
<1>9. MarkIsTrue'
  BY <1>4, <1>6 DEF MarkIsTrue, Taken
<1>10. LiveInv'
  <2> SUFFICES ASSUME Active(mem')
               PROVE  pushed \subseteq mem'.queue \cup Done(mem') \cup AtWork' \cup excused
    BY DEF LiveInv
  <2>1. pushed \subseteq q \cup Done(m) \cup AtWork \cup excused
    BY <1>4, <1>5, <1>6 DEF Taken
  <2>2. q \subseteq mem'.queue \cup AtWork' \cup Done(mem') /\ Done(mem') = Done(m)
    BY <1>4, <1>6 DEF Taken
  <2> QED BY <1>6, <2>1, <2>2
<1>11. DiskInv'
  BY DEF Inv, DiskInv, Known, Interrupted
<1> QED BY <1>7, <1>8, <1>9, <1>10, <1>11 DEF Inv, EarlyInv

LEMMA BootReadKeeps == ASSUME Inv, BootRead PROVE Inv'
<1>1. /\ boot = "reading" /\ pc = "idle" /\ AtWork = {} /\ disk \in State
      /\ UNCHANGED <<disk, pushed, unsaved, atRisk, excused>>
  BY DEF BootRead, history, Inv, TypeInv, AtWork
<1>2. Active(disk) => pushed \subseteq Known(disk) \cup excused
  BY <1>1 DEF Inv, DiskInv
<1>3. CASE boot' = "asking" /\ mem' = disk /\ UNCHANGED <<queue, pc, task>>
  <2>1. TypeInv'
    BY <1>1, <1>3 DEF Inv, TypeInv
  <2>2. QueueIsStored' /\ MarkIsTrue' /\ EarlyInv'
    BY <1>1, <1>3 DEF QueueIsStored, MarkIsTrue, EarlyInv
  <2>3. Back' = Interrupted(disk)
    BY <1>1, <1>3 DEF Back, Interrupted
  <2>4. LiveInv' /\ DiskInv'
    BY <1>1, <1>2, <1>3, <2>3 DEF LiveInv, DiskInv, Known, Done, Active, Interrupted
  <2> QED BY <2>1, <2>2, <2>4 DEF Inv
<1>4. CASE boot' = "done" /\ Restore(disk)
  BY <1>1, <1>2, <1>4, RestoreKeeps DEF Known, Done
<1> QED BY <1>3, <1>4 DEF BootRead

LEMMA BootDoneKeeps == ASSUME Inv, BootDone PROVE Inv'
<1>1. /\ boot = "asking" /\ boot' = "done" /\ Restore(mem) /\ mem \in State
      /\ UNCHANGED <<disk, pushed, unsaved, atRisk, excused>>
  BY DEF BootDone, history, Inv, TypeInv
<1>2. Active(mem) => pushed \subseteq mem.queue \cup Done(mem) \cup AtWork \cup Back \cup excused
  BY <1>1 DEF Inv, LiveInv
<1>3. Back \subseteq Interrupted(mem)
  BY DEF Back
<1> QED BY <1>1, <1>2, <1>3, RestoreKeeps

LEMMA TabRemovedKeeps == ASSUME Inv, TabRemoved PROVE Inv'
<1>1. /\ mem' = [mem EXCEPT !.workerTab = FALSE]
      /\ UNCHANGED <<disk, queue, pc, task, boot, pushed, unsaved, atRisk, excused>>
  BY DEF TabRemoved, history
<1>2. /\ mem' \in State /\ mem'.queue = mem.queue /\ mem'.inFlight = mem.inFlight
      /\ mem'.retried = mem.retried /\ Active(mem') = Active(mem) /\ Done(mem') = Done(mem)
  BY <1>1 DEF Inv, TypeInv, State, Active, Done
<1>3. AtWork' = AtWork /\ Back' = Back
  BY <1>1, <1>2 DEF AtWork, Back, Interrupted
<1>4. TypeInv' /\ QueueIsStored' /\ MarkIsTrue' /\ LiveInv' /\ EarlyInv'
  BY <1>1, <1>2, <1>3 DEF Inv, TypeInv, QueueIsStored, MarkIsTrue, LiveInv, EarlyInv, Fits
<1>5. DiskInv'
  BY <1>1 DEF Inv, DiskInv, Active, Known, Interrupted
<1> QED BY <1>4, <1>5 DEF Inv

-----------------------------------------------------------------------------
\* Every action keeps the invariant.
LEMMA StepKeeps == ASSUME Inv, [Next]_vars PROVE Inv'
<1>1. CASE LoopStep
  BY <1>1, TabReadyKeeps, VisitDoneKeeps, TestDoneKeeps, TaskFailsKeeps, NextTaskKeeps,
     CaughtUpKeeps DEF LoopStep
<1>2. CASE PanelStep
  BY <1>2, StartKeeps, PauseKeeps, ResumeKeeps, StopKeeps DEF PanelStep
<1>3. CASE PlanArrives \/ Tick \/ \E v \in Visits : DevActivity(v)
  BY <1>3, PlanArrivesKeeps, TickKeeps, DevActivityKeeps
<1>4. CASE BootStep
  BY <1>4, WakeKeeps, BootReadKeeps, BootDoneKeeps DEF BootStep
<1>5. CASE Persist \/ Crash \/ TabRemoved
  BY <1>5, PersistKeeps, CrashKeeps, TabRemovedKeeps
<1>6. CASE PersistFails \/ UNCHANGED vars
  <2>1. UNCHANGED <<mem, disk, queue, pc, task, boot, pushed, unsaved, atRisk, excused>>
    BY <1>6 DEF PersistFails, vars, history
  <2> QED BY <2>1 DEF Inv, TypeInv, QueueIsStored, MarkIsTrue, LiveInv, DiskInv, EarlyInv, Active,
             Done, Fits, AtWork, Back, Interrupted, Known
<1> QED BY <1>1, <1>2, <1>3, <1>4, <1>5, <1>6 DEF Next

LEMMA InitKeeps == Init => Inv
<1> SUFFICES ASSUME Init PROVE Inv
  OBVIOUS
<1>1. EmptyState \in State /\ ~Active(EmptyState) /\ EmptyState.queue = {} /\ EmptyState.inFlight = None
  BY DEF EmptyState, State, Active
<1>2. TypeInv
  BY <1>1 DEF Init, TypeInv
<1> QED BY <1>1, <1>2 DEF Init, Inv, QueueIsStored, MarkIsTrue, LiveInv, DiskInv, EarlyInv, Fits

\* The invariant holds for any pages, cases and number of deaths.
THEOREM ServiceWorkerInvariant == Spec => []Inv
<1>1. Inv /\ [Next]_vars => Inv'
  BY StepKeeps
<1> QED BY <1>1, InitKeeps, PTL DEF Spec

\* However often and whenever the service worker dies, it costs only what was queued since the last
\* write and the task popped then; and an event during a boot only what it overwrites.
THEOREM DeathsCostTheUnwritten == Spec => []LossBounded
<1>1. Inv => LossBounded
  <2> SUFFICES ASSUME Inv, boot = "done", Active(mem)
               PROVE  pushed \ (mem.pages \cup mem.executed \cup mem.failed \cup queue \cup AtWork)
                        \subseteq excused
    BY DEF LossBounded, Lost, Active
  <2>1. pushed \subseteq mem.queue \cup Done(mem) \cup AtWork \cup Back \cup excused
    BY DEF Inv, LiveInv
  <2>2. Back = {} /\ (mem.queue \ queue) \cap pushed = {}
    BY DEF Back, Inv, QueueIsStored, Fits
  <2> QED BY <2>1, <2>2 DEF Done
<1> QED BY <1>1, ServiceWorkerInvariant, PTL

\* The in-flight mark that recovery trusts is never wrong, events during a boot included.
THEOREM MarkStaysTrue == Spec => []MarkIsTrue
<1>1. Inv => MarkIsTrue
  BY DEF Inv
<1> QED BY <1>1, ServiceWorkerInvariant, PTL

\* Once the worker has booted, the queue it works from is stored, but for what a plan has dropped.
THEOREM QueueStaysStored == Spec => []QueueIsStored
<1>1. Inv => QueueIsStored
  BY DEF Inv
<1> QED BY <1>1, ServiceWorkerInvariant, PTL
==============================================================================
