--------------------------- MODULE BackgroundProofs --------------------------
(***************************************************************************)
(* Proofs about the service worker's parts that keep the work, the tab and *)
(* the link to the helper: the work queue is consistent and implements its *)
(* interface; ALT's tab is not forgotten and a task works on the page it   *)
(* asked for, with the panel connecting and the worker dying at any time;  *)
(* and the worker speaks to the helper through one socket.                 *)
(***************************************************************************)
EXTENDS QueueImpl, PanelLink, HelperLink, FiniteSetTheorems, TLAPS

-----------------------------------------------------------------------------
(* The work queue: QueueImpl. *)


\* A task's rank is an integer.
LEMMA RankType == ASSUME NEW t \in Task, NEW b PROVE Rank(t, b) \in Int
<1>1. Boost(t, b) \in Int
  BY DEF Boost
<1>2. t.depth \in Nat /\ t.kind \in Kinds /\ t.dev \in BOOLEAN
  BY DEF Task
<1>3. CASE t.kind = "visit"
  BY <1>1, <1>2, <1>3 DEF Rank
<1>4. CASE t.kind = "test"
  <2>1. t.of \in Cases
    BY <1>4 DEF Task
  <2>2. Priority[t.of] \in Nat
    BY <2>1, TaskQueueAssumption
  <2> QED BY <1>1, <1>4, <2>2 DEF Rank
<1>5. CASE t.kind \in {"explore_actions", "check_links"}
  BY <1>1, <1>5 DEF Rank
<1> QED BY <1>2, <1>3, <1>4, <1>5 DEF Kinds

\* Taking tasks out keeps the parts consistent.
LEMMA ForgetKeeps ==
  ASSUME Consistent, NEW T \in SUBSET tasks, Forget(T)
  PROVE  Consistent'
<1> USE DEF Consistent
<1>1. tasks' \subseteq Task /\ boosted' \in Routes \cup {NoRoute} /\ KeysUnique(tasks')
  BY DEF Forget, KeysUnique
<1>2. keys' = Keys(tasks')
  BY DEF Forget, Keys, KeysUnique
<1>3. IsFiniteSet(keys')
  BY FS_Difference DEF Forget
<1>4. order' \in [keys' -> Nat] /\ seq' \in Nat
  BY DEF Forget
<1>5. \A k \in keys' : order'[k] < seq' /\ order'[k] = order[k] /\ k \in keys
  BY DEF Forget
<1> QED BY <1>1, <1>2, <1>3, <1>4, <1>5

LEMMA PushKeeps ==
  ASSUME Consistent, NEW t \in Offered, Push(t)
  PROVE  Consistent'
<1> DEFINE k == TaskKey(t)
<1> USE DEF Consistent
<1>1. k \notin keys /\ tasks' = tasks \cup {t} /\ keys' = keys \cup {k} /\ seq' = seq + 1
  BY DEF Push
<1>2. tasks' \subseteq Task /\ boosted' \in Routes \cup {NoRoute}
  BY <1>1, QueueImplAssumption DEF Push
<1>3. KeysUnique(tasks') /\ keys' = Keys(tasks')
  BY <1>1 DEF Keys, KeysUnique
<1>4. IsFiniteSet(keys')
  BY <1>1, FS_AddElement
<1>5. order' = [x \in keys \cup {k} |-> IF x = k THEN seq ELSE order[x]]
  BY DEF Push
<1> HIDE DEF k
<1>6. order' \in [keys' -> Nat] /\ seq' \in Nat
  BY <1>1, <1>5
<1>7. \A x \in keys' : order'[x] < seq'
  BY <1>1, <1>5
<1>8. \A x, y \in keys' : order'[x] = order'[y] => x = y
  BY <1>1, <1>5
<1> QED BY <1>2, <1>3, <1>4, <1>6, <1>7, <1>8

\* Of two tasks one precedes the other.
LEMMA PrecedesTotal ==
  ASSUME Consistent, NEW t \in tasks, NEW u \in tasks, t # u
  PROVE  Precedes(t, u) \/ Precedes(u, t)
<1>1. Rank(t, boosted) \in Int /\ Rank(u, boosted) \in Int
  BY RankType DEF Consistent
<1>2. TaskKey(t) \in keys /\ TaskKey(u) \in keys /\ TaskKey(t) # TaskKey(u)
  BY DEF Consistent, Keys, KeysUnique
<1>3. order[TaskKey(t)] \in Nat /\ order[TaskKey(u)] \in Nat /\ order[TaskKey(t)] # order[TaskKey(u)]
  BY <1>2 DEF Consistent
<1> QED BY <1>1, <1>3 DEF Precedes

LEMMA RestartKeeps ==
  ASSUME Consistent, Restart
  PROVE  Consistent'
<1>1. PICK pos \in [keys -> 0..(Cardinality(keys) - 1)] :
         /\ \A t, u \in tasks : Precedes(t, u) <=> pos[TaskKey(t)] < pos[TaskKey(u)]
         /\ order' = pos
  BY DEF Restart
<1>2. Cardinality(keys) \in Nat
  BY FS_CardinalityType DEF Consistent
<1>3. UNCHANGED <<tasks, keys, boosted>> /\ seq' = Cardinality(keys)
  BY DEF Restart
<1>4. order' \in [keys' -> Nat] /\ seq' \in Nat /\ \A k \in keys' : order'[k] < seq'
  BY <1>1, <1>2, <1>3
<1>5. ASSUME NEW k \in keys, NEW l \in keys, pos[k] = pos[l] PROVE k = l
  <2>1. PICK t \in tasks, u \in tasks : k = TaskKey(t) /\ l = TaskKey(u)
    BY DEF Consistent, Keys
  <2>2. ~(pos[k] < pos[l]) /\ ~(pos[l] < pos[k])
    BY <1>2, <1>5
  <2>3. ~Precedes(t, u) /\ ~Precedes(u, t)
    BY <1>1, <2>1, <2>2
  <2> QED BY <2>1, <2>3, PrecedesTotal
<1> QED BY <1>1, <1>3, <1>4, <1>5 DEF Consistent, Keys, KeysUnique

\* Array, key set and insertion numbers stay consistent, whatever is pushed, popped, removed,
\* boosted or restored.
THEOREM QueueConsistent == QueueSpec => []Consistent
<1>1. QueueInit => Consistent
  BY FS_EmptySet DEF QueueInit, Consistent, Keys, KeysUnique
<1>2. Consistent /\ [QueueNext]_queueVars => Consistent'
  <2> SUFFICES ASSUME Consistent, [QueueNext]_queueVars PROVE Consistent'
    OBVIOUS
  <2>1. CASE \E t \in Offered : Push(t)
    BY <2>1, PushKeeps
  <2>2. CASE Pop
    <3>1. CASE UNCHANGED <<tasks, keys, order, seq, boosted>>
      BY <3>1 DEF Consistent, Keys, KeysUnique
    <3>2. CASE \E t \in tasks : Forget({t})
      BY <3>2, ForgetKeeps
    <3> QED BY <2>2, <3>1, <3>2 DEF Pop
  <2>3. CASE \E T \in SUBSET tasks : RemoveWhere(T)
    BY <2>3, ForgetKeeps DEF RemoveWhere
  <2>4. CASE \E r \in Routes : BoostRoute(r)
    BY <2>4 DEF BoostRoute, Consistent, Keys, KeysUnique
  <2>5. CASE Restart
    BY <2>5, RestartKeeps
  <2>6. CASE CreateQueue
    BY <2>6, FS_EmptySet DEF CreateQueue, Consistent, Keys, KeysUnique
  <2>7. CASE UNCHANGED queueVars
    BY <2>7 DEF queueVars, Consistent, Keys, KeysUnique
  <2> QED BY <2>1, <2>2, <2>3, <2>4, <2>5, <2>6, <2>7 DEF QueueNext
<1> QED BY <1>1, <1>2, PTL DEF QueueSpec

\* The interface's view of ranks and keys is the queue's own.
LEMMA InterfaceRank ==
  ASSUME NEW t \in Task, NEW b
  PROVE  Interface!Rank(t, b) = Rank(t, b)
<1>1. Interface!Boost(t, b) = Boost(t, b)
  BY DEF Interface!Boost, Interface!RouteOfTask, Boost, RouteOfTask
<1>2. t.kind \in Kinds
  BY DEF Task
<1>3. CASE t.kind = "visit"
  BY <1>1, <1>3 DEF Interface!Rank, Rank
<1>4. CASE t.kind = "test"
  BY <1>1, <1>4 DEF Interface!Rank, Rank
<1>5. CASE t.kind \in {"explore_actions", "check_links"}
  BY <1>1, <1>5 DEF Interface!Rank, Rank
<1> QED BY <1>2, <1>3, <1>4, <1>5 DEF Kinds

LEMMA InterfaceHeads ==
  ASSUME NEW T \in SUBSET Task, NEW t \in T, NEW b, \A u \in T : Rank(t, b) <= Rank(u, b)
  PROVE  t \in Interface!Heads(T, b)
BY InterfaceRank DEF Interface!Heads

LEMMA InterfacePush ==
  ASSUME NEW T, NEW t, TaskKey(t) \notin Keys(T)
  PROVE  Interface!PushAll(T, {t}) = T \cup {t}
BY DEF Interface!PushAll, Interface!HasKey, Interface!TaskKey, Keys, TaskKey

\* Every operation of the implementation is one of the interface, or invisible to it.
LEMMA StepRefines ==
  ASSUME Consistent, [QueueNext]_queueVars
  PROVE  [Interface!Next]_<<tasks, boosted, out>>
<1>1. CASE \E t \in Offered : Push(t)
  <2>1. PICK t \in Offered : Push(t)
    BY <1>1
  <2>2. TaskKey(t) \notin Keys(tasks) /\ tasks' = tasks \cup {t} /\ UNCHANGED <<boosted, out>>
    BY <2>1 DEF Push, Consistent
  <2>3. Interface!Push(t)
    BY <2>2, InterfacePush DEF Interface!Push
  <2> QED BY <2>3 DEF Interface!Next
<1>2. CASE Pop
  <2>1. CASE tasks = {} /\ out' = {} /\ UNCHANGED <<tasks, boosted>>
    <3>1. Interface!Pop
      BY <2>1 DEF Interface!Pop
    <3> QED BY <3>1 DEF Interface!Next
  <2>2. ASSUME NEW t \in tasks, \A u \in tasks \ {t} : Precedes(t, u), Forget({t}), out' = {t}
        PROVE  Interface!Next
    <3>1. \A u \in tasks : Rank(t, boosted) \in Int /\ Rank(u, boosted) \in Int
      BY RankType DEF Consistent
    <3>2. \A u \in tasks : Rank(t, boosted) <= Rank(u, boosted)
      BY <2>2, <3>1 DEF Precedes
    <3>3. t \in Interface!Heads(tasks, boosted)
      BY <3>2, InterfaceHeads DEF Consistent
    <3>4. Interface!Pop
      BY <2>2, <3>3 DEF Interface!Pop, Forget
    <3> QED BY <3>4 DEF Interface!Next
  <2> QED BY <1>2, <2>1, <2>2 DEF Pop
<1>3. CASE \E T \in SUBSET tasks : RemoveWhere(T)
  <2>1. tasks' \in SUBSET tasks /\ UNCHANGED <<boosted, out>>
    BY <1>3 DEF RemoveWhere, Forget
  <2> QED BY <2>1 DEF Interface!RemoveWhere, Interface!Next
<1>4. CASE \E r \in Routes : BoostRoute(r)
  BY <1>4 DEF BoostRoute, Interface!BoostRoute, Interface!Next
<1>5. CASE Restart
  BY <1>5 DEF Restart
<1>6. CASE CreateQueue
  BY <1>6 DEF CreateQueue, Interface!CreateQueue, Interface!Next, NoRoute, Interface!NoRoute
<1>7. CASE UNCHANGED queueVars
  BY <1>7 DEF queueVars
<1> QED BY <1>1, <1>2, <1>3, <1>4, <1>5, <1>6, <1>7 DEF QueueNext

\* The queue implements its interface: a pop returns a task of minimal rank and a push never
\* duplicates a key, for any tasks and any sequence of operations and restarts.
THEOREM QueueImplements == QueueSpec => ImplementsInterface
<1>1. QueueInit => Interface!Init
  BY DEF QueueInit, Interface!Init, NoRoute, Interface!NoRoute
<1>2. Consistent /\ [QueueNext]_queueVars => [Interface!Next]_<<tasks, boosted, out>>
  BY StepRefines
<1> QED BY <1>1, <1>2, QueueConsistent, PTL DEF QueueSpec, ImplementsInterface, Interface!Spec

\* A restart leaves the order of the remaining work as it was.
THEOREM RestartKeepsOrder == QueueSpec => SameOrderAfterRestart
<1>1. ASSUME Consistent, Restart, NEW t \in tasks, NEW u \in tasks
      PROVE  Precedes(t, u) <=> Precedes(t, u)'
  <2>1. PICK pos \in [keys -> 0..(Cardinality(keys) - 1)] :
          /\ \A x, y \in tasks : Precedes(x, y) <=> pos[TaskKey(x)] < pos[TaskKey(y)]
          /\ order' = pos
    BY <1>1 DEF Restart
  <2>2. Rank(t, boosted)' = Rank(t, boosted) /\ Rank(u, boosted)' = Rank(u, boosted)
    BY <1>1 DEF Restart
  <2>3. Rank(t, boosted) \in Int /\ Rank(u, boosted) \in Int
    BY <1>1, RankType DEF Consistent
  <2>4. Precedes(t, u)' <=>
          \/ Rank(t, boosted) < Rank(u, boosted)
          \/ Rank(t, boosted) = Rank(u, boosted) /\ Precedes(t, u)
    BY <2>1, <2>2 DEF Precedes
  <2> QED BY <2>3, <2>4 DEF Precedes
<1>2. Consistent /\ [QueueNext]_queueVars =>
        [Restart => \A t, u \in tasks : Precedes(t, u) <=> Precedes(t, u)']_queueVars
  BY <1>1
<1> QED BY <1>2, QueueConsistent, PTL DEF QueueSpec, SameOrderAfterRestart

-----------------------------------------------------------------------------
(* ALT's tab: WorkerTab, alone and with the panel of PanelLink. *)


TabRecord ==
    [life : {"new", "open", "closed"}, page : Pages \cup {None, ErrorPage},
     nav : Pages \cup {None}, marks : SUBSET Origins, scripts : Scripts]

\* What the task's step says of its tab and its page: a task runs in a worker that has restored
\* its state, the tab it works with has been created, and, unless the task began early, the boot is
\* over and while the tab is being created there is no other that ALT knows.
TaskHasItsTab ==
    /\ pc # "idle" => Alive /\ want \in Pages
    /\ pc # "idle" /\ ~early => boot = "done"
    /\ pc \in {"idle", "asking", "creating"} <=> at = None
    /\ pc \in Creating /\ ~early /\ tabId # None => ~Open(tabId)

\* No id is known before its tab exists, and a document with a script is a page.
Existing ==
    /\ {tabId, stored, disk, at} \subseteq {t \in Tabs : tab[t].life # "new"} \cup {None}
    /\ \A t \in Tabs : tab[t].scripts # "none" => tab[t].page \in Pages

\* What a boot goes through while no task has begun: nothing is known, then what the disk names,
\* unless it has closed.
BootKnows ==
    /\ boot \in {"dead", "reading"} => tabId = None /\ ~early
    /\ boot = "asking" /\ ~early =>
         tabId = None /\ (disk # None /\ Open(disk) => stored = disk)

\* A task that has no doubt is on its way to the page it asked for, there, where the site ends that
\* load, or on the error page.
OnTheWay ==
    /\ pc \in {"navigating", "moving"} /\ ~doubt /\ Open(at)
         => tab[at].nav = want \/ (tab[at].nav = None /\ tab[at].page = want)
    /\ pc \in {"pinging", "working"} /\ ~doubt /\ Open(at)
         => tab[at].nav = None /\ tab[at].page \in {want, ErrorPage} \cup Landing[want]
    /\ WorksOnThePage

TabInv == TypeOK /\ TaskHasItsTab /\ Existing /\ BootKnows /\ OnTheWay

\* The kinds of steps, as sets of strings.
LEMMA Steps ==
  /\ Loading = {"firstload", "secondload", "navigating", "moving"}
  /\ Creating = {"creating", "firstload", "marking", "secondload", "recording"}
BY DEF Loading, Creating

\* A tab's fields have their types, and no tab is None.
LEMMA Fields ==
  ASSUME TypeOK, NEW t \in Tabs
  PROVE  /\ tab[t].life \in {"new", "open", "closed"} /\ tab[t].page \in Pages \cup {None, ErrorPage}
         /\ tab[t].nav \in Pages \cup {None} /\ tab[t].marks \in SUBSET Origins
         /\ tab[t].scripts \in Scripts /\ t # None
BY WorkerTabAssumption DEF TypeOK

\* A load ends on a page.
LEMMA Landings ==
  ASSUME TypeOK, NEW t \in Tabs, tab[t].nav # None, NEW p \in Landing[tab[t].nav]
  PROVE  p \in Pages
BY Fields, WorkerTabAssumption

LEMMA InitTabInv == ASSUME Init PROVE TabInv
<1>1. NotYet \in [life : {"new", "open", "closed"}, page : Pages \cup {None, ErrorPage},
                  nav : Pages \cup {None}, marks : SUBSET Origins, scripts : Scripts]
  BY DEF NotYet, Scripts
<1>2. TypeOK
  <2>1. pc = "idle" /\ boot = "done" /\ doubt = FALSE /\ early = FALSE /\ site = None /\ origin \in Origins /\ ops = 0 /\ faults = 0
        /\ tabId = None /\ stored = None /\ disk = None /\ at = None /\ want = None /\ taken = None
    BY DEF Init, InitWith
  <2>2. tab \in [Tabs -> [life : {"new", "open", "closed"}, page : Pages \cup {None, ErrorPage},
                  nav : Pages \cup {None}, marks : SUBSET Origins, scripts : Scripts]]
    BY <1>1 DEF Init, InitWith
  <2>3. {tabId, stored, disk, at} \subseteq Tabs \cup {None} /\ want \in Pages \cup {None} /\ taken \in Tabs \cup {None}
    BY <2>1
  <2>4. ops \in 0..Ops /\ faults \in 0..Faults
    BY <2>1, WorkerTabAssumption
  <2> QED BY <2>1, <2>2, <2>3, <2>4 DEF TypeOK
<1>3. \A t \in Tabs : tab[t].scripts = "none"
  BY DEF Init, InitWith, NotYet
<1> QED BY <1>2, <1>3 DEF Init, InitWith, TabInv, TaskHasItsTab, Existing, BootKnows, OnTheWay,
                         WorksOnThePage, Creating

\* Where a wait ends.
LEMMA AfterLoads ==
  ASSUME pc \in Loading
  PROVE  /\ AfterLoad = (IF pc = "firstload" THEN "marking" ELSE IF pc = "secondload" THEN "recording" ELSE "pinging")
         /\ AfterLoad \in {"marking", "recording", "pinging"}
BY Steps DEF AfterLoad

\* What a document of a page is for the tab it loads in.
LEMMA Documents ==
  ASSUME TypeOK, NEW t \in Tabs, NEW p \in Pages, NEW registered \in BOOLEAN
  PROVE  /\ Document(t, p, registered) \in TabRecord
         /\ Document(t, p, registered).life = tab[t].life
         /\ Document(t, p, registered).page = p
         /\ Document(t, p, registered).nav = None
BY DEF TypeOK, TabRecord, Document, MainOf, Scripts

LEMMA BrowserTyped ==
  ASSUME TabInv, NEW t \in Tabs,
         LoadCompletes(t) \/ LoadFails(t) \/ FrameCompletes(t) \/ PageNavigates(t) \/ TabClosed(t)
  PROVE  TypeOK'
<1> TypeOK
  BY DEF TabInv
<1> USE DEF TypeOK
<1>1. CASE LoadCompletes(t)
  <2>1. PICK p \in Landing[tab[t].nav], registered \in BOOLEAN : tab' = [tab EXCEPT ![t] = Document(t, p, registered)]
    BY <1>1 DEF LoadCompletes
  <2>2. p \in Pages
    BY <1>1, Landings DEF LoadCompletes
  <2>3. tab' \in [Tabs -> TabRecord]
    BY <2>1, <2>2, Documents DEF TabRecord
  <2>4. taken' \in Tabs \cup {None}
    BY <1>1 DEF LoadCompletes, Noticed
  <2>5. pc' \in {"idle", "asking", "have", "pinging", "working"} \cup Loading \cup Creating /\ UNCHANGED <<at, site, want, doubt>>
    BY <1>1, AfterLoads, Steps DEF LoadCompletes, EndsWait, Goto, task
  <2>6. UNCHANGED <<tabId, stored, disk, origin, boot, early, ops, faults>>
    BY <1>1 DEF LoadCompletes, known
  <2> QED BY <2>3, <2>4, <2>5, <2>6 DEF TabRecord
<1>2. CASE LoadFails(t)
  <2>1. tab' \in [Tabs -> TabRecord]
    BY <1>2 DEF LoadFails, TabRecord, Scripts
  <2>2. pc' \in {"idle", "asking", "have", "pinging", "working"} \cup Loading \cup Creating /\ UNCHANGED <<at, site, want, doubt>>
    BY <1>2, AfterLoads, Steps DEF LoadFails, EndsWait, Goto, task
  <2>3. UNCHANGED <<tabId, stored, disk, origin, boot, early, taken, ops, faults>>
    BY <1>2 DEF LoadFails, known
  <2> QED BY <2>1, <2>2, <2>3 DEF TabRecord
<1>3. CASE FrameCompletes(t)
  <2>1. UNCHANGED task
    BY <1>3 DEF FrameCompletes, EndsWait
  <2> QED BY <1>3, <2>1 DEF FrameCompletes, known, task
<1>4. CASE PageNavigates(t)
  <2>1. tab' \in [Tabs -> TabRecord]
    BY <1>4 DEF PageNavigates, TaskPages, TabRecord
  <2>2. faults' \in 0..Faults
    BY <1>4, WorkerTabAssumption DEF PageNavigates, Fault
  <2> QED BY <1>4, <2>1, <2>2 DEF PageNavigates, known, TabRecord
<1>5. CASE TabClosed(t)
  <2>1. tab' \in [Tabs -> TabRecord]
    BY <1>5 DEF TabClosed, TabRecord, Closed, NotYet, Scripts
  <2>2. faults' \in 0..Faults
    BY <1>5, WorkerTabAssumption DEF TabClosed, Fault
  <2>3. {tabId, stored, disk, at}' \subseteq Tabs \cup {None} /\ boot' \in {"dead", "reading", "asking", "done"}
        /\ UNCHANGED <<origin, pc, site, want, doubt, early, taken, ops>>
    BY <1>5 DEF TabClosed, task
  <2> QED BY <2>1, <2>2, <2>3 DEF TabRecord
<1> QED BY <1>1, <1>2, <1>3, <1>4, <1>5

LEMMA EnsureTyped ==
  ASSUME TabInv, EnsureStep
  PROVE  TypeOK'
<1> TypeOK /\ TaskHasItsTab
  BY DEF TabInv
<1> USE DEF TypeOK
<1>1. CASE Ensure
  <2>1. want' \in Pages /\ site' \in Origins /\ early' \in BOOLEAN /\ ops' \in 0..Ops
    BY <1>1, WorkerTabAssumption DEF Ensure
  <2> QED BY <1>1, <2>1 DEF Ensure, known
<1>2. CASE Ensured
  BY <1>2, Steps DEF Ensured
<1>3. CASE Create
  <2>1. at' \in Tabs /\ tab' = [tab EXCEPT ![at'].life = "open", ![at'].nav = want] /\ want \in Pages
    BY <1>3 DEF Create, TaskHasItsTab
  <2>2. tab' \in [Tabs -> TabRecord]
    <3>1. tab \in [Tabs -> TabRecord]
      BY DEF TabRecord
    <3>2. \A v \in TabRecord : [v EXCEPT !.life = "open"] \in TabRecord /\ [v EXCEPT !.nav = want] \in TabRecord
      BY <2>1 DEF TabRecord
    <3>3. tab' = [tab EXCEPT ![at'] = [tab[at'] EXCEPT !.life = "open", !.nav = want]]
      BY <2>1, <3>1
    <3>4. [tab[at'] EXCEPT !.life = "open", !.nav = want] \in TabRecord
      BY <2>1, <3>1, <3>2
    <3> QED BY <2>1, <3>1, <3>3, <3>4
  <2>3. at' \in Tabs \cup {None} /\ pc' = "firstload" /\ UNCHANGED <<tabId, stored, disk, origin, site, want, doubt, boot, early, taken, ops, faults>>
    BY <1>3, <2>1 DEF Create, known
  <2> QED BY <2>2, <2>3, Steps DEF TabRecord
<1>4. CASE Mark
  <2>1. at \in Tabs
    BY <1>4 DEF Mark, TaskHasItsTab
  <2>2. tab' \in [Tabs -> TabRecord]
    <3>1. CASE Scriptable(at)
      <4>1. tab[at].page \in Pages /\ MarkOf(tab[at].page) \subseteq Origins
        BY <3>1 DEF Scriptable, MarkOf, Origins
      <4> QED BY <1>4, <2>1, <3>1, <4>1 DEF Mark, TabRecord
    <3> QED BY <1>4, <3>1 DEF Mark, TabRecord
  <2> QED BY <1>4, <2>2, Steps DEF Mark, known, Goto, TabRecord
<1>5. CASE RecordTab
  BY <1>5, Steps DEF RecordTab, Goto
<1> QED BY <1>1, <1>2, <1>3, <1>4, <1>5 DEF EnsureStep

LEMMA MoveTyped ==
  ASSUME TabInv, MoveStep
  PROVE  TypeOK'
<1> TypeOK /\ TaskHasItsTab
  BY DEF TabInv
<1> USE DEF TypeOK
<1>1. ASSUME NEW step \in {"navigating", "moving"}, NEW p \in Pages, Exists, Moves(step, p),
             UNCHANGED <<known, boot, early, taken, ops, faults>>
      PROVE  TypeOK'
  <2>1. tabId \in Tabs
    BY <1>1 DEF Exists
  <2>2. tab' \in [Tabs -> TabRecord]
    BY <1>1, <2>1 DEF Moves, TabRecord
  <2>3. at' \in Tabs /\ want' \in Pages /\ pc' \in {"pinging", "navigating", "moving"} /\ doubt' \in BOOLEAN /\ site' = site
    BY <1>1, <2>1 DEF Moves
  <2> QED BY <1>1, <2>2, <2>3, Steps DEF known, TabRecord
<1>2. ASSUME TaskEnds, UNCHANGED <<tab, known, boot, early, taken, ops, faults>>
      PROVE  TypeOK'
  BY <1>2 DEF TaskEnds, known
<1>3. CASE Navigate
  BY <1>1, <1>2, <1>3 DEF Navigate, TaskPages
<1>4. CASE ReloadOrBack
  <2>1. CASE /\ pc' = "moving" /\ at' = tabId /\ want' = tab[tabId].page /\ UNCHANGED <<tab, site>>
             /\ doubt' = (tab[tabId].nav # None)
    BY <1>4, <2>1, Steps DEF ReloadOrBack, known
  <2> QED BY <1>1, <1>4, <2>1 DEF ReloadOrBack, TaskPages
<1>5. CASE WaitTimesOut
  BY <1>5, AfterLoads, Steps DEF WaitTimesOut, known
<1>6. CASE Answered
  BY <1>6 DEF Answered, Goto, known
<1>7. CASE InjectsLate
  <2>1. tab' \in [Tabs -> TabRecord]
    BY <1>7 DEF InjectsLate, Injected, MainOf, TabRecord, Scripts
  <2> QED BY <1>7, <2>1 DEF InjectsLate, known, task, TabRecord
<1>8. CASE Unanswered \/ TaskDone
  BY <1>2, <1>8 DEF Unanswered, TaskDone
<1> QED BY <1>3, <1>4, <1>5, <1>6, <1>7, <1>8 DEF MoveStep

LEMMA WorkerTyped ==
  ASSUME TabInv, WorkerStep
  PROVE  TypeOK'
<1> TypeOK
  BY DEF TabInv
<1> USE DEF TypeOK
<1>1. CASE Persist
  BY <1>1 DEF Persist, task
<1>2. CASE SwitchOrigin
  <2>1. faults' \in 0..Faults
    BY <1>2, WorkerTabAssumption DEF SwitchOrigin, Fault
  <2> QED BY <1>2, <2>1 DEF SwitchOrigin, task
<1>3. CASE Dies
  <2>1. faults' \in 0..Faults
    BY <1>3, WorkerTabAssumption DEF Dies, Fault
  <2> QED BY <1>3, <2>1 DEF Dies, TaskEnds
<1>4. CASE Wakes \/ BootReads \/ BootAdopts
  BY <1>4 DEF Wakes, BootReads, BootAdopts, known, task
<1> QED BY <1>1, <1>2, <1>3, <1>4 DEF WorkerStep

LEMMA StepTyped == ASSUME TabInv, [Next]_vars PROVE TypeOK'
<1>1. CASE UNCHANGED vars
  BY <1>1 DEF vars, TabInv, TypeOK
<1> QED BY <1>1, BrowserTyped, EnsureTyped, MoveTyped, WorkerTyped DEF Next, BrowserStep

\* The life of a tab as the browser's and the loop's steps change it.
LEMMA BrowserLives ==
  ASSUME TypeOK, NEW t \in Tabs,
         LoadCompletes(t) \/ LoadFails(t) \/ FrameCompletes(t) \/ PageNavigates(t)
  PROVE  /\ \A u \in Tabs : tab'[u].life = tab[u].life
         /\ \A u \in Tabs \ {t} : tab'[u] = tab[u]
         /\ UNCHANGED <<tabId, stored, disk, at, want, boot, origin, early>>
<1>1. CASE LoadCompletes(t)
  <2>1. PICK p \in Landing[tab[t].nav], registered \in BOOLEAN : tab' = [tab EXCEPT ![t] = Document(t, p, registered)]
    BY <1>1 DEF LoadCompletes
  <2>2. Document(t, p, registered).life = tab[t].life
    BY <1>1, Documents, Landings DEF LoadCompletes
  <2>3. UNCHANGED <<at, want>>
    BY <1>1 DEF LoadCompletes, Goto, task
  <2> QED BY <1>1, <2>1, <2>2, <2>3 DEF LoadCompletes, known, TypeOK
<1>2. CASE LoadFails(t)
  <2>1. UNCHANGED <<at, want>>
    BY <1>2 DEF LoadFails, Goto, task
  <2> QED BY <1>2, <2>1 DEF LoadFails, known, TypeOK
<1>3. CASE FrameCompletes(t)
  BY <1>3 DEF FrameCompletes, EndsWait, task, known
<1>4. CASE PageNavigates(t)
  BY <1>4 DEF PageNavigates, known, TypeOK
<1> QED BY <1>1, <1>2, <1>3, <1>4

\* The step of a task after a browser's event: the next one, when it waits for that tab.
LEMMA BrowserSteps ==
  ASSUME NEW t \in Tabs, LoadCompletes(t) \/ LoadFails(t) \/ FrameCompletes(t) \/ PageNavigates(t)
  PROVE  pc' = pc \/ (pc \in Loading /\ pc' = AfterLoad)
BY DEF LoadCompletes, LoadFails, FrameCompletes, PageNavigates, EndsWait, Goto, task

LEMMA TaskKept ==
  ASSUME TabInv, [Next]_vars
  PROVE  TaskHasItsTab'
<1> TypeOK /\ TaskHasItsTab /\ Existing
  BY DEF TabInv
<1> USE Steps DEF TaskHasItsTab, Alive
<1>1. ASSUME NEW t \in Tabs, LoadCompletes(t) \/ LoadFails(t) \/ FrameCompletes(t) \/ PageNavigates(t)
      PROVE  TaskHasItsTab'
  <2>1. pc' = pc \/ (pc \in Loading /\ pc' = IF pc = "firstload" THEN "marking" ELSE IF pc = "secondload" THEN "recording" ELSE "pinging")
    BY <1>1, BrowserSteps, AfterLoads
  <2>2. tabId' # None => tabId \in Tabs /\ tab'[tabId'].life = tab[tabId].life
    BY <1>1, BrowserLives DEF TypeOK
  <2>3. UNCHANGED <<tabId, at, want, boot, early>>
    BY <1>1, BrowserLives
  <2> QED BY <2>1, <2>2, <2>3 DEF Open
<1>2. ASSUME NEW t \in Tabs, TabClosed(t)
      PROVE  TaskHasItsTab'
  <2>1. UNCHANGED <<pc, at, want, early>> /\ (pc # "idle" => boot' = boot)
    BY <1>2 DEF TabClosed, task
  <2>2. tab' = [tab EXCEPT ![t] = Closed] /\ (tabId' = tabId \/ tabId' = None) /\ tabId \in Tabs \cup {None}
    BY <1>2 DEF TabClosed, TypeOK
  <2>3. tabId' # None /\ Open(tabId)' => Open(tabId)
    BY <2>2, Fields DEF Open, Closed, NotYet, TypeOK
  <2> QED BY <2>1, <2>2, <2>3
<1>3. CASE Ensure
  BY <1>3, WorkerTabAssumption DEF Ensure, known, TypeOK
<1>4. CASE Ensured
  BY <1>4 DEF Ensured, Exists, Open
<1>5. CASE Create
  <2>1. at' \in Tabs /\ at' # None /\ tab[at'].life = "new" /\ tab' = [tab EXCEPT ![at'].life = "open", ![at'].nav = want]
    BY <1>5, Fields DEF Create
  <2>2. tabId # None => tabId # at' /\ tab'[tabId] = tab[tabId]
    BY <2>1 DEF Existing, TypeOK
  <2> QED BY <1>5, <2>1, <2>2 DEF Create, known, Open
<1>6. CASE Mark
  <2>1. at \in Tabs /\ \A u \in Tabs : tab'[u].life = tab[u].life
    BY <1>6 DEF Mark, TypeOK
  <2>2. UNCHANGED <<tabId, at, want, boot, early>> /\ pc = "marking" /\ pc' \in {"secondload", "recording"}
    BY <1>6 DEF Mark, known, Goto
  <2>3. tabId # None => tabId \in Tabs
    BY DEF TypeOK
  <2> QED BY <2>1, <2>2, <2>3 DEF Open
<1>7. CASE RecordTab
  BY <1>7 DEF RecordTab, Goto
<1>8. CASE Navigate
  <2>1. \A p \in TaskPages : p \in Pages
    BY DEF TaskPages
  <2> QED BY <1>8, <2>1 DEF Navigate, Moves, TaskEnds, known, Exists
<1>9. CASE ReloadOrBack
  <2>1. \A p \in TaskPages : p \in Pages
    BY DEF TaskPages
  <2> QED BY <1>9, <2>1 DEF ReloadOrBack, Moves, known, Exists
<1>10. CASE WaitTimesOut
  BY <1>10, AfterLoads DEF WaitTimesOut, known, Open
<1>11. CASE Answered \/ Unanswered \/ TaskDone
  BY <1>11 DEF Answered, Unanswered, TaskDone, Goto, TaskEnds, known
<1>12. CASE InjectsLate
  BY <1>12 DEF InjectsLate, task, known
<1>13. CASE Persist \/ SwitchOrigin
  BY <1>13 DEF Persist, SwitchOrigin, task, Open
<1>14. CASE Dies
  BY <1>14 DEF Dies, TaskEnds
<1>15. CASE Wakes \/ BootReads \/ BootAdopts
  BY <1>15 DEF Wakes, BootReads, BootAdopts, task
<1>16. CASE UNCHANGED vars
  BY <1>16 DEF vars, Open
<1> QED BY <1>1, <1>2, <1>3, <1>4, <1>5, <1>6, <1>7, <1>8, <1>9, <1>10, <1>11, <1>12, <1>13, <1>14,
           <1>15, <1>16 DEF Next, BrowserStep, EnsureStep, MoveStep, WorkerStep

\* No step makes a tab new again, and the ids that are known come from tabs that exist.
LEMMA ExistingKept ==
  ASSUME TabInv, [Next]_vars
  PROVE  Existing'
<1> DEFINE Old == {t \in Tabs : tab[t].life # "new"} \cup {None}
           Ids == {tabId, stored, disk, at}
<1> TypeOK /\ TypeOK' /\ TaskHasItsTab /\ Existing
  BY StepTyped DEF TabInv
<1>a. Existing' <=> Ids' \subseteq Old' /\ \A t \in Tabs : tab'[t].scripts # "none" => tab'[t].page \in Pages
  BY DEF Existing
<1>b. Ids \subseteq Old /\ \A t \in Tabs : tab[t].scripts # "none" => tab[t].page \in Pages
  BY DEF Existing
<1>c. ASSUME \A t \in Tabs : tab[t].life # "new" => tab'[t].life # "new" PROVE Old \subseteq Old'
  BY <1>c
<1>d. UNCHANGED tab => Old' = Old
  OBVIOUS
<1>e. None \in Old'
  OBVIOUS
<1>1. ASSUME NEW t \in Tabs, LoadCompletes(t) \/ LoadFails(t) \/ FrameCompletes(t) \/ PageNavigates(t)
      PROVE  Existing'
  <2>1. Ids' \subseteq Old'
    BY <1>1, <1>b, <1>c, BrowserLives
  <2>2. tab'[t].scripts # "none" => tab'[t].page \in Pages
    <3>1. CASE LoadCompletes(t)
      <4>1. PICK p \in Landing[tab[t].nav], registered \in BOOLEAN :
              tab' = [tab EXCEPT ![t] = Document(t, p, registered)]
        BY <3>1 DEF LoadCompletes
      <4>2. p \in Pages
        BY <3>1, <4>1, Landings DEF LoadCompletes
      <4>3. tab'[t].page \in Pages
        BY <4>1, <4>2, Documents DEF TypeOK
      <4> QED BY <4>3
    <3>2. CASE LoadFails(t)
      BY <3>2 DEF LoadFails, TypeOK
    <3>3. CASE FrameCompletes(t)
      BY <1>b, <3>3 DEF FrameCompletes
    <3>4. CASE PageNavigates(t)
      BY <1>b, <3>4 DEF PageNavigates, TypeOK
    <3> QED BY <1>1, <3>1, <3>2, <3>3, <3>4
  <2> QED BY <1>1, <1>a, <1>b, <2>1, <2>2, BrowserLives
<1>2. ASSUME NEW t \in Tabs, TabClosed(t)
      PROVE  Existing'
  <2>1. tab' = [tab EXCEPT ![t] = Closed] /\ Closed.life = "closed" /\ Closed.scripts = "none"
    BY <1>2 DEF TabClosed, Closed, NotYet
  <2>2. Ids' \subseteq Ids \cup {None}
    BY <1>2 DEF TabClosed, task
  <2>3. \A u \in Tabs : tab'[u] = IF u = t THEN Closed ELSE tab[u]
    BY <2>1 DEF TypeOK
  <2>4. Old \subseteq Old'
    BY <1>c, <2>1, <2>3
  <2> QED BY <1>a, <1>b, <1>e, <2>1, <2>2, <2>3, <2>4
<1>3. CASE Ensure
  BY <1>3, <1>a, <1>b, <1>d DEF Ensure, known
<1>4. CASE Ensured
  <2>1. Ids' \subseteq Ids
    BY <1>4 DEF Ensured
  <2> QED BY <1>4, <2>1, <1>a, <1>b, <1>d DEF Ensured
<1>5. CASE Create
  <2>1. at' \in Tabs /\ tab' = [tab EXCEPT ![at'].life = "open", ![at'].nav = want]
    BY <1>5 DEF Create
  <2>2. /\ \A u \in Tabs \ {at'} : tab'[u] = tab[u]
        /\ tab'[at'].scripts = tab[at'].scripts /\ tab'[at'].page = tab[at'].page /\ tab'[at'].life = "open"
    BY <2>1 DEF TypeOK
  <2>3. \A u \in Tabs : /\ tab'[u].scripts = tab[u].scripts /\ tab'[u].page = tab[u].page
                         /\ tab'[u].life = IF u = at' THEN "open" ELSE tab[u].life
    BY <2>2
  <2>4. Old \subseteq Old'
    BY <1>c, <2>3
  <2>5. Ids' \subseteq Ids \cup {at'} /\ at' \in Old'
    BY <1>5, <2>1, <2>3 DEF Create, known
  <2> QED BY <1>a, <1>b, <2>3, <2>4, <2>5
<1>6. CASE Mark
  <2>1. at \in Tabs /\ Ids' = Ids
    BY <1>6 DEF Mark, known, Goto, TaskHasItsTab, TypeOK
  <2>2. \A u \in Tabs : /\ tab'[u].scripts = tab[u].scripts /\ tab'[u].page = tab[u].page
                         /\ tab'[u].life = tab[u].life
    BY <1>6, <2>1 DEF Mark, TypeOK
  <2> QED BY <1>a, <1>b, <1>c, <2>1, <2>2
<1>7. CASE RecordTab
  BY <1>7, <1>a, <1>b, <1>d DEF RecordTab, Goto
<1>8. ASSUME NEW step, NEW p, Exists, Moves(step, p), UNCHANGED known
      PROVE  Existing'
  <2>1. tabId \in Tabs /\ Ids' \subseteq Ids
    BY <1>8 DEF Exists, Moves, known, TypeOK
  <2>2. \A u \in Tabs : /\ tab'[u].scripts = tab[u].scripts /\ tab'[u].page = tab[u].page
                         /\ tab'[u].life = tab[u].life
    BY <1>8, <2>1 DEF Moves, TypeOK
  <2> QED BY <1>a, <1>b, <1>c, <2>1, <2>2
<1>9. ASSUME UNCHANGED <<tab, known>>, at' \in {at, None, tabId}
      PROVE  Existing'
  BY <1>9, <1>a, <1>b, <1>d DEF known
<1>10. CASE Navigate
  BY <1>8, <1>9, <1>10 DEF Navigate, TaskEnds
<1>11. CASE ReloadOrBack
  BY <1>8, <1>9, <1>11 DEF ReloadOrBack
<1>12. CASE InjectsLate
  <2>1. Ids' = Ids /\ at \in Tabs
    BY <1>12 DEF InjectsLate, task, known, TaskHasItsTab, TypeOK
  <2>2. \A u \in Tabs : /\ tab'[u].page = tab[u].page /\ tab'[u].life = tab[u].life
                         /\ (tab'[u].scripts = tab[u].scripts \/ tab[u].page \in Pages)
    BY <1>12, <2>1 DEF InjectsLate, Injected, Scriptable, TypeOK
  <2> QED BY <1>a, <1>b, <1>c, <2>1, <2>2
<1>13. CASE WaitTimesOut \/ Answered \/ Unanswered \/ TaskDone
  BY <1>9, <1>13 DEF WaitTimesOut, Answered, Unanswered, TaskDone, Goto, TaskEnds
<1>14. CASE WorkerStep
  <2>1. Ids' \subseteq Ids \cup {None} /\ UNCHANGED tab
    BY <1>14 DEF WorkerStep, Persist, SwitchOrigin, Dies, Wakes, BootReads, BootAdopts, task, known, TaskEnds
  <2> QED BY <2>1, <1>a, <1>b, <1>d, <1>e
<1>15. CASE UNCHANGED vars
  BY <1>9, <1>15 DEF vars, known
<1> QED BY <1>1, <1>2, <1>3, <1>4, <1>5, <1>6, <1>7, <1>10, <1>11, <1>12, <1>13, <1>14, <1>15
        DEF Next, BrowserStep, EnsureStep, MoveStep

\* A boot knows no tab, and once it has read the disk the store has the tab that is named there.
LEMMA BootKept ==
  ASSUME TabInv, [Next]_vars
  PROVE  BootKnows'
<1> TypeOK /\ TaskHasItsTab /\ Existing /\ BootKnows
  BY DEF TabInv
<1>1. ASSUME NEW t \in Tabs, LoadCompletes(t) \/ LoadFails(t) \/ FrameCompletes(t) \/ PageNavigates(t)
      PROVE  BootKnows'
  <2>1. disk # None => disk \in Tabs /\ tab'[disk].life = tab[disk].life
    BY <1>1, BrowserLives DEF TypeOK
  <2> QED BY <1>1, <2>1, BrowserLives DEF BootKnows, Open
<1>2. ASSUME NEW t \in Tabs, TabClosed(t)
      PROVE  BootKnows'
  <2>1. disk # None => disk \in Tabs /\ tab'[disk] = IF disk = t THEN Closed ELSE tab[disk]
    BY <1>2 DEF TabClosed, TypeOK
  <2> QED BY <1>2, <2>1 DEF TabClosed, BootKnows, Open, Closed, NotYet, Alive
<1>3. CASE EnsureStep \/ MoveStep
  <2>1. boot' = boot /\ Alive
    BY <1>3, Steps DEF EnsureStep, Ensure, Ensured, Create, Mark, RecordTab, MoveStep, Navigate, ReloadOrBack,
                WaitTimesOut, Answered, InjectsLate, Unanswered, TaskDone, TaskHasItsTab, Alive
  <2>2. boot # "done" => early'
    BY <1>3, Steps DEF EnsureStep, Ensure, Ensured, Create, Mark, RecordTab, MoveStep, Navigate, ReloadOrBack,
                WaitTimesOut, Answered, InjectsLate, Unanswered, TaskDone, TaskHasItsTab
  <2> QED BY <2>1, <2>2 DEF BootKnows, Alive
<1>4. CASE WorkerStep
  BY <1>4 DEF WorkerStep, Persist, SwitchOrigin, Dies, Wakes, BootReads, BootAdopts, known, BootKnows, Open
<1>5. CASE UNCHANGED vars
  BY <1>5 DEF vars, BootKnows, Open
<1> QED BY <1>1, <1>2, <1>3, <1>4, <1>5 DEF Next, BrowserStep

\* A step that touches neither the task nor what its tab shows keeps it on its way.
LEMMA SameWay ==
  ASSUME OnTheWay, UNCHANGED task,
         Open(at)' => Open(at) /\ tab'[at].page = tab[at].page /\ tab'[at].nav = tab[at].nav
  PROVE  OnTheWay'
BY DEF OnTheWay, WorksOnThePage, task

LEMMA WayKept ==
  ASSUME TabInv, [Next]_vars
  PROVE  OnTheWay'
<1> TypeOK /\ TaskHasItsTab /\ Existing /\ OnTheWay
  BY DEF TabInv
<1>1. ASSUME NEW t \in Tabs, LoadCompletes(t)
      PROVE  OnTheWay'
  <2>1. PICK p \in Landing[tab[t].nav], registered \in BOOLEAN : tab' = [tab EXCEPT ![t] = Document(t, p, registered)]
    BY <1>1 DEF LoadCompletes
  <2>2. p \in Landing[tab[t].nav] /\ p \in Pages /\ Open(t) /\ tab[t].nav # None
    BY <1>1, <2>1, Landings DEF LoadCompletes
  <2>3. tab'[t].page = p /\ tab'[t].nav = None /\ tab'[t].life = "open"
    BY <2>1, <2>2, Documents DEF TypeOK, Open
  <2>4. CASE at = t
    <3>1. CASE pc \in Loading
      <4>1. pc' = AfterLoad /\ UNCHANGED <<at, site, want, doubt>>
        BY <1>1, <2>4, <3>1 DEF LoadCompletes, EndsWait, Goto
      <4> QED BY <2>2, <2>3, <2>4, <3>1, <4>1, AfterLoads, Steps DEF OnTheWay, WorksOnThePage, Open
    <3>2. CASE pc \notin Loading
      <4>1. UNCHANGED task
        BY <1>1, <3>2 DEF LoadCompletes, EndsWait
      <4> QED BY <2>2, <2>3, <2>4, <3>2, <4>1, Steps DEF OnTheWay, WorksOnThePage, task
    <3> QED BY <3>1, <3>2
  <2>5. CASE at # t
    <3>1. UNCHANGED task
      BY <1>1, <2>5 DEF LoadCompletes, EndsWait
    <3>2. Open(at)' /\ at \in Tabs => tab'[at] = tab[at]
      BY <2>1, <2>5
    <3> QED BY <3>1, <3>2, Steps DEF OnTheWay, WorksOnThePage, Open, task, TaskHasItsTab, TypeOK
  <2> QED BY <2>4, <2>5
<1>2. ASSUME NEW t \in Tabs, LoadFails(t)
      PROVE  OnTheWay'
  <2>1. Open(t) /\ tab[t].nav # None /\ tab' = [tab EXCEPT ![t].page = ErrorPage, ![t].nav = None, ![t].scripts = "none"]
    BY <1>2 DEF LoadFails
  <2>2. tab'[t].page = ErrorPage /\ tab'[t].nav = None
    BY <2>1 DEF TypeOK
  <2>4. CASE at = t
    <3>1. CASE pc \in Loading
      <4>1. pc' = AfterLoad /\ UNCHANGED <<at, site, want, doubt>>
        BY <1>2, <2>4, <3>1 DEF LoadFails, EndsWait, Goto
      <4> QED BY <2>1, <2>2, <2>4, <3>1, <4>1, AfterLoads, Steps DEF OnTheWay, WorksOnThePage, Open
    <3>2. CASE pc \notin Loading
      <4>1. UNCHANGED task
        BY <1>2, <3>2 DEF LoadFails, EndsWait
      <4> QED BY <2>1, <2>2, <2>4, <3>2, <4>1, Steps DEF OnTheWay, WorksOnThePage, task
    <3> QED BY <3>1, <3>2
  <2>5. CASE at # t
    <3>1. UNCHANGED task
      BY <1>2, <2>5 DEF LoadFails, EndsWait
    <3>2. at \in Tabs => tab'[at] = tab[at]
      BY <2>1, <2>5 DEF TypeOK
    <3> QED BY <3>1, <3>2, Steps DEF OnTheWay, WorksOnThePage, Open, task, TaskHasItsTab, TypeOK
  <2> QED BY <2>4, <2>5
<1>3. ASSUME NEW t \in Tabs, FrameCompletes(t)
      PROVE  OnTheWay'
  <2>1. UNCHANGED <<tab, task>>
    BY <1>3 DEF FrameCompletes, EndsWait
  <2> QED BY <2>1, SameWay DEF Open, task
<1>4. ASSUME NEW t \in Tabs, PageNavigates(t)
      PROVE  OnTheWay'
  BY <1>4 DEF PageNavigates, OnTheWay, WorksOnThePage
<1>5. ASSUME NEW t \in Tabs, TabClosed(t)
      PROVE  OnTheWay'
  <2>1. UNCHANGED task
    BY <1>5 DEF TabClosed
  <2>2. CASE at \in Tabs
    <3>1. tab'[at] = IF at = t THEN Closed ELSE tab[at]
      BY <1>5, <2>2 DEF TabClosed, TypeOK
    <3> QED BY <2>1, <3>1, SameWay DEF Open, Closed, NotYet, task
  <2>3. CASE at = None
    BY <2>1, <2>3, Steps DEF OnTheWay, WorksOnThePage, TaskHasItsTab, task
  <2> QED BY <2>2, <2>3 DEF TypeOK
<1>6. CASE EnsureStep
  <2>1. pc' \in {"asking", "have"} \cup Creating
    BY <1>6, Steps DEF EnsureStep, Ensure, Ensured, Create, Mark, RecordTab, Goto
  <2>2. pc' \notin {"navigating", "moving", "pinging", "working"}
    BY <2>1, Steps
  <2> QED BY <2>2 DEF OnTheWay, WorksOnThePage
<1>7. ASSUME NEW step \in {"navigating", "moving"}, NEW p \in Pages, Exists, Moves(step, p)
      PROVE  OnTheWay'
  <2>1. tabId \in Tabs /\ at' = tabId
    BY <1>7 DEF Exists, Moves, TypeOK
  <2>2. tab'[tabId].nav = p
    BY <1>7, <2>1 DEF Moves, TypeOK
  <2> QED BY <1>7, <2>1, <2>2 DEF Moves, OnTheWay, WorksOnThePage
<1>8. CASE Navigate
  BY <1>7, <1>8 DEF Navigate, TaskEnds, TaskPages, OnTheWay, WorksOnThePage
<1>9. CASE ReloadOrBack
  <2>1. CASE /\ pc' = "moving" /\ at' = tabId /\ want' = tab[tabId].page /\ UNCHANGED <<tab, site>>
             /\ doubt' = (tab[tabId].nav # None)
    BY <2>1 DEF OnTheWay, WorksOnThePage
  <2> QED BY <1>7, <1>9, <2>1 DEF ReloadOrBack, TaskPages
<1>10. CASE WaitTimesOut
  BY <1>10 DEF WaitTimesOut, OnTheWay, WorksOnThePage
<1>11. CASE Answered
  <2>1. at \in Tabs /\ tab[at].page # ErrorPage
    BY <1>11, Steps, WorkerTabAssumption DEF Answered, TaskHasItsTab, Existing, TypeOK
  <2> QED BY <1>11, <2>1 DEF Answered, Goto, OnTheWay, WorksOnThePage, Open
<1>12. CASE InjectsLate
  <2>1. at \in Tabs /\ UNCHANGED task
    BY <1>12, Steps DEF InjectsLate, TaskHasItsTab, TypeOK
  <2>2. tab'[at].page = tab[at].page /\ tab'[at].nav = tab[at].nav /\ tab'[at].life = tab[at].life
    BY <1>12, <2>1 DEF InjectsLate, Injected, TypeOK
  <2> QED BY <2>1, <2>2, SameWay DEF Open, task
<1>13. CASE Unanswered \/ TaskDone \/ Dies
  BY <1>13 DEF Unanswered, TaskDone, Dies, TaskEnds, OnTheWay, WorksOnThePage
<1>14. CASE Persist \/ SwitchOrigin \/ Wakes \/ BootReads \/ BootAdopts
  BY <1>14, SameWay DEF Persist, SwitchOrigin, Wakes, BootReads, BootAdopts, Open, task
<1>15. CASE UNCHANGED vars
  BY <1>15, SameWay DEF vars, task, Open
<1> QED BY <1>1, <1>2, <1>3, <1>4, <1>5, <1>6, <1>8, <1>9, <1>10, <1>11, <1>12, <1>13, <1>14, <1>15
        DEF Next, BrowserStep, MoveStep, WorkerStep

LEMMA TabInvKept == TabInv /\ [Next]_vars => TabInv'
BY StepTyped, TaskKept, ExistingKept, BootKept, WayKept DEF TabInv

\* The tabs that a step may take from those that ALT knows or will find.
LEMMA NoStray ==
  ASSUME TabInv, [Next]_vars
  PROVE  \/ Strays' \subseteq Strays
         \/ boot' = "dead"
         \/ early /\ (boot = "asking" \/ pc = "recording")
<1> TypeOK /\ TaskHasItsTab /\ Existing /\ BootKnows
  BY DEF TabInv
<1>0. SUFFICES ASSUME boot' # "dead", early => boot # "asking" /\ pc # "recording", NEW u \in Tabs, Open(u)', u \notin Found', Open(u) => u \in Found
      PROVE  FALSE
  BY DEF Strays
<1> u # None
  BY WorkerTabAssumption
<1>1. CASE EnsureStep
  <2>1. CASE Ensure
    BY <1>0, <2>1, Steps DEF Ensure, Found, Open, known
  <2>2. CASE Ensured
    BY <1>0, <2>2, Steps DEF Ensured, Found, Open
  <2>3. CASE Create
    <3>1. pc' = "firstload" /\ UNCHANGED <<tabId, boot, disk>> /\ at = None
      BY <2>3, Steps DEF Create, known, TaskHasItsTab
    <3>2. u # at' => tab'[u] = tab[u]
      BY <2>3 DEF Create, TypeOK
    <3> QED BY <1>0, <3>1, <3>2, Steps DEF Found, Open
  <2>4. CASE Mark
    <3>1. pc = "marking" /\ pc' \in {"secondload", "recording"} /\ UNCHANGED <<tabId, boot, disk, at>>
      BY <2>4 DEF Mark, known, Goto
    <3>2. at \in Tabs
      BY <3>1, Steps DEF TaskHasItsTab, TypeOK
    <3>3. tab'[u].life = tab[u].life
      BY <2>4, <3>2 DEF Mark, TypeOK
    <3> QED BY <1>0, <3>1, <3>3, Steps DEF Found, Open
  <2>5. CASE RecordTab
    <3>1. pc = "recording" /\ pc' = "have" /\ tabId' = at /\ at' = at /\ UNCHANGED <<tab, boot, disk>>
      BY <2>5 DEF RecordTab, Goto
    <3>2. u # tabId
      BY <1>0, <3>1, Steps DEF TaskHasItsTab, Open
    <3> QED BY <1>0, <3>1, <3>2, Steps DEF Found, Open
  <2> QED BY <1>1, <2>1, <2>2, <2>3, <2>4, <2>5 DEF EnsureStep
<1>2. CASE MoveStep
  <2>1. UNCHANGED <<tabId, disk, boot>>
    BY <1>2 DEF MoveStep, Navigate, ReloadOrBack, WaitTimesOut, Answered, InjectsLate, Unanswered, TaskDone, known
  <2>2. pc \in Creating => pc' \in Creating /\ at' = at
    BY <1>2, AfterLoads, Steps DEF MoveStep, Navigate, ReloadOrBack, WaitTimesOut, Answered, InjectsLate, Unanswered, TaskDone
  <2>3. tab'[u].life = tab[u].life
    BY <1>2 DEF MoveStep, Navigate, ReloadOrBack, Moves, Exists, WaitTimesOut, Answered, InjectsLate, Injected,
                Unanswered, TaskDone, TypeOK
  <2> QED BY <1>0, <2>1, <2>2, <2>3 DEF Found, Open
<1>3. ASSUME NEW t \in Tabs, LoadCompletes(t) \/ LoadFails(t) \/ FrameCompletes(t) \/ PageNavigates(t)
      PROVE  FALSE
  <2>1. pc \in Creating => pc' \in Creating
    BY <1>3, BrowserSteps, AfterLoads, Steps
  <2> QED BY <1>0, <1>3, <2>1, BrowserLives DEF Found, Open
<1>4. ASSUME NEW t \in Tabs, TabClosed(t)
      PROVE  FALSE
  <2>1. tab'[u] = IF u = t THEN Closed ELSE tab[u]
    BY <1>4 DEF TabClosed, TypeOK
  <2>2. u # t /\ Open(u)
    BY <1>0, <2>1 DEF Open, Closed, NotYet
  <2> QED BY <1>0, <1>4, <2>2 DEF TabClosed, Found, task
<1>5. CASE WorkerStep
  <2>1. CASE Persist
    BY <1>0, <2>1 DEF Persist, Found, Open, task, BootKnows, Alive
  <2>2. CASE SwitchOrigin
    BY <1>0, <2>2 DEF SwitchOrigin, Found, Open, task
  <2>3. CASE Dies
    BY <1>0, <2>3 DEF Dies
  <2>4. CASE Wakes
    BY <1>0, <2>4 DEF Wakes, Found, Open, task, known
  <2>5. CASE BootReads
    BY <1>0, <2>5 DEF BootReads, Found, Open, task
  <2>6. CASE BootAdopts
    BY <1>0, <2>6 DEF BootAdopts, Found, Open, task, BootKnows
  <2> QED BY <1>5, <2>1, <2>2, <2>3, <2>4, <2>5, <2>6 DEF WorkerStep
<1>6. CASE UNCHANGED vars
  BY <1>0, <1>6 DEF vars, Found, Open
<1> QED BY <1>1, <1>2, <1>3, <1>4, <1>5, <1>6 DEF Next, BrowserStep

\* A load of ALT's own is the developer's only for a tab that ALT does not know.
LEMMA TakenEarly ==
  ASSUME TabInv, [Next]_vars, taken' \notin {taken, None}
  PROVE  (pc \in Creating /\ at = taken') \/ boot = "asking" \/ taken' \in Strays
<1> TypeOK
  BY DEF TabInv
<1>1. PICK t \in Tabs : LoadCompletes(t)
  BY DEF Next, BrowserStep, LoadFails, FrameCompletes, PageNavigates, TabClosed,
         EnsureStep, Ensure, Ensured, Create, Mark, RecordTab,
         MoveStep, Navigate, ReloadOrBack, WaitTimesOut, Answered, InjectsLate, Unanswered, TaskDone,
         WorkerStep, Persist, SwitchOrigin, Dies, Wakes, BootReads, BootAdopts, vars
<1>2. taken' = t /\ Alive /\ t # tabId /\ Open(t)
  BY <1>1 DEF LoadCompletes, Noticed, NotOurs
<1> QED BY <1>2 DEF Strays, Found, Alive

-----------------------------------------------------------------------------
\* What the panel does to the worker's variables: its connection wakes a dead worker.
LEMMA PanelWakes ==
  ASSUME [PanelLinkNext]_allVars
  PROVE  [Next]_vars
<1>1. CASE PanelConnects /\ UNCHANGED <<tab, known, task, early, taken, ops, faults>>
  <2>1. \A open : Connect(open) => boot' = boot \/ (boot = "dead" /\ boot' = "reading")
    BY DEF Connect
  <2>2. boot' = boot \/ (boot = "dead" /\ boot' = "reading")
    BY <1>1, <2>1 DEF PanelConnects, Opens, Reconnects, SilentRetry
  <2>3. CASE boot' = boot
    BY <1>1, <2>3 DEF vars, known, task
  <2>4. CASE boot = "dead" /\ boot' = "reading"
    <3>1. Wakes
      BY <1>1, <2>4 DEF Wakes, known, task
    <3> QED BY <3>1 DEF Next, WorkerStep
  <2> QED BY <2>2, <2>3, <2>4
<1> QED BY <1>1 DEF PanelLinkNext, allVars

LEMMA PanelTabInv == PanelLinkSpec => []TabInv
BY InitTabInv, TabInvKept, PanelWakes, PTL DEF PanelLinkSpec

\* A task works on the page it asked for, and the types are what they should be, for any tabs, pages
\* and origins, with the panel connecting, the worker dying and the tab closing at any moment.
THEOREM TaskWorksOnThePage == PanelLinkSpec => []WorksOnThePage
<1>1. TabInv => WorksOnThePage
  BY DEF TabInv, OnTheWay, WorksOnThePage
<1> QED BY <1>1, PanelTabInv, PTL

THEOREM WorkerTabTyped == PanelLinkSpec => []TypeOK
<1>1. TabInv => TypeOK
  BY DEF TabInv
<1> QED BY <1>1, PanelTabInv, PTL

\* Only the death of the worker and a task that began during its boot make ALT forget a tab it
\* opened.
THEOREM TabsAreKept == PanelLinkSpec => NoTabForgotten
<1>1. TabInv /\ [PanelLinkNext]_allVars =>
        [\/ Strays' \subseteq Strays
         \/ boot' = "dead"
         \/ early /\ (boot = "asking" \/ pc = "recording")]_vars
  BY NoStray, PanelWakes
<1> QED BY <1>1, PanelTabInv, PTL DEF PanelLinkSpec, NoTabForgotten

\* A load of ALT's own tab passes for the developer's only while that tab is not known, or lost.
THEOREM OwnLoadsAreKnown == PanelLinkSpec => OwnLoadsOnlyEarly
<1>1. TabInv /\ [PanelLinkNext]_allVars =>
        [taken' \notin {taken, None} =>
            \/ pc \in Creating /\ at = taken'
            \/ boot = "asking"
            \/ taken' \in Strays]_vars
  BY TakenEarly, PanelWakes
<1> QED BY <1>1, PanelTabInv, PTL DEF PanelLinkSpec, OwnLoadsOnlyEarly

-----------------------------------------------------------------------------
(* The link to the helper: HelperLink. *)


Calls == {<<"get">>} \cup {<<"set", token>> : token \in Nat}
SockRecord ==
    [phase : {"none", "connecting", "open", "closing"}, heard : BOOLEAN, hello : Nat,
     frames : Seq({"welcome", "mismatch", "refused"})]
Statuses == {"no_token", "connecting", "reconnecting", "connected", "down", "pairing_failed", "version_mismatch"}
WorkerRecord ==
    [alive : BOOLEAN, status : Statuses,
     ever : BOOLEAN, ws : 0..Sockets, timer : BOOLEAN, refused : BOOLEAN, token : Nat]

\* The states of the link.
LinkTyped ==
    /\ worker \in WorkerRecord /\ waiting \in Seq(Calls) /\ saved \in Nat
    /\ sock \in [1..Sockets -> SockRecord]
    /\ helper \in [up : BOOLEAN, wants : Nat, fits : BOOLEAN]
    /\ troubles \in Nat

\* A socket that is not free is the one that ws names, and a free one has nothing on its way.
OnlyTheNamed ==
    \A s \in 1..Sockets :
        /\ sock[s].phase # "none" => worker.ws = s
        /\ sock[s].phase = "none" => sock[s].frames = <<>>

\* A retry waits for its time without a socket; before the first token has been read there is
\* neither, and only the first call of the storage can still be reading it.
NothingYet == worker.ws = NoSocket /\ ~worker.timer /\ worker.token = 0
Retries ==
    /\ worker.timer => worker.ws = NoSocket
    /\ ~worker.alive => NothingYet /\ waiting = <<>>
    /\ \A i \in DOMAIN waiting : waiting[i] = <<"get">> => i = 1 /\ NothingYet

LinkInv == LinkTyped /\ OnlyTheNamed /\ Retries

\* The least of the sockets, when all are free.
LEMMA LeastSocket == Min(1..Sockets) = 1
<1>1. 1 \in 1..Sockets /\ \A y \in 1..Sockets : 1 <= y
  BY HelperLinkAssumption
<1> QED BY <1>1 DEF Min

AllFree(all) == all \in [1..Sockets -> SockRecord] /\ \A s \in 1..Sockets : all[s].phase = "none" /\ all[s].frames = <<>>

LEMMA FreeTyped == Free \in SockRecord /\ Free.phase = "none" /\ Free.frames = <<>>
BY DEF Free, SockRecord

LEMMA BootTyped ==
  /\ Booting \in WorkerRecord /\ Booting.ws = NoSocket /\ Booting.timer = FALSE /\ Booting.token = 0
  /\ Booting.alive = TRUE
BY HelperLinkAssumption DEF Booting, WorkerRecord, NoSocket, Statuses

\* A field of the worker at a time.
LEMMA SetField ==
  ASSUME NEW v \in WorkerRecord
  PROVE  /\ \A b \in BOOLEAN : /\ [v EXCEPT !.timer = b] \in WorkerRecord /\ [v EXCEPT !.ever = b] \in WorkerRecord
                               /\ [v EXCEPT !.refused = b] \in WorkerRecord /\ [v EXCEPT !.alive = b] \in WorkerRecord
         /\ \A s \in 0..Sockets : [v EXCEPT !.ws = s] \in WorkerRecord
         /\ \A s \in Statuses : [v EXCEPT !.status = s] \in WorkerRecord
         /\ \A n \in Nat : [v EXCEPT !.token = n] \in WorkerRecord
<1>1. \A b \in BOOLEAN : [v EXCEPT !.timer = b] \in WorkerRecord
  BY DEF WorkerRecord
<1>2. \A b \in BOOLEAN : [v EXCEPT !.ever = b] \in WorkerRecord
  BY DEF WorkerRecord
<1>3. \A b \in BOOLEAN : [v EXCEPT !.refused = b] \in WorkerRecord
  BY DEF WorkerRecord
<1>4. \A b \in BOOLEAN : [v EXCEPT !.alive = b] \in WorkerRecord
  BY DEF WorkerRecord
<1>5. \A s \in 0..Sockets : [v EXCEPT !.ws = s] \in WorkerRecord
  BY DEF WorkerRecord
<1>6. \A s \in Statuses : [v EXCEPT !.status = s] \in WorkerRecord
  BY DEF WorkerRecord
<1>7. \A n \in Nat : [v EXCEPT !.token = n] \in WorkerRecord
  BY DEF WorkerRecord
<1> QED BY <1>1, <1>2, <1>3, <1>4, <1>5, <1>6, <1>7

\* connect() with every socket free.
LEMMA DialsKeeps ==
  ASSUME NEW w \in WorkerRecord, NEW all, AllFree(all), w.ws = NoSocket, Dials(w, all)
  PROVE  /\ worker' \in WorkerRecord /\ sock' \in [1..Sockets -> SockRecord] /\ OnlyTheNamed'
         /\ worker'.timer = FALSE /\ worker'.alive = w.alive /\ worker'.token = w.token
<1>1. CASE w.token = 0
  <2>1. worker' = [w EXCEPT !.timer = FALSE, !.status = "no_token"] /\ sock' = all
    BY <1>1 DEF Dials
  <2>2. [w EXCEPT !.timer = FALSE] \in WorkerRecord /\ "no_token" \in Statuses
    BY SetField DEF Statuses
  <2>3. worker' \in WorkerRecord
    BY <2>1, <2>2, SetField
  <2>4. worker'.timer = FALSE /\ worker'.alive = w.alive /\ worker'.token = w.token
    BY <2>1 DEF WorkerRecord
  <2> QED BY <2>1, <2>3, <2>4 DEF AllFree, OnlyTheNamed
<1>2. CASE w.token # 0
  <2>1. {i \in DOMAIN all : all[i].phase = "none"} = 1..Sockets
    BY DEF AllFree
  <2>2. /\ sock' = [all EXCEPT ![1] = [Free EXCEPT !.phase = "connecting", !.heard = TRUE]]
        /\ worker' = [w EXCEPT !.timer = FALSE, !.ws = 1,
                               !.status = IF @ = "version_mismatch" THEN @
                                          ELSE IF w.ever THEN "reconnecting" ELSE "connecting"]
    BY <1>2, <2>1, LeastSocket DEF Dials
  <2>3. 1 \in 1..Sockets
    BY HelperLinkAssumption
  <2>4. [Free EXCEPT !.phase = "connecting", !.heard = TRUE] \in SockRecord
    <3>1. [Free EXCEPT !.phase = "connecting"] \in SockRecord
      BY FreeTyped DEF SockRecord
    <3>2. \A r \in SockRecord : [r EXCEPT !.heard = TRUE] \in SockRecord
      BY DEF SockRecord
    <3> QED BY <3>1, <3>2
  <2>5. sock' \in [1..Sockets -> SockRecord] /\ \A s \in 1..Sockets \ {1} : sock'[s] = all[s]
    BY <2>2, <2>3, <2>4 DEF AllFree
  <2>6. sock'[1].phase = "connecting"
    BY <2>2, <2>3 DEF AllFree, Free
  <2>7. PICK status \in Statuses : worker' = [w EXCEPT !.timer = FALSE, !.ws = 1, !.status = status]
    BY <2>2 DEF Statuses
  <2>8. worker' \in WorkerRecord /\ worker'.ws = 1 /\ worker'.timer = FALSE /\ worker'.alive = w.alive
        /\ worker'.token = w.token
    <3>0. 1 \in 0..Sockets
      BY HelperLinkAssumption
    <3>1. [w EXCEPT !.timer = FALSE] \in WorkerRecord
      BY SetField
    <3>2. [w EXCEPT !.timer = FALSE, !.ws = 1] \in WorkerRecord
      BY <3>0, <3>1, SetField
    <3>3. worker' \in WorkerRecord
      BY <2>7, <3>2, SetField
    <3> QED BY <2>7, <3>3 DEF WorkerRecord
  <2> QED BY <2>5, <2>6, <2>8 DEF OnlyTheNamed, AllFree
<1> QED BY <1>1, <1>2

LEMMA TornTyped ==
  ASSUME NEW w \in WorkerRecord
  PROVE  /\ TornDown(w) \in WorkerRecord /\ TornDown(w).ws = NoSocket /\ TornDown(w).timer = FALSE
         /\ TornDown(w).alive = w.alive
<1>1. TornDown(w).ws = NoSocket /\ TornDown(w).timer = FALSE /\ TornDown(w).alive = w.alive
  BY DEF TornDown, WorkerRecord
<1>2. [w EXCEPT !.ws = NoSocket] \in WorkerRecord
  BY HelperLinkAssumption, SetField DEF NoSocket
<1>3. [w EXCEPT !.ws = NoSocket, !.timer = FALSE] \in WorkerRecord
  BY <1>2, SetField
<1> QED BY <1>1, <1>2, <1>3 DEF TornDown

\* teardown leaves no socket.
LEMMA DroppedFrees ==
  ASSUME LinkInv
  PROVE  AllFree(Dropped(worker, sock))
<1>1. \A s \in 1..Sockets : Dropped(worker, sock)[s] = IF s = worker.ws THEN Free ELSE sock[s]
  BY DEF Dropped, LinkInv, LinkTyped
<1>2. Dropped(worker, sock) \in [1..Sockets -> SockRecord]
  BY FreeTyped DEF Dropped, LinkInv, LinkTyped
<1> QED BY <1>1, <1>2, FreeTyped DEF AllFree, LinkInv, OnlyTheNamed

LEMMA NamedNone ==
  ASSUME LinkInv, worker.ws = NoSocket
  PROVE  AllFree(sock)
BY DEF AllFree, LinkInv, LinkTyped, OnlyTheNamed, NoSocket

\* What is waiting when the storage has answered once.
LEMMA TailCalls ==
  ASSUME LinkInv, waiting # <<>>
  PROVE  /\ Head(waiting) \in Calls /\ Tail(waiting) \in Seq(Calls)
         /\ \A i \in DOMAIN Tail(waiting) : Tail(waiting)[i] # <<"get">>
         /\ Head(waiting) = waiting[1] /\ 1 \in DOMAIN waiting
         /\ worker.alive
<1>1. waiting \in Seq(Calls)
  BY DEF LinkInv, LinkTyped
<1>2. \A i \in DOMAIN Tail(waiting) : i + 1 \in DOMAIN waiting /\ Tail(waiting)[i] = waiting[i + 1] /\ i + 1 # 1
  BY <1>1
<1>3. Head(waiting) \in Calls /\ Tail(waiting) \in Seq(Calls) /\ Head(waiting) = waiting[1] /\ 1 \in DOMAIN waiting
  BY <1>1
<1>4. \A i \in DOMAIN Tail(waiting) : Tail(waiting)[i] # <<"get">>
  BY <1>2 DEF LinkInv, Retries
<1>5. worker.alive
  BY DEF LinkInv, Retries, LinkTyped, WorkerRecord
<1> QED BY <1>3, <1>4, <1>5

LEMMA LinkInits == LinkInit => LinkInv
<1> SUFFICES ASSUME LinkInit PROVE LinkInv
  OBVIOUS
<1>1. LinkTyped
  <2>1. waiting \in Seq(Calls)
    BY DEF LinkInit, Calls
  <2> QED BY <2>1, BootTyped, FreeTyped DEF LinkInit, LinkTyped
<1>2. OnlyTheNamed
  BY FreeTyped DEF LinkInit, OnlyTheNamed
<1>3. Retries
  BY BootTyped DEF LinkInit, Retries, NothingYet
<1> QED BY <1>1, <1>2, <1>3 DEF LinkInv

LEMMA StorageKeeps == ASSUME LinkInv, Storage PROVE LinkInv'
<1> waiting # <<>> /\ waiting' = Tail(waiting) /\ UNCHANGED <<helper, troubles>>
  BY DEF Storage
<1> worker \in WorkerRecord /\ saved \in Nat
  BY DEF LinkInv, LinkTyped
<1>0. ASSUME worker' \in WorkerRecord, sock' \in [1..Sockets -> SockRecord], OnlyTheNamed', worker'.timer = FALSE,
             worker'.alive = TRUE, saved' \in Nat
      PROVE  LinkInv'
  BY <1>0, TailCalls DEF LinkInv, LinkTyped, Retries
<1>1. CASE Head(waiting)[1] = "get"
  <2>1. Head(waiting) = <<"get">>
    BY <1>1, TailCalls DEF Calls
  <2>2. worker.ws = NoSocket
    BY <2>1, TailCalls DEF LinkInv, Retries, NothingYet
  <2>3. [worker EXCEPT !.token = saved] \in WorkerRecord /\ [worker EXCEPT !.token = saved].ws = NoSocket
        /\ [worker EXCEPT !.token = saved].alive = TRUE
    BY <2>2, TailCalls DEF WorkerRecord
  <2>4. Dials([worker EXCEPT !.token = saved], sock) /\ UNCHANGED saved
    BY <1>1 DEF Storage
  <2> QED BY <1>0, <2>2, <2>3, <2>4, DialsKeeps, NamedNone
<1>2. CASE Head(waiting)[1] # "get"
  <2>1. PICK token \in Nat : Head(waiting) = <<"set", token>>
    BY <1>2, TailCalls DEF Calls
  <2>2. saved' = token /\ Dials(Paired(worker, token), Dropped(worker, sock))
    BY <1>2, <2>1 DEF Storage
  <2>3. Paired(worker, token) \in WorkerRecord /\ Paired(worker, token).ws = NoSocket /\ Paired(worker, token).alive = TRUE
    BY TornTyped, TailCalls DEF Paired, WorkerRecord
  <2> QED BY <1>0, <2>2, <2>3, DialsKeeps, DroppedFrees
<1> QED BY <1>1, <1>2

LEMMA SetTokenKeeps == ASSUME LinkInv, NEW token \in 1..Troubles, SetToken(token) PROVE LinkInv'
<1> DEFINE call == <<"set", token>>
<1>1. call \in Calls /\ <<"get">> \in Calls /\ call # <<"get">>
  BY HelperLinkAssumption DEF Calls
<1>2. troubles' \in Nat /\ UNCHANGED <<saved, sock, helper>>
  BY DEF SetToken, Trouble, LinkInv, LinkTyped
<1>3. CASE worker.alive
  <2>1. waiting' = waiting \o <<call>> /\ worker' = worker
    BY <1>3 DEF SetToken
  <2> HIDE DEF call
  <2>2. waiting \in Seq(Calls)
    BY DEF LinkInv, LinkTyped
  <2>3. waiting' \in Seq(Calls) /\ \A i \in DOMAIN waiting' : waiting'[i] = call \/ (i \in DOMAIN waiting /\ waiting'[i] = waiting[i])
    BY <1>1, <2>1, <2>2
  <2> QED BY <1>1, <1>2, <1>3, <2>1, <2>3 DEF LinkInv, LinkTyped, OnlyTheNamed, Retries, NothingYet
<1>4. CASE ~worker.alive
  <2>1. waiting' = <<<<"get">>>> \o <<call>> /\ worker' = Booting
    BY <1>4 DEF SetToken
  <2> HIDE DEF call
  <2>2. waiting' \in Seq(Calls) /\ \A i \in DOMAIN waiting' : waiting'[i] = call \/ i = 1
    BY <1>1, <2>1
  <2>3. worker.ws = NoSocket
    BY <1>4 DEF LinkInv, Retries, NothingYet
  <2> QED BY <1>1, <1>2, <1>4, <2>1, <2>2, <2>3, BootTyped DEF LinkInv, LinkTyped, OnlyTheNamed, Retries, NothingYet
<1> QED BY <1>3, <1>4

LEMMA AlarmKeeps == ASSUME LinkInv, Alarm \/ Retry PROVE LinkInv'
<1>1. CASE Alarm /\ ~worker.alive
  <2>1. worker' = Booting /\ waiting' = <<<<"get">>>> /\ UNCHANGED <<sock, saved, helper, troubles>>
    BY <1>1 DEF Alarm
  <2>2. worker.ws = NoSocket
    BY <1>1 DEF LinkInv, Retries, NothingYet
  <2> QED BY <2>1, <2>2, BootTyped DEF LinkInv, LinkTyped, OnlyTheNamed, Retries, NothingYet, Calls
<1>2. CASE Retry \/ (Alarm /\ worker.alive)
  <2>1. Dials(worker, sock) /\ UNCHANGED <<waiting, saved, helper, troubles>> /\ worker.ws = NoSocket /\ ~NothingYet
    BY <1>2 DEF Alarm, Retry, Idle, LinkInv, Retries, NothingYet
  <2>2. worker \in WorkerRecord /\ worker.alive
    BY <2>1 DEF LinkInv, LinkTyped, Retries, WorkerRecord
  <2>3. /\ worker' \in WorkerRecord /\ sock' \in [1..Sockets -> SockRecord] /\ OnlyTheNamed'
        /\ worker'.timer = FALSE /\ worker'.alive
    BY <2>1, <2>2, DialsKeeps, NamedNone
  <2> QED BY <2>1, <2>3 DEF LinkInv, LinkTyped, Retries
<1> QED BY <1>1, <1>2 DEF Alarm, LinkInv, LinkTyped, WorkerRecord

LEMMA SocketKeeps ==
  ASSUME LinkInv, NEW s \in DOMAIN sock, SocketOpens(s) \/ Refuses(s) \/ Hears(s)
  PROVE  LinkInv'
<1> s \in 1..Sockets /\ sock \in [1..Sockets -> SockRecord] /\ sock[s] \in SockRecord /\ worker \in WorkerRecord
    /\ helper \in [up : BOOLEAN, wants : Nat, fits : BOOLEAN]
  BY DEF LinkInv, LinkTyped
<1> UNCHANGED <<worker, waiting, saved, helper, troubles>>
  BY DEF SocketOpens, Refuses, Hears
<1>0. ASSUME sock' \in [1..Sockets -> SockRecord], sock[s].phase # "none", sock'[s].phase # "none",
             \A i \in 1..Sockets \ {s} : sock'[i].phase = sock[i].phase /\ sock'[i].frames = sock[i].frames
      PROVE  LinkInv'
  BY <1>0 DEF LinkInv, LinkTyped, OnlyTheNamed, Retries, NothingYet
<1>1. CASE SocketOpens(s)
  <2> DEFINE open == [sock EXCEPT ![s].phase = "open"]
  <2>1. open \in [1..Sockets -> SockRecord] /\ open[s].phase = "open" /\ sock[s].phase = "connecting"
        /\ \A i \in 1..Sockets \ {s} : open[i] = sock[i]
    BY <1>1 DEF SocketOpens, SockRecord
  <2>2. sock' = open \/ (worker.ws # NoSocket /\ sock' = [open EXCEPT ![worker.ws].hello = worker.token])
    BY <1>1 DEF SocketOpens
  <2> HIDE DEF open
  <2>3. worker.ws = s /\ worker.token \in Nat
    BY <2>1 DEF LinkInv, OnlyTheNamed, WorkerRecord
  <2>4. [open EXCEPT ![s].hello = worker.token] \in [1..Sockets -> SockRecord]
    BY <2>1, <2>3 DEF SockRecord
  <2>5. [open EXCEPT ![s].hello = worker.token][s].phase = "open"
    BY <2>1 DEF SockRecord
  <2> QED BY <1>0, <2>1, <2>2, <2>3, <2>4, <2>5
<1>2. CASE Refuses(s)
  <2>1. sock' = [sock EXCEPT ![s].phase = "closing"] /\ sock[s].phase = "connecting"
    BY <1>2 DEF Refuses
  <2>2. sock' \in [1..Sockets -> SockRecord] /\ sock'[s].phase = "closing"
    BY <2>1 DEF SockRecord
  <2> QED BY <1>0, <2>1, <2>2
<1>3. CASE Hears(s)
  <2>1. PICK phase \in {"open", "closing"}, frame \in {"welcome", "mismatch", "refused"} :
          sock' = [sock EXCEPT ![s].hello = 0, ![s].phase = phase, ![s].frames = Append(@, frame)]
    BY <1>3 DEF Hears
  <2>2. sock[s].phase = "open"
    BY <1>3 DEF Hears
  <2>3. Append(sock[s].frames, frame) \in Seq({"welcome", "mismatch", "refused"})
    BY DEF SockRecord
  <2>4. [sock[s] EXCEPT !.hello = 0] \in SockRecord
    BY DEF SockRecord
  <2>5. \A r \in SockRecord : [r EXCEPT !.phase = phase] \in SockRecord
    BY DEF SockRecord
  <2>6. \A r \in SockRecord : \A f \in Seq({"welcome", "mismatch", "refused"}) : [r EXCEPT !.frames = f] \in SockRecord
    BY DEF SockRecord
  <2>7. sock'[s] = [sock[s] EXCEPT !.hello = 0, !.phase = phase, !.frames = Append(sock[s].frames, frame)]
    BY <2>1 DEF SockRecord
  <2>8. sock'[s] \in SockRecord
    <3>1. [sock[s] EXCEPT !.hello = 0, !.phase = phase] \in SockRecord
      BY <2>4, <2>5
    <3>2. PICK half, new : half = [sock[s] EXCEPT !.hello = 0, !.phase = phase] /\ new = Append(sock[s].frames, frame)
      OBVIOUS
    <3>3. [half EXCEPT !.frames = new] \in SockRecord
      BY <2>3, <2>6, <3>1, <3>2
    <3>4. sock'[s] = [half EXCEPT !.frames = new]
      BY <2>7, <3>2
    <3> QED BY <3>3, <3>4
  <2>9. sock'[s].phase = phase
    <3>1. \A r \in SockRecord : \A f : [r EXCEPT !.frames = f].phase = r.phase
      BY DEF SockRecord
    <3>2. [sock[s] EXCEPT !.hello = 0, !.phase = phase] \in SockRecord
      BY <2>4, <2>5
    <3>3. [sock[s] EXCEPT !.hello = 0, !.phase = phase].phase = phase
      BY <2>4 DEF SockRecord
    <3> QED BY <2>7, <3>1, <3>2, <3>3
  <2>10. \A i \in 1..Sockets \ {s} : sock'[i] = sock[i]
    BY <2>1
  <2>11. sock' \in [1..Sockets -> SockRecord]
    BY <2>1, <2>8, <2>10
  <2> QED BY <1>0, <2>2, <2>9, <2>10, <2>11
<1> QED BY <1>1, <1>2, <1>3

LEMMA FrameKeeps == ASSUME LinkInv, NEW s \in DOMAIN sock, Frame(s) PROVE LinkInv'
<1> DEFINE rest == [sock EXCEPT ![s].frames = Tail(@)]
<1> s \in 1..Sockets /\ sock \in [1..Sockets -> SockRecord] /\ sock[s] \in SockRecord /\ worker \in WorkerRecord
  BY DEF LinkInv, LinkTyped
<1>1. sock[s].frames # <<>> /\ UNCHANGED <<waiting, saved, helper, troubles>>
  BY DEF Frame
<1>2. sock[s].phase # "none" /\ worker.ws = s /\ s # NoSocket
  BY <1>1 DEF LinkInv, OnlyTheNamed, NoSocket
<1>3. rest \in [1..Sockets -> SockRecord] /\ \A i \in 1..Sockets : rest[i].phase = sock[i].phase
  <2>1. Tail(sock[s].frames) \in Seq({"welcome", "mismatch", "refused"})
    BY <1>1 DEF SockRecord
  <2>2. [sock[s] EXCEPT !.frames = Tail(@)] \in SockRecord /\ [sock[s] EXCEPT !.frames = Tail(@)].phase = sock[s].phase
    BY <2>1 DEF SockRecord
  <2>3. rest[s] = [sock[s] EXCEPT !.frames = Tail(@)] /\ \A i \in 1..Sockets \ {s} : rest[i] = sock[i]
    OBVIOUS
  <2> QED BY <2>2, <2>3
<1>4. \A i \in 1..Sockets \ {s} : rest[i] = sock[i]
  OBVIOUS
<1>5. /\ ~NothingYet /\ worker.alive /\ ~worker.timer
      /\ \A i \in DOMAIN waiting : waiting[i] # <<"get">>
  BY <1>2 DEF LinkInv, Retries, NothingYet, WorkerRecord
<1> HIDE DEF rest
<1>6. ASSUME worker' \in WorkerRecord, worker'.ws = worker.ws, worker'.timer = worker.timer, worker'.alive = worker.alive,
             sock' = rest
      PROVE  LinkInv'
  <2>1. OnlyTheNamed'
    BY <1>2, <1>3, <1>4, <1>6 DEF LinkInv, OnlyTheNamed
  <2>2. Retries'
    BY <1>1, <1>5, <1>6 DEF Retries
  <2> QED BY <1>1, <1>3, <1>6, <2>1, <2>2 DEF LinkInv, LinkTyped
<1>7. CASE Head(sock[s].frames) = "welcome"
  <2>1. worker' = [worker EXCEPT !.ever = TRUE, !.status = "connected"] /\ sock' = rest
    BY <1>7 DEF Frame, rest
  <2>2. [worker EXCEPT !.ever = TRUE] \in WorkerRecord /\ "connected" \in Statuses
    BY SetField DEF Statuses
  <2>3. worker' \in WorkerRecord
    BY <2>1, <2>2, SetField
  <2>4. worker'.ws = worker.ws /\ worker'.timer = worker.timer /\ worker'.alive = worker.alive
    BY <2>1 DEF WorkerRecord
  <2> QED BY <1>6, <2>1, <2>3, <2>4
<1>8. CASE Head(sock[s].frames) = "refused"
  <2>1. worker' = [worker EXCEPT !.refused = TRUE, !.status = "pairing_failed"] /\ sock' = rest
    BY <1>8 DEF Frame, rest
  <2>2. [worker EXCEPT !.refused = TRUE] \in WorkerRecord /\ "pairing_failed" \in Statuses
    BY SetField DEF Statuses
  <2>3. worker' \in WorkerRecord
    BY <2>1, <2>2, SetField
  <2>4. worker'.ws = worker.ws /\ worker'.timer = worker.timer /\ worker'.alive = worker.alive
    BY <2>1 DEF WorkerRecord
  <2> QED BY <1>6, <2>1, <2>3, <2>4
<1>9. CASE Head(sock[s].frames) = "mismatch"
  <2>1. worker' = [TornDown(worker) EXCEPT !.status = "version_mismatch", !.timer = TRUE]
        /\ sock' = Dropped(worker, rest)
    BY <1>9 DEF Frame, rest
  <2>2. [TornDown(worker) EXCEPT !.status = "version_mismatch"] \in WorkerRecord
    BY TornTyped, SetField DEF Statuses
  <2>3. worker' \in WorkerRecord
    BY <2>1, <2>2, SetField
  <2>4. worker'.ws = NoSocket /\ worker'.timer /\ worker'.alive
    <3> DEFINE torn == TornDown(worker)
    <3>1. torn \in WorkerRecord /\ torn.ws = NoSocket /\ torn.alive = worker.alive
      BY TornTyped
    <3>2. worker' = [torn EXCEPT !.status = "version_mismatch", !.timer = TRUE]
      BY <2>1
    <3> HIDE DEF torn
    <3> QED BY <1>5, <3>1, <3>2 DEF WorkerRecord
  <2>5. sock' \in [1..Sockets -> SockRecord] /\ \A i \in 1..Sockets : sock'[i].phase = "none" /\ sock'[i].frames = <<>>
    <3>1. \A i \in 1..Sockets : sock'[i] = IF i = worker.ws THEN Free ELSE rest[i]
      BY <1>3, <2>1 DEF Dropped
    <3>2. sock' \in [1..Sockets -> SockRecord]
      BY <1>3, <2>1, FreeTyped DEF Dropped
    <3> QED BY <1>2, <1>4, <3>1, <3>2, FreeTyped DEF LinkInv, OnlyTheNamed
  <2> QED BY <1>1, <1>5, <2>3, <2>4, <2>5 DEF LinkInv, LinkTyped, OnlyTheNamed, Retries
<1>10. Head(sock[s].frames) \in {"welcome", "mismatch", "refused"}
  BY <1>1 DEF SockRecord
<1> QED BY <1>7, <1>8, <1>9, <1>10

LEMMA ClosesKeeps == ASSUME LinkInv, NEW s \in DOMAIN sock, Closes(s) PROVE LinkInv'
<1> s \in 1..Sockets /\ sock \in [1..Sockets -> SockRecord] /\ worker \in WorkerRecord
  BY DEF LinkInv, LinkTyped
<1>1. sock[s].phase = "closing" /\ sock' = [sock EXCEPT ![s] = Free] /\ UNCHANGED <<waiting, saved, helper, troubles>>
  BY DEF Closes
<1>2. worker.ws = s /\ s # NoSocket
  BY <1>1 DEF LinkInv, OnlyTheNamed, NoSocket
<1>3. worker' = OnClosed(worker)
  BY <1>2 DEF Closes
<1>4. AllFree(sock')
  BY <1>1, <1>2, FreeTyped DEF AllFree, LinkInv, OnlyTheNamed
<1>5. ~NothingYet /\ worker.alive /\ \A i \in DOMAIN waiting : waiting[i] # <<"get">>
  BY <1>2 DEF LinkInv, Retries, NothingYet, WorkerRecord
<1> DEFINE gone == [worker EXCEPT !.ws = NoSocket]
<1>6. gone \in WorkerRecord /\ gone.ws = NoSocket /\ gone.alive
  <2>1. gone \in WorkerRecord
    BY HelperLinkAssumption, SetField DEF NoSocket
  <2> QED BY <1>5, <2>1 DEF WorkerRecord
<1>7. PICK status \in Statuses, again \in BOOLEAN :
        worker' = [gone EXCEPT !.status = status] \/ worker' = [gone EXCEPT !.timer = again]
        \/ worker' = [gone EXCEPT !.timer = again, !.status = status]
  BY <1>3 DEF OnClosed, Statuses
<1> HIDE DEF gone
<1>8. worker' \in WorkerRecord
  <2>1. [gone EXCEPT !.status = status] \in WorkerRecord /\ [gone EXCEPT !.timer = again] \in WorkerRecord
    BY <1>6, SetField
  <2> QED BY <1>7, <2>1, SetField
<1>9. worker'.ws = NoSocket /\ worker'.alive
  BY <1>6, <1>7 DEF WorkerRecord
<1> QED BY <1>1, <1>4, <1>5, <1>8, <1>9 DEF LinkInv, LinkTyped, OnlyTheNamed, Retries, AllFree

LEMMA EvictKeeps == ASSUME LinkInv, Evict PROVE LinkInv'
<1>1. /\ worker' = [Booting EXCEPT !.alive = FALSE] /\ waiting' = <<>> /\ UNCHANGED helper
      /\ sock' = [s \in DOMAIN sock |-> Free] /\ troubles' \in Nat
  BY DEF Evict, Trouble, LinkInv, LinkTyped
<1>2. worker' \in WorkerRecord
  BY <1>1, BootTyped, SetField
<1>3. NothingYet'
  BY <1>1, BootTyped DEF NothingYet, WorkerRecord
<1>4. AllFree(sock')
  BY <1>1, FreeTyped DEF LinkInv, LinkTyped, AllFree
<1>5. saved' \in Nat
  <2>1. CASE waiting # <<>> /\ waiting[Len(waiting)][1] = "set"
    <3>1. waiting \in Seq(Calls) /\ Len(waiting) \in 1..Len(waiting)
      BY <2>1 DEF LinkInv, LinkTyped
    <3>2. waiting[Len(waiting)] \in Calls
      BY <3>1
    <3> QED BY <2>1, <3>2 DEF Evict, Calls
  <2> QED BY <2>1 DEF Evict, LinkInv, LinkTyped
<1> QED BY <1>1, <1>2, <1>3, <1>4, <1>5 DEF LinkInv, LinkTyped, OnlyTheNamed, Retries, AllFree, NothingYet

LEMMA HelperKeeps == ASSUME LinkInv, HelperStops \/ (\E fits, anew \in BOOLEAN : HelperStarts(fits, anew)) PROVE LinkInv'
<1> sock \in [1..Sockets -> SockRecord] /\ helper \in [up : BOOLEAN, wants : Nat, fits : BOOLEAN] /\ troubles \in Nat
  BY DEF LinkInv, LinkTyped
<1>1. ASSUME NEW fits \in BOOLEAN, NEW anew \in BOOLEAN, HelperStarts(fits, anew)
      PROVE  LinkInv'
  <2>1. helper' \in [up : BOOLEAN, wants : Nat, fits : BOOLEAN]
    BY <1>1 DEF HelperStarts
  <2> QED BY <1>1, <2>1 DEF HelperStarts, LinkInv, LinkTyped, OnlyTheNamed, Retries, NothingYet
<1>2. CASE HelperStops
  <2>0. helper' = [helper EXCEPT !.up = FALSE] /\ troubles' = troubles + 1 /\ UNCHANGED <<worker, waiting, saved>>
    BY <1>2 DEF HelperStops, Trouble
  <2>1. helper' \in [up : BOOLEAN, wants : Nat, fits : BOOLEAN] /\ troubles' \in Nat /\ UNCHANGED <<worker, waiting, saved>>
    <3>1. [helper EXCEPT !.up = FALSE] \in [up : BOOLEAN, wants : Nat, fits : BOOLEAN]
      OBVIOUS
    <3> QED BY <2>0, <3>1
  <2>2. ASSUME NEW s \in 1..Sockets
        PROVE  /\ sock'[s] \in SockRecord /\ (sock'[s].phase # "none" => sock[s].phase # "none")
               /\ (sock'[s].phase = "none" => sock'[s] = sock[s])
    <3>1. CASE sock[s].phase \notin {"open", "closing"}
      BY <1>2, <3>1 DEF HelperStops
    <3>2. CASE sock[s].phase \in {"open", "closing"}
      <4>1. sock'[s] = [sock[s] EXCEPT !.phase = "closing", !.hello = 0, !.frames = <<>>]
        BY <1>2, <3>2 DEF HelperStops
      <4>2. [sock[s] EXCEPT !.phase = "closing"] \in SockRecord
        BY DEF SockRecord
      <4>3. \A r \in SockRecord : [r EXCEPT !.hello = 0] \in SockRecord
        BY DEF SockRecord
      <4>4. \A r \in SockRecord : [r EXCEPT !.frames = <<>>] \in SockRecord
        <5>1. <<>> \in Seq({"welcome", "mismatch", "refused"})
          OBVIOUS
        <5> QED BY <5>1 DEF SockRecord
      <4>5. sock'[s] \in SockRecord
        BY <4>1, <4>2, <4>3, <4>4
      <4>6. sock'[s].phase = "closing"
        BY <4>1 DEF SockRecord
      <4> QED BY <3>2, <4>5, <4>6
    <3> QED BY <3>1, <3>2
  <2>3. sock' \in [1..Sockets -> SockRecord]
    BY <1>2, <2>2 DEF HelperStops
  <2> QED BY <2>1, <2>2, <2>3 DEF LinkInv, LinkTyped, OnlyTheNamed, Retries, NothingYet
<1> QED BY <1>1, <1>2

\* Whatever pairs, retries, wakes, stops or restarts, one socket is alive at a time.
THEOREM OneLink == LinkSpec => []OneSocket
<1>1. LinkInv /\ [LinkNext]_linkVars => LinkInv'
  <2> SUFFICES ASSUME LinkInv, [LinkNext]_linkVars PROVE LinkInv'
    OBVIOUS
  <2>1. CASE UNCHANGED linkVars
    BY <2>1 DEF linkVars, LinkInv, LinkTyped, OnlyTheNamed, Retries, NothingYet
  <2> QED BY <2>1, StorageKeeps, SetTokenKeeps, AlarmKeeps, SocketKeeps, FrameKeeps, ClosesKeeps, EvictKeeps, HelperKeeps
           DEF LinkNext
<1>2. LinkInv => OneSocket
  <2> SUFFICES ASSUME LinkInv PROVE OneSocket
    OBVIOUS
  <2> DEFINE dialled == {s \in DOMAIN sock : sock[s].phase \in {"connecting", "open"}}
  <2>1. dialled \subseteq {worker.ws}
    BY DEF LinkInv, LinkTyped, OnlyTheNamed
  <2>2. IsFiniteSet({worker.ws}) /\ Cardinality({worker.ws}) = 1
    BY FS_Singleton
  <2>3. Cardinality(dialled) <= Cardinality({worker.ws})
    BY <2>1, <2>2, FS_Subset
  <2> QED BY <2>2, <2>3 DEF OneSocket
<1> QED BY <1>1, <1>2, LinkInits, PTL DEF LinkSpec
==============================================================================
