--------------------------- MODULE AltSessionProofs ---------------------------
(***************************************************************************)
(* Proofs about the exploration session, for any site, plans, settings and *)
(* any number of sessions and developer activities; and about the plans it *)
(* asks for (GeminiPlans): for any forms, asks, storage faults and         *)
(* restarts, at most one call of Gemini is in flight, and a form whose     *)
(* plan is stored is not called again.                                     *)
(***************************************************************************)
EXTENDS AltSession, GeminiPlans, FiniteSetTheorems, TLAPS

-----------------------------------------------------------------------------
(* The inductive invariant. *)

\* The popped task fits the await the loop is in; a click in progress was still to be done.
TaskFitsPC ==
    /\ pc \in {"visiting", "health"} => task.kind = "visit"
    /\ pc \in {"exploring", "clicking"} => task.kind = "explore_actions"
    /\ pc \in TestPCs => task.kind = "test" /\ task.of \notin executed
    /\ pc = "clicking" => local.left > 0

\* What the session and the loop keep to themselves at any moment.
IInv == TypeOK /\ TaskFitsPC /\ RunOnce /\ InFlightIsRunning /\ QueueKeysUnique

LocalType == [destr : BOOLEAN, isNew : BOOLEAN, left : Nat]

-----------------------------------------------------------------------------
(* Tasks and keys. *)

LEMMA TaskConstructors ==
  /\ \A r \in Routes, d \in Nat, dev \in BOOLEAN : Visit(r, d, dev) \in Task
  /\ \A r \in Routes : Explore(r) \in Task /\ CheckLinks(r) \in Task
  /\ \A c \in Cases : Test(c) \in Task
  /\ NoTask \in Task
BY AltSessionAssumption DEF Task, Kinds, Visit, Explore, CheckLinks, Test, NoTask

LEMMA BoundsType == Sessions \in Nat /\ DevActivities \in Nat
BY AltSessionAssumption

LEMMA TestTask == ASSUME NEW t \in Task, t.kind = "test" PROVE t = Test(t.of) /\ t.of \in Cases
BY DEF Task, Test

LEMMA KeysOf ==
  /\ \A r, d, dev : TaskKey(Visit(r, d, dev)) = <<"visit", r>>
  /\ \A r : TaskKey(Explore(r)) = <<"explore_actions", r>>
  /\ \A r : TaskKey(CheckLinks(r)) = <<"check_links", r>>
  /\ \A c : TaskKey(Test(c)) = <<"test", c>>
BY DEF TaskKey, Visit, Explore, CheckLinks, Test

\* Pushing tasks with distinct keys keeps the keys distinct.
LEMMA PushAllUnique ==
  ASSUME NEW q, NEW T, KeysUnique(q), KeysUnique(T)
  PROVE  KeysUnique(PushAll(q, T))
BY DEF KeysUnique, PushAll, HasKey

LEMMA PushAllType ==
  ASSUME NEW q \in SUBSET Task, NEW T \in SUBSET Task
  PROVE  PushAll(q, T) \in SUBSET Task
BY DEF PushAll

LEMMA SubsetUnique ==
  ASSUME NEW q, NEW T \in SUBSET q, KeysUnique(q) PROVE KeysUnique(T)
BY DEF KeysUnique

\* The tests of a set of cases have distinct keys.
LEMMA TestsUnique ==
  ASSUME NEW C \in SUBSET Cases
  PROVE  /\ KeysUnique({Test(c) : c \in C})
         /\ {Test(c) : c \in C} \in SUBSET Task
BY KeysOf, TaskConstructors DEF KeysUnique

LEMMA PushTests ==
  ASSUME NEW q \in SUBSET Task, KeysUnique(q), NEW C \in SUBSET Cases
  PROVE  /\ PushAll(q, {Test(c) : c \in C}) \in SUBSET Task
         /\ KeysUnique(PushAll(q, {Test(c) : c \in C}))
BY TestsUnique, PushAllType, PushAllUnique

-----------------------------------------------------------------------------
(* The loop's head. *)

\* Whatever the loop's head decides, it pops a task of the queue or none, and the task it goes to
\* work on fits the await it is in and has not run.
LEMMA LoopHeadKeeps ==
  ASSUME NEW st \in Statuses, NEW q \in SUBSET Task, KeysUnique(q), LoopHead(st, q),
         DOMAIN pages' \subseteq Routes,
         \A r \in DOMAIN pages' : pages'[r] \in Nat
  PROVE  /\ status' \in Statuses /\ queue' \in SUBSET Task /\ KeysUnique(queue')
         /\ pc' \in PCs /\ task' \in Task /\ local' \in LocalType
         /\ TaskFitsPC'
         /\ pc' \notin {"running", "settling"}
<1> USE DEF PCs, Statuses, LocalType
<1>1. NoLocal \in LocalType
  BY DEF NoLocal
<1>2. CASE AtRest("idle") /\ status' = st /\ queue' = q
  BY <1>1, <1>2, TaskConstructors DEF AtRest, TaskFitsPC, TestPCs
<1>3. CASE AtRest("caughtup") /\ status' = "watching" /\ queue' = q
  BY <1>1, <1>3, TaskConstructors DEF AtRest, TaskFitsPC, TestPCs
<1>4. CASE status' = st /\ \E t \in Heads(q, boosted') : BeginTask(t) /\ queue' = q \ {t}
  <2>1. PICK t \in Heads(q, boosted') : BeginTask(t) /\ queue' = q \ {t}
    BY <1>4
  <2>2. t \in Task /\ status' \in Statuses /\ queue' \in SUBSET Task
    BY <1>4, <2>1 DEF Heads
  <2>3. KeysUnique(queue')
    BY <2>1, SubsetUnique
  <2>4. \A d \in Nat : t.kind # "test" => At(t, d) \in Task
    BY <2>2 DEF Task, At
  <2>5. \A d : At(t, d).kind = t.kind
    BY DEF At
  <2>6. CASE t.kind = "visit" /\ BeginVisit(t)
    BY <1>1, <2>2, <2>3, <2>4, <2>5, <2>6 DEF BeginVisit, TaskFitsPC, TestPCs
  <2>7. CASE t.kind = "explore_actions" /\ BeginExplore(t)
    <3>1. t.of \in Routes /\ ActionsOn[t.of] \in Nat
      BY <2>2, <2>7, AltSessionAssumption DEF Task
    <3>2. local' \in LocalType
      BY <1>1, <2>7, <3>1 DEF BeginExplore, ActionsLeft
    <3> QED BY <2>2, <2>3, <2>4, <2>5, <2>7, <3>2 DEF BeginExplore, TaskFitsPC, TestPCs
  <2>8. CASE t.kind = "test" /\ BeginTest(t)
    <3>1. local' \in LocalType
      BY <1>1, <2>8 DEF BeginTest, TestLocal
    <3> QED BY <2>2, <2>3, <2>8, <3>1 DEF BeginTest, TaskFitsPC, TestPCs
  <2>9. CASE t.kind = "check_links" /\ pc' = "checking" /\ task' = t /\ local' = NoLocal
    BY <1>1, <2>2, <2>3, <2>9 DEF TaskFitsPC, TestPCs
  <2> QED BY <2>1, <2>6, <2>7, <2>8, <2>9 DEF BeginTask
<1> QED BY <1>2, <1>3, <1>4 DEF LoopHead

LEMMA KickKeeps ==
  ASSUME IInv, NEW st \in Statuses, NEW q \in SUBSET Task, KeysUnique(q), Kick(st, q),
         DOMAIN pages' \subseteq Routes, \A r \in DOMAIN pages' : pages'[r] \in Nat,
         executed' \subseteq executed
  PROVE  /\ status' \in Statuses /\ queue' \in SUBSET Task /\ KeysUnique(queue')
         /\ pc' \in PCs /\ task' \in Task /\ local' \in LocalType
         /\ TaskFitsPC'
         /\ UNCHANGED loopVars \/ pc = "idle"
<1>1. CASE st = "live" /\ pc = "idle"
  BY <1>1, LoopHeadKeeps DEF Kick
<1>2. CASE ~(st = "live" /\ pc = "idle")
  BY <1>2 DEF Kick, loopVars, IInv, TypeOK, TaskFitsPC, LocalType
<1> QED BY <1>1, <1>2

-----------------------------------------------------------------------------
(* Forms and plans. *)

LEMMA PlanCasesType == ASSUME NEW f PROVE PlanCases(f) \subseteq Cases
BY DEF PlanCases, FirstBy, Submittable, CasesOf

\* Registering forms keeps the session's data well typed and the queue free of duplicates.
LEMMA RegisterKeeps ==
  ASSUME TypeOK, NEW F \in SUBSET Forms, NEW q \in SUBSET Task, KeysUnique(q), RegisterForms(F, q)
  PROVE  /\ forms' \subseteq Forms /\ destr' \subseteq forms' /\ cases' \subseteq Cases
         /\ queue' \in SUBSET Task /\ KeysUnique(queue')
         /\ enriching' \subseteq [form : Forms, sid : 0..Sessions]
<1> DEFINE new == F \ forms
           planned == UNION {PlanCases(f) : f \in new}
<1>1. planned \in SUBSET Cases
  BY PlanCasesType
<1>2. queue' = PushAll(q, {Test(c) : c \in planned})
  BY DEF RegisterForms
<1> HIDE DEF planned
<1>3. queue' \in SUBSET Task /\ KeysUnique(queue')
  BY <1>1, <1>2, PushTests
<1>4. cases' = cases \cup planned
  BY DEF RegisterForms, planned
<1>5. forms' \subseteq Forms /\ destr' \subseteq forms'
  BY DEF RegisterForms, TypeOK
<1>6. enriching' \subseteq [form : Forms, sid : 0..Sessions]
  BY DEF RegisterForms, TypeOK
<1> QED BY <1>1, <1>3, <1>4, <1>5, <1>6 DEF TypeOK

LEMMA MergePlanType ==
  ASSUME NEW before \in SUBSET Cases, NEW K \in SUBSET Cases, NEW d
  PROVE  MergePlan(before, d, K) \subseteq Cases
BY DEF MergePlan, FirstBy, Submittable

LEMMA EnrichKeeps ==
  ASSUME IInv, NEW e \in enriching, EnrichDropped(e) \/ EnrichMerged(e)
  PROVE  IInv'
<1>1. CASE EnrichDropped(e)
  BY <1>1 DEF EnrichDropped, IInv, TypeOK, TaskFitsPC, RunOnce, InFlightIsRunning,
              QueueKeysUnique, stateVars, loopVars, KeysUnique
<1>2. CASE EnrichMerged(e)
  <2>1. PICK planDestr \in BOOLEAN, K \in SUBSET (CasesOf(e.form) \cap Context) :
          LET before == cases \cap CasesOf(e.form)
              isDestr == MergedFlag(e.form, planDestr)
              merged == MergePlan(before, isDestr, K)
              kept == {t \in queue : t.kind = "test" => t.of \in merged}
          IN  /\ destr' = IF isDestr THEN destr \cup {e.form} ELSE destr \ {e.form}
              /\ cases' = (cases \ before) \cup merged
              /\ queue' = PushAll(kept, {Test(c) : c \in merged \ executed})
    BY <1>2 DEF EnrichMerged
  <2> DEFINE merged == MergePlan(cases \cap CasesOf(e.form), MergedFlag(e.form, planDestr), K)
             kept == {t \in queue : t.kind = "test" => t.of \in merged}
  <2>2. merged \in SUBSET Cases
    BY MergePlanType DEF IInv, TypeOK, CasesOf
  <2>3. queue' = PushAll(kept, {Test(c) : c \in merged \ executed}) /\ cases' \subseteq cases \cup merged
    BY <2>1
  <2> HIDE DEF merged
  <2>4. kept \in SUBSET Task /\ KeysUnique(kept)
    BY SubsetUnique DEF IInv, TypeOK, QueueKeysUnique
  <2>5. queue' \in SUBSET Task /\ KeysUnique(queue')
    BY <2>2, <2>3, <2>4, PushTests
  <2>6. destr' \subseteq forms
    BY <1>2, <2>1 DEF IInv, TypeOK, EnrichMerged, PlanFits
  <2>7. enriching' \subseteq enriching
    BY <1>2 DEF EnrichMerged
  <2>8. UNCHANGED <<status, sid, pages, forms, executed, inFlight, execs, thrown, boosted, pc, task,
                    local, devs>>
    BY <1>2 DEF EnrichMerged, loopVars
  <2>9. TypeOK'
    BY <2>2, <2>3, <2>5, <2>6, <2>7, <2>8 DEF IInv, TypeOK
  <2> QED BY <2>5, <2>8, <2>9 DEF IInv, TaskFitsPC, RunOnce, InFlightIsRunning, QueueKeysUnique
<1> QED BY <1>1, <1>2

-----------------------------------------------------------------------------
(* Visits and clicks. *)

LEMMA LinkPushesKeep ==
  ASSUME NEW r \in Routes, NEW d \in Nat, NEW pgs, NEW q \in SUBSET Task, KeysUnique(q),
         NEW V \in LinkPushes(r, d, pgs, q)
  PROVE  q \cup V \in SUBSET Task /\ KeysUnique(q \cup V)
<1>1. PICK L \in SUBSET Links[r] :
         /\ V = {Visit(l, d + 1, FALSE) : l \in L}
         /\ \A l \in L : ~HasKey(q, <<"visit", l>>)
  <2>1. CASE d < MaxDepth
    BY <2>1 DEF LinkPushes
  <2>2. CASE ~(d < MaxDepth)
    BY <2>2 DEF LinkPushes
  <2> QED BY <2>1, <2>2
<1>2. L \subseteq Routes
  BY AltSessionAssumption
<1>3. d + 1 \in Nat /\ FALSE \in BOOLEAN
  OBVIOUS
<1>4. \A l \in L : Visit(l, d + 1, FALSE) \in Task /\ TaskKey(Visit(l, d + 1, FALSE)) = <<"visit", l>>
  BY <1>2, <1>3, TaskConstructors, KeysOf
<1>5. V \in SUBSET Task
  BY <1>1, <1>4
<1>6. ASSUME NEW t \in V, NEW u \in V, TaskKey(t) = TaskKey(u) PROVE t = u
  <2>1. PICK l \in L, m \in L : t = Visit(l, d + 1, FALSE) /\ u = Visit(m, d + 1, FALSE)
    BY <1>1
  <2>2. <<"visit", l>> = <<"visit", m>>
    BY <1>4, <1>6, <2>1
  <2> QED BY <2>1, <2>2
<1>7. \A t \in V, u \in q : TaskKey(t) # TaskKey(u)
  BY <1>1, <1>4 DEF HasKey
<1> QED BY <1>5, <1>6, <1>7 DEF KeysUnique

LEMMA VisitScannedKeeps == ASSUME IInv, VisitScanned PROVE IInv'
<1>1. PICK r \in Landing[task.of] :
        /\ pages' = [x \in DOMAIN pages \cup {r} |-> IF x = r THEN task.depth ELSE pages[x]]
        /\ \E F \in SUBSET FormsOn(r), V \in LinkPushes(r, task.depth, DOMAIN pages', queue) :
             RegisterForms(F, queue \cup V)
        /\ task' = Visit(r, task.depth, task.dev)
        /\ local' = VisitLocal(r \notin DOMAIN pages)
  BY DEF VisitScanned
<1>2. task \in Task /\ task.kind = "visit" /\ pc = "visiting"
  BY DEF VisitScanned, IInv, TypeOK, TaskFitsPC
<1>3. r \in Routes /\ task.depth \in Nat /\ task.dev \in BOOLEAN
  BY <1>2, AltSessionAssumption DEF Task
<1>4. PICK F \in SUBSET FormsOn(r), V \in LinkPushes(r, task.depth, DOMAIN pages', queue) :
        RegisterForms(F, queue \cup V)
  BY <1>1
<1>5. queue \cup V \in SUBSET Task /\ KeysUnique(queue \cup V)
  BY <1>3, LinkPushesKeep DEF IInv, TypeOK, QueueKeysUnique
<1>6. F \in SUBSET Forms /\ TypeOK
  BY DEF FormsOn, IInv
<1>7. /\ forms' \subseteq Forms /\ destr' \subseteq forms' /\ cases' \subseteq Cases
      /\ queue' \in SUBSET Task /\ KeysUnique(queue')
      /\ enriching' \subseteq [form : Forms, sid : 0..Sessions]
  BY <1>4, <1>5, <1>6, RegisterKeeps
<1>8. task' \in Task /\ task'.kind = "visit" /\ local' \in LocalType
  BY <1>1, <1>3, TaskConstructors DEF Visit, VisitLocal, LocalType
<1>9. pc' = "health" /\ UNCHANGED <<status, sid, executed, inFlight, boosted, devs, execs, thrown>>
  BY DEF VisitScanned
<1>10. DOMAIN pages' \subseteq Routes /\ \A x \in DOMAIN pages' : pages'[x] \in Nat
  BY <1>1, <1>3 DEF IInv, TypeOK
<1>11. inFlight = NoCase
  BY <1>2 DEF IInv, InFlightIsRunning, TestPCs
<1>12. TypeOK'
  BY <1>6, <1>7, <1>8, <1>9, <1>10 DEF TypeOK, LocalType, PCs
<1> QED BY <1>7, <1>8, <1>9, <1>11, <1>12
        DEF IInv, TaskFitsPC, TestPCs, RunOnce, InFlightIsRunning, QueueKeysUnique

\* The steps that leave the session's data and the queue alone and end the task or go on with it.
LEMMA QuietKeeps ==
  ASSUME IInv, VisitFailed \/ LinksChecked \/ ExploreReady \/ ClickNothing
  PROVE  IInv'
<1>1. /\ UNCHANGED <<stateVars, queue, boosted, enriching, devs, task>>
      /\ pc' \in {"clicking", "pace"} /\ pc \in {"visiting", "checking", "exploring", "clicking"}
      /\ local' \in LocalType
      /\ pc' = "clicking" => local'.left > 0 /\ pc \in {"exploring", "clicking"}
  <2>1. local \in LocalType /\ local.left \in Nat /\ (pc = "clicking" => local.left > 0)
    BY DEF IInv, TypeOK, TaskFitsPC, LocalType
  <2>2. CASE VisitFailed \/ LinksChecked
    BY <2>1, <2>2 DEF VisitFailed, LinksChecked
  <2>3. CASE ExploreReady
    BY <2>1, <2>3 DEF ExploreReady, ActionHead, ActionsLeft, LocalType
  <2>4. CASE ClickNothing
    BY <2>1, <2>4 DEF ClickNothing, ActionHead, ActionsLeft, LocalType
  <2> QED BY <2>2, <2>3, <2>4
<1>2. TypeOK'
  BY <1>1 DEF IInv, TypeOK, stateVars, LocalType, PCs
<1>3. TaskFitsPC' /\ RunOnce' /\ QueueKeysUnique'
  BY <1>1 DEF IInv, TaskFitsPC, TestPCs, RunOnce, QueueKeysUnique, stateVars
<1>4. InFlightIsRunning'
  BY <1>1 DEF IInv, InFlightIsRunning, TestPCs, stateVars
<1> QED BY <1>2, <1>3, <1>4 DEF IInv

LEMMA VisitDoneKeeps == ASSUME IInv, VisitDone PROVE IInv'
<1> DEFINE more == (IF ActionsOn[task.of] > 0 THEN {Explore(task.of)} ELSE {}) \cup
                   (IF Links[task.of] # {} THEN {CheckLinks(task.of)} ELSE {})
<1>1. task.of \in Routes /\ pc = "health"
  BY DEF VisitDone, IInv, TypeOK, TaskFitsPC, Task
<1>2. more \in SUBSET Task /\ KeysUnique(more)
  BY <1>1, TaskConstructors, KeysOf DEF KeysUnique
<1>3. queue' = queue \/ queue' = PushAll(queue, more)
  BY DEF VisitDone
<1> HIDE DEF more
<1>4. queue' \in SUBSET Task /\ KeysUnique(queue')
  BY <1>2, <1>3, PushAllUnique, PushAllType DEF IInv, TypeOK, QueueKeysUnique
<1>5. pc' = "pace" /\ UNCHANGED <<stateVars, boosted, task, local, enriching, devs>>
  BY DEF VisitDone
<1>6. TypeOK'
  BY <1>4, <1>5 DEF IInv, TypeOK, stateVars, PCs
<1> QED BY <1>1, <1>4, <1>5, <1>6
        DEF IInv, TaskFitsPC, TestPCs, RunOnce, InFlightIsRunning, QueueKeysUnique, stateVars

LEMMA ClickNavigatedKeeps == ASSUME IInv, ClickNavigated PROVE IInv'
<1>1. task.depth \in Nat /\ pc = "clicking" /\ local.left > 0 /\ local \in LocalType
  BY DEF ClickNavigated, IInv, TypeOK, TaskFitsPC, Task, LocalType
<1>2. PICK r \in Routes :
        \/ queue' = queue
        \/ ~HasKey(queue, <<"visit", r>>) /\ queue' = queue \cup {Visit(r, task.depth + 1, FALSE)}
  BY DEF ClickNavigated
<1>3. queue' \in SUBSET Task /\ KeysUnique(queue')
  <2>1. Visit(r, task.depth + 1, FALSE) \in Task
    <3>1. task.depth + 1 \in Nat /\ FALSE \in BOOLEAN
      BY <1>1
    <3> HIDE <1>1
    <3> QED BY <3>1, TaskConstructors
  <2>2. TaskKey(Visit(r, task.depth + 1, FALSE)) = <<"visit", r>>
    BY KeysOf
  <2>3. queue \in SUBSET Task /\ KeysUnique(queue)
    BY DEF IInv, TypeOK, QueueKeysUnique
  <2>4. CASE queue' = queue
    BY <2>3, <2>4
  <2>5. CASE ~HasKey(queue, <<"visit", r>>) /\ queue' = queue \cup {Visit(r, task.depth + 1, FALSE)}
    <3>1. \A t \in queue : TaskKey(t) # TaskKey(Visit(r, task.depth + 1, FALSE))
      BY <2>2, <2>5 DEF HasKey
    <3> QED BY <2>1, <2>3, <2>5, <3>1 DEF KeysUnique
  <2> QED BY <1>2, <2>4, <2>5
<1>4. /\ UNCHANGED <<stateVars, boosted, enriching, devs, task>>
      /\ pc' \in {"clicking", "pace"} /\ local' \in LocalType
      /\ pc' = "clicking" => local'.left > 0
  BY <1>1 DEF ClickNavigated, ActionHead, ActionsLeft, LocalType
<1>5. TypeOK'
  BY <1>3, <1>4 DEF IInv, TypeOK, stateVars, LocalType, PCs
<1> QED BY <1>1, <1>3, <1>4, <1>5
        DEF IInv, TaskFitsPC, TestPCs, RunOnce, InFlightIsRunning, QueueKeysUnique, stateVars

LEMMA ClickRevealedKeeps == ASSUME IInv, ClickRevealed PROVE IInv'
<1>1. pc = "clicking" /\ local.left > 0 /\ local \in LocalType /\ TypeOK
  BY DEF ClickRevealed, IInv, TypeOK, TaskFitsPC, LocalType
<1>2. PICK F \in SUBSET FormsOn(task.of) : RegisterForms(F, queue)
  BY DEF ClickRevealed
<1>3. F \in SUBSET Forms /\ queue \in SUBSET Task /\ KeysUnique(queue)
  BY DEF FormsOn, IInv, TypeOK, QueueKeysUnique
<1>4. /\ forms' \subseteq Forms /\ destr' \subseteq forms' /\ cases' \subseteq Cases
      /\ queue' \in SUBSET Task /\ KeysUnique(queue')
      /\ enriching' \subseteq [form : Forms, sid : 0..Sessions]
  BY <1>1, <1>2, <1>3, RegisterKeeps
<1>5. /\ UNCHANGED <<status, sid, pages, executed, inFlight, boosted, devs, execs, thrown, task>>
      /\ pc' \in {"clicking", "pace"} /\ local' \in LocalType
      /\ pc' = "clicking" => local'.left > 0
  BY <1>1 DEF ClickRevealed, ActionHead, ActionsLeft, LocalType
<1>6. TypeOK'
  BY <1>1, <1>4, <1>5 DEF TypeOK, LocalType, PCs
<1> QED BY <1>1, <1>4, <1>5, <1>6
        DEF IInv, TaskFitsPC, TestPCs, RunOnce, InFlightIsRunning, QueueKeysUnique

-----------------------------------------------------------------------------
(* Tests. *)

\* The execution of the popped test is recorded once.
LEMMA RecordKeeps ==
  ASSUME IInv, pc \in TestPCs, Record(task.of),
         UNCHANGED <<status, sid, pages, forms, destr, cases, queue, boosted, task, local,
                     enriching, devs, thrown>>
  PROVE  IInv'
<1>1. task.of \in Cases /\ task.of \notin executed
  BY TestTask DEF IInv, TypeOK, TaskFitsPC
<1>2. /\ executed' = executed \cup {task.of} /\ execs' = [execs EXCEPT ![task.of] = @ + 1]
      /\ inFlight' = NoCase /\ pc' = "pace"
  BY DEF Record
<1>3. TypeOK'
  BY <1>1, <1>2 DEF IInv, TypeOK, PCs
<1>4. RunOnce'
  BY <1>1, <1>2 DEF IInv, TypeOK, RunOnce
<1>5. TaskFitsPC' /\ InFlightIsRunning' /\ QueueKeysUnique'
  BY <1>2 DEF IInv, TaskFitsPC, TestPCs, InFlightIsRunning, QueueKeysUnique
<1> QED BY <1>3, <1>4, <1>5 DEF IInv

LEMMA TestStepKeeps ==
  ASSUME IInv, TestReady \/ TestEndsEarly \/ TestSubmits \/ TestSettled
  PROVE  IInv'
<1>1. CASE TestEndsEarly \/ TestSettled
  BY <1>1, RecordKeeps DEF TestEndsEarly, TestSettled, TestPCs
<1>2. CASE TestSubmits
  BY <1>2 DEF TestSubmits, IInv, TypeOK, TaskFitsPC, TestPCs, RunOnce, InFlightIsRunning,
              QueueKeysUnique, stateVars, PCs
<1>3. CASE TestReady
  <2>1. CASE Record(task.of)
    BY <1>3, <2>1, RecordKeeps DEF TestReady, TestPCs
  <2>2. CASE inFlight' = task.of /\ pc' = "running" /\ UNCHANGED <<executed, execs>>
    <3>1. task.of \in Cases /\ task.of \notin executed /\ task = Test(task.of) /\ task.kind = "test"
      BY <1>3, TestTask DEF TestReady, IInv, TypeOK, TaskFitsPC, TestPCs
    <3>2. TypeOK'
      BY <1>3, <2>2, <3>1 DEF TestReady, IInv, TypeOK, PCs
    <3> QED BY <1>3, <2>2, <3>1, <3>2 DEF TestReady, IInv, TaskFitsPC, TestPCs, RunOnce,
            InFlightIsRunning, QueueKeysUnique
  <2> QED BY <1>3, <2>1, <2>2 DEF TestReady
<1> QED BY <1>1, <1>2, <1>3

-----------------------------------------------------------------------------
(* The ends of tasks, the panel and the developer. *)

LEMMA TaskThrowsKeeps == ASSUME IInv, TaskThrows PROVE IInv'
<1>1. task.kind = "test" => task.of \in Cases
  BY TestTask DEF IInv, TypeOK
<1> QED BY <1>1 DEF TaskThrows, IInv, TypeOK, TaskFitsPC, TestPCs, RunOnce, InFlightIsRunning,
                    QueueKeysUnique, PCs

\* When the loop is not in a test, no case is in flight.
LEMMA NothingInFlight ==
  ASSUME IInv, pc \notin TestPCs PROVE inFlight = NoCase
BY DEF IInv, InFlightIsRunning

LEMMA NextTaskKeeps == ASSUME IInv, NextTask PROVE IInv'
<1>1. /\ UNCHANGED <<sid, pages, forms, destr, cases, executed, inFlight, execs, thrown, boosted,
                     enriching, devs>>
      /\ LoopHead(status, queue) /\ inFlight = NoCase
  BY NothingInFlight DEF NextTask, TestPCs
<1>2. /\ status' \in Statuses /\ queue' \in SUBSET Task /\ KeysUnique(queue')
      /\ pc' \in PCs /\ task' \in Task /\ local' \in LocalType /\ TaskFitsPC'
  <2>1. status \in Statuses /\ queue \in SUBSET Task /\ KeysUnique(queue)
        /\ DOMAIN pages' \subseteq Routes /\ \A r \in DOMAIN pages' : pages'[r] \in Nat
    BY <1>1 DEF IInv, TypeOK, QueueKeysUnique
  <2> QED BY <1>1, <2>1, LoopHeadKeeps
<1>3. TypeOK'
  BY <1>1, <1>2 DEF IInv, TypeOK, LocalType
<1> QED BY <1>1, <1>2, <1>3 DEF IInv, RunOnce, InFlightIsRunning, QueueKeysUnique

LEMMA CaughtUpKeeps == ASSUME IInv, CaughtUp PROVE IInv'
BY NothingInFlight
   DEF CaughtUp, IInv, TypeOK, TaskFitsPC, TestPCs, RunOnce, InFlightIsRunning, QueueKeysUnique,
       stateVars, PCs

\* A kick that leaves the session's data alone.
LEMMA KickedKeeps ==
  ASSUME IInv, NEW st \in Statuses, NEW q \in SUBSET Task, KeysUnique(q), Kick(st, q),
         boosted' \in Routes \cup {NoRoute}, devs' \in 0..DevActivities,
         UNCHANGED <<sid, pages, forms, destr, cases, executed, inFlight, execs, thrown, enriching>>
  PROVE  IInv'
<1>1. /\ status' \in Statuses /\ queue' \in SUBSET Task /\ KeysUnique(queue')
      /\ pc' \in PCs /\ task' \in Task /\ local' \in LocalType /\ TaskFitsPC'
      /\ UNCHANGED loopVars \/ pc = "idle"
  <2>1. DOMAIN pages' \subseteq Routes /\ (\A r \in DOMAIN pages' : pages'[r] \in Nat)
        /\ executed' \subseteq executed
    BY DEF IInv, TypeOK
  <2> QED BY <2>1, KickKeeps
<1>2. TypeOK'
  BY <1>1 DEF IInv, TypeOK, LocalType
<1>3. InFlightIsRunning'
  BY <1>1, NothingInFlight DEF IInv, InFlightIsRunning, loopVars, TestPCs
<1> QED BY <1>1, <1>2, <1>3 DEF IInv, RunOnce, QueueKeysUnique

LEMMA PanelKeeps ==
  ASSUME IInv, StartSame \/ Resume \/ Tick \/ Pause \/ Stop
  PROVE  IInv'
<1>1. CASE StartSame \/ Resume \/ Tick
  <2>1. /\ Kick("live", queue)
        /\ UNCHANGED <<sid, pages, forms, destr, cases, executed, inFlight, execs, thrown, boosted,
                       enriching, devs>>
    BY <1>1 DEF StartSame, Resume, Tick, GoLive
  <2>2. "live" \in Statuses /\ queue \in SUBSET Task /\ KeysUnique(queue)
        /\ boosted' \in Routes \cup {NoRoute} /\ devs' \in 0..DevActivities
    BY <2>1 DEF Statuses, IInv, TypeOK, QueueKeysUnique
  <2> QED BY <2>1, <2>2, KickedKeeps
<1>2. CASE Pause
  BY <1>2 DEF Pause, IInv, TypeOK, Statuses, TaskFitsPC, TestPCs, RunOnce, InFlightIsRunning,
              QueueKeysUnique, loopVars
<1>3. CASE Stop
  BY <1>3 DEF Stop, IInv, TypeOK, Statuses, TaskFitsPC, TestPCs, RunOnce, InFlightIsRunning,
              QueueKeysUnique, KeysUnique, loopVars
<1> QED BY <1>1, <1>2, <1>3

\* The queue of a new session.
LEMMA StartQueue ==
  ASSUME NEW r \in Routes
  PROVE  LET q == {Visit(Root, 0, FALSE)} \cup (IF r = Root THEN {} ELSE {Visit(r, 0, TRUE)})
         IN  q \in SUBSET Task /\ KeysUnique(q)
<1>1. Visit(Root, 0, FALSE) \in Task /\ Visit(r, 0, TRUE) \in Task
  BY TaskConstructors, AltSessionAssumption
<1>2. TaskKey(Visit(Root, 0, FALSE)) = <<"visit", Root>> /\ TaskKey(Visit(r, 0, TRUE)) = <<"visit", r>>
  BY KeysOf
<1>3. <<"visit", Root>> = <<"visit", r>> => Root = r
  OBVIOUS
<1> QED BY <1>1, <1>2, <1>3 DEF KeysUnique

LEMMA StartNewKeeps == ASSUME IInv, StartNew PROVE IInv'
<1>1. PICK r \in Routes :
        Kick("live", {Visit(Root, 0, FALSE)} \cup (IF r = Root THEN {} ELSE {Visit(r, 0, TRUE)}))
  BY DEF StartNew
<1> DEFINE q == {Visit(Root, 0, FALSE)} \cup (IF r = Root THEN {} ELSE {Visit(r, 0, TRUE)})
<1>2. q \in SUBSET Task /\ KeysUnique(q)
  BY StartQueue
<1>3. Kick("live", q)
  BY <1>1
<1> HIDE DEF q
<1>4. /\ sid < Sessions /\ sid' = sid + 1 /\ pages' = [x \in {} |-> 0]
      /\ forms' = {} /\ destr' = {} /\ cases' = {} /\ executed' = {} /\ thrown' = {}
      /\ inFlight' = NoCase /\ boosted' = NoRoute /\ execs' = [c \in Cases |-> 0]
      /\ UNCHANGED <<enriching, devs>>
  BY DEF StartNew
<1>5. "live" \in Statuses /\ DOMAIN pages' = {} /\ executed' \subseteq executed
  BY <1>4 DEF Statuses
<1>6. /\ status' \in Statuses /\ queue' \in SUBSET Task /\ KeysUnique(queue')
      /\ pc' \in PCs /\ task' \in Task /\ local' \in LocalType /\ TaskFitsPC'
  BY <1>2, <1>3, <1>5, KickKeeps
<1>7. sid' \in 0..Sessions
  <2>1. sid \in 0..Sessions /\ sid < Sessions /\ sid' = sid + 1
    BY <1>4 DEF IInv, TypeOK
  <2> QED BY <2>1, BoundsType
<1>8. TypeOK'
  BY <1>4, <1>5, <1>6, <1>7 DEF IInv, TypeOK, LocalType
<1> QED BY <1>4, <1>6, <1>8 DEF IInv, RunOnce, InFlightIsRunning, QueueKeysUnique

\* The queue a developer's activity leaves: the route's visit is queued once, as the developer's.
LEMMA DevQueue ==
  ASSUME IInv, NEW r \in Routes, NEW d \in Nat
  PROVE  LET q == PushAll(WithoutVisit(queue, r), {Visit(r, d, TRUE)})
         IN  q \in SUBSET Task /\ KeysUnique(q)
<1>1. Visit(r, d, TRUE) \in Task
  BY TaskConstructors
<1>2. WithoutVisit(queue, r) \in SUBSET queue
  BY DEF WithoutVisit
<1>3. WithoutVisit(queue, r) \in SUBSET Task /\ KeysUnique(WithoutVisit(queue, r))
  BY <1>2, SubsetUnique DEF IInv, TypeOK, QueueKeysUnique
<1>4. KeysUnique({Visit(r, d, TRUE)})
  BY DEF KeysUnique
<1> QED BY <1>1, <1>3, <1>4, PushAllType, PushAllUnique

LEMMA DevActivityKeeps == ASSUME IInv, NEW r \in Routes, DevActivity(r) PROVE IInv'
<1> DEFINE d == IF r \in DOMAIN pages THEN pages[r] ELSE 0
           q == PushAll(WithoutVisit(queue, r), {Visit(r, d, TRUE)})
           st == IF status = "watching" THEN "live" ELSE status
<1>1. d \in Nat /\ st \in Statuses
  BY DEF IInv, TypeOK, Statuses
<1>2. q \in SUBSET Task /\ KeysUnique(q)
  <2> HIDE DEF d
  <2> QED BY <1>1, DevQueue
<1>3. /\ Kick(st, q) /\ boosted' = r /\ devs < DevActivities /\ devs' = devs + 1
      /\ UNCHANGED <<sid, pages, forms, destr, cases, executed, inFlight, execs, thrown, enriching>>
  BY DEF DevActivity
<1> HIDE DEF q, st
<1>4. boosted' \in Routes \cup {NoRoute} /\ devs' \in 0..DevActivities
  <2>1. devs \in 0..DevActivities /\ devs < DevActivities /\ devs' = devs + 1
    BY <1>3 DEF IInv, TypeOK
  <2>2. boosted' \in Routes
    BY <1>3
  <2> QED BY <2>1, <2>2, BoundsType
<1> QED BY <1>1, <1>2, <1>3, <1>4, KickedKeeps

-----------------------------------------------------------------------------
(* The theorems. *)

LEMMA InitIInv == Init => IInv
<1> SUFFICES ASSUME Init PROVE IInv
  OBVIOUS
<1>1. TypeOK
  <2>1. sid \in 0..Sessions /\ devs \in 0..DevActivities
    BY BoundsType DEF Init
  <2> QED BY <2>1, TaskConstructors DEF Init, TypeOK, Statuses, PCs, NoLocal
<1> QED BY <1>1 DEF Init, IInv, TaskFitsPC, TestPCs, RunOnce, InFlightIsRunning, QueueKeysUnique,
                    KeysUnique

LEMMA NextIInv == IInv /\ [Next]_vars => IInv'
<1> SUFFICES ASSUME IInv, [Next]_vars PROVE IInv'
  OBVIOUS
<1>1. CASE LoopStep
  BY <1>1, VisitScannedKeeps, QuietKeeps, VisitDoneKeeps, ClickNavigatedKeeps, ClickRevealedKeeps,
     TestStepKeeps, TaskThrowsKeeps, NextTaskKeeps, CaughtUpKeeps DEF LoopStep
<1>2. CASE EnrichStep
  BY <1>2, EnrichKeeps DEF EnrichStep
<1>3. CASE Tick \/ UserStep
  BY <1>3, StartNewKeeps, PanelKeeps, DevActivityKeeps DEF UserStep
<1>4. CASE UNCHANGED vars
  BY <1>4 DEF vars, IInv, TypeOK, TaskFitsPC, TestPCs, RunOnce, InFlightIsRunning,
              QueueKeysUnique, KeysUnique
<1> QED BY <1>1, <1>2, <1>3, <1>4 DEF Next

THEOREM SessionInvariant == Spec => []IInv
BY InitIInv, NextIInv, PTL DEF Spec

\* Every variable keeps the shape the source gives it, for any site and any settings.
THEOREM SessionTypes == Spec => []TypeOK
<1>1. IInv => TypeOK
  BY DEF IInv
<1> QED BY <1>1, SessionInvariant, PTL

\* No case runs twice in a session, whatever plans re-queue and whatever the developer, the panel
\* and closing tabs do.
THEOREM CasesRunOnce == Spec => []RunOnce
<1>1. IInv => RunOnce
  BY DEF IInv
<1> QED BY <1>1, SessionInvariant, PTL

\* The case recovery would re-queue is the one that is running, and it has no execution yet.
THEOREM InFlightIsTheRunningCase == Spec => []InFlightIsRunning
<1>1. IInv => InFlightIsRunning
  BY DEF IInv
<1> QED BY <1>1, SessionInvariant, PTL

\* The session never queues two tasks with one key.
THEOREM SessionQueueUnique == Spec => []QueueKeysUnique
<1>1. IInv => QueueKeysUnique
  BY DEF IInv
<1> QED BY <1>1, SessionInvariant, PTL

-----------------------------------------------------------------------------
(* Destructive forms. *)

\* Known destructive forms carry the flag, a test of one was popped with the flag set, and it runs
\* on only if it never submits.
Gate ==
    /\ forms \cap Destructive \subseteq destr
    /\ pc \in TestPCs /\ FormOf[task.of] \in Destructive => local.destr
    /\ pc \in {"running", "settling"} /\ local.destr /\ ~AllowDestructive => task.of \in NonSubmitting

LEMMA LoopHeadGate ==
  ASSUME NEW st, NEW q, LoopHead(st, q), forms' \cap Destructive \subseteq destr'
  PROVE  Gate'
<1>1. CASE AtRest("idle") \/ AtRest("caughtup")
  BY <1>1 DEF AtRest, Gate, TestPCs
<1>2. CASE \E t \in Heads(q, boosted') : BeginTask(t)
  <2>1. PICK t \in Heads(q, boosted') : BeginTask(t)
    BY <1>2
  <2>2. CASE BeginVisit(t)
    BY <2>2 DEF BeginVisit, Gate, TestPCs
  <2>3. CASE BeginExplore(t)
    BY <2>3 DEF BeginExplore, Gate, TestPCs
  <2>4. CASE BeginTest(t)
    BY <2>4 DEF BeginTest, Gate, TestPCs, TestLocal
  <2>5. CASE pc' = "checking"
    BY <2>5 DEF Gate, TestPCs
  <2> QED BY <2>1, <2>2, <2>3, <2>4, <2>5 DEF BeginTask
<1> QED BY <1>1, <1>2 DEF LoopHead

LEMMA KickGate ==
  ASSUME Gate, NEW st, NEW q, Kick(st, q), forms' \cap Destructive \subseteq destr'
  PROVE  Gate'
BY LoopHeadGate DEF Kick, Gate, loopVars

LEMMA RegisterGate ==
  ASSUME Gate, NEW F, NEW q, RegisterForms(F, q), pc' \notin TestPCs
  PROVE  Gate'
BY DEF Gate, RegisterForms, TestPCs

LEMMA NextGate == IInv /\ Gate /\ [Next]_vars => Gate'
<1> SUFFICES ASSUME IInv, Gate, [Next]_vars PROVE Gate'
  OBVIOUS
<1>1. CASE VisitScanned
  BY <1>1, RegisterGate DEF VisitScanned, TestPCs
<1>2. CASE ClickRevealed
  BY <1>2, RegisterGate DEF ClickRevealed, ActionHead, TestPCs
<1>3. CASE VisitFailed \/ VisitDone \/ LinksChecked \/ ExploreReady \/ ClickNothing \/ ClickNavigated
  BY <1>3 DEF VisitFailed, VisitDone, LinksChecked, ExploreReady, ClickNothing, ClickNavigated,
              ActionHead, stateVars, Gate, TestPCs
<1>4. CASE TestReady
  BY <1>4 DEF TestReady, Record, Gate, TestPCs
<1>5. CASE TestEndsEarly \/ TestSettled \/ TaskThrows
  BY <1>5 DEF TestEndsEarly, TestSettled, TaskThrows, Record, Gate, TestPCs
<1>6. CASE TestSubmits
  BY <1>6 DEF TestSubmits, stateVars, Gate, TestPCs
<1>7. CASE NextTask
  BY <1>7, LoopHeadGate DEF NextTask, Gate
<1>8. CASE CaughtUp
  BY <1>8 DEF CaughtUp, stateVars, Gate, TestPCs
<1>9. ASSUME NEW e \in enriching, EnrichDropped(e) \/ EnrichMerged(e) PROVE Gate'
  <2>1. CASE EnrichDropped(e)
    BY <2>1 DEF EnrichDropped, stateVars, loopVars, Gate
  <2>2. CASE EnrichMerged(e)
    <3>1. UNCHANGED <<forms, pc, task, local>> /\ destr \subseteq destr'
      BY <2>2 DEF EnrichMerged, MergedFlag, loopVars
    <3> QED BY <3>1 DEF Gate
  <2> QED BY <1>9, <2>1, <2>2
<1>10. CASE StartNew
  BY <1>10, KickGate DEF StartNew
<1>11. CASE StartSame \/ Resume \/ Tick
  BY <1>11, KickGate DEF StartSame, Resume, Tick, GoLive, Gate
<1>12. CASE Pause \/ Stop
  BY <1>12 DEF Pause, Stop, loopVars, Gate
<1>13. ASSUME NEW r \in Routes, DevActivity(r) PROVE Gate'
  BY <1>13, KickGate DEF DevActivity, Gate
<1>14. CASE UNCHANGED vars
  BY <1>14 DEF vars, Gate
<1> QED BY <1>1, <1>2, <1>3, <1>4, <1>5, <1>6, <1>7, <1>8, <1>9, <1>10, <1>11, <1>12, <1>13, <1>14
        DEF Next, LoopStep, EnrichStep, UserStep

\* A form that the page's heuristics flag is never submitted unless the developer allowed it,
\* whatever plans say and even when a session is replaced under a running test.
THEOREM HeuristicsAreRespected == Spec => HeuristicsRespected
<1>1. Init => Gate
  BY DEF Init, Gate, TestPCs
<1>2. Gate /\ [Next]_vars =>
        [TestSubmits => AllowDestructive \/ FormOf[task.of] \notin Destructive]_vars
  BY DEF Gate, TestSubmits, TestPCs
<1> QED BY <1>1, <1>2, NextGate, SessionInvariant, PTL DEF Spec, HeuristicsRespected

-----------------------------------------------------------------------------
(* Plans. *)

\* Only start() and a plan touch known flags; the plan of a form leaves the others alone.
LEMMA FlagsOfAStep ==
  ASSUME [Next]_vars
  PROVE  destr \subseteq destr' \/ sid' = sid + 1
<1>1. CASE LoopStep
  BY <1>1 DEF LoopStep, VisitScanned, ClickRevealed, RegisterForms, VisitFailed, VisitDone,
              LinksChecked, ExploreReady, ClickNothing, ClickNavigated, TestReady, TestEndsEarly,
              TestSubmits, TestSettled, TaskThrows, NextTask, CaughtUp, stateVars
<1>2. CASE EnrichStep
  BY <1>2 DEF EnrichStep, EnrichDropped, EnrichMerged, MergedFlag, stateVars
<1>3. CASE Tick \/ UserStep
  BY <1>3 DEF UserStep, StartNew, StartSame, Resume, Tick, GoLive, Pause, Stop, DevActivity
<1>4. CASE UNCHANGED vars
  BY <1>4 DEF vars
<1> QED BY <1>1, <1>2, <1>3, <1>4 DEF Next

\* Within a session a destructive flag is never cleared.
THEOREM FlagsAreNeverCleared == Spec => FlagNeverCleared
<1>1. IInv /\ [Next]_vars => [sid' = sid => destr \subseteq destr']_vars
  <2> SUFFICES ASSUME IInv, [Next]_vars, sid' = sid PROVE destr \subseteq destr'
    OBVIOUS
  <2>1. sid \in Int
    BY BoundsType DEF IInv, TypeOK
  <2> QED BY <2>1, FlagsOfAStep
<1> QED BY <1>1, SessionInvariant, PTL DEF Spec, FlagNeverCleared

\* A plan that arrives for a session that is gone changes nothing.
THEOREM PlansStay == Spec => PlansStayInSession
<1>1. ASSUME [Next]_vars, NEW e \in enriching \ enriching', e.sid # sid
      PROVE  UNCHANGED <<forms, destr, cases, queue>>
  <2>1. CASE LoopStep
    BY <1>1, <2>1 DEF LoopStep, VisitScanned, ClickRevealed, RegisterForms, VisitFailed, VisitDone,
              LinksChecked, ExploreReady, ClickNothing, ClickNavigated, TestReady, TestEndsEarly,
              TestSubmits, TestSettled, TaskThrows, NextTask, CaughtUp, stateVars
  <2>2. CASE EnrichStep
    BY <1>1, <2>2 DEF EnrichStep, EnrichDropped, EnrichMerged, PlanFits, stateVars
  <2>3. CASE Tick \/ UserStep
    BY <1>1, <2>3 DEF UserStep, StartNew, StartSame, Resume, Tick, GoLive, Pause, Stop, DevActivity
  <2>4. CASE UNCHANGED vars
    BY <1>1, <2>4 DEF vars
  <2> QED BY <1>1, <2>1, <2>2, <2>3, <2>4 DEF Next
<1>2. [Next]_vars =>
        [\A e \in enriching \ enriching' :
           e.sid # sid => UNCHANGED <<forms, destr, cases, queue>>]_vars
  BY <1>1
<1> QED BY <1>2, PTL DEF Spec, PlansStayInSession

-----------------------------------------------------------------------------
(* Watching. *)

\* Nothing is left to do, or to be done, while the session is watching.
Watching ==
    /\ enriching = {}
    /\ status = "watching" => queue = {} /\ pc \in {"idle", "caughtup"}

LEMMA LoopHeadWatching ==
  ASSUME NEW st, NEW q, st # "watching", LoopHead(st, q), enriching' = {}
  PROVE  Watching'
BY DEF LoopHead, AtRest, Watching

LEMMA KickWatching ==
  ASSUME NEW st, NEW q, st # "watching", Kick(st, q), enriching' = {}
  PROVE  Watching'
BY LoopHeadWatching DEF Kick, Watching

\* Without Gemini "caught up" is only said when nothing is queued, and nothing is queued until
\* the session is live again.
THEOREM DrainedWithoutGemini == ~UseGemini => (Spec => []DrainedWhenWatching)
<1> SUFFICES ASSUME ~UseGemini PROVE Spec => []DrainedWhenWatching
  OBVIOUS
<1>1. Init => Watching
  BY DEF Init, Watching
<1>2. Watching /\ [Next]_vars => Watching'
  <2> SUFFICES ASSUME Watching, [Next]_vars PROVE Watching'
    OBVIOUS
  <2>1. CASE LoopStep
    <3>1. CASE NextTask
      BY <3>1, LoopHeadWatching DEF NextTask, Watching
    <3>2. CASE CaughtUp
      BY <3>2 DEF CaughtUp, stateVars, Watching
    <3>3. CASE ~NextTask /\ ~CaughtUp
      <4>1. pc \notin {"idle", "caughtup"} /\ status' = status /\ enriching' = {}
        BY <2>1, <3>3 DEF LoopStep, VisitScanned, ClickRevealed, RegisterForms, VisitFailed,
              VisitDone, LinksChecked, ExploreReady, ClickNothing, ClickNavigated, TestReady,
              TestEndsEarly, TestSubmits, TestSettled, TaskThrows, stateVars, Watching
      <4> QED BY <4>1 DEF Watching
    <3> QED BY <3>1, <3>2, <3>3
  <2>2. CASE EnrichStep
    BY <2>2 DEF EnrichStep, Watching
  <2>3. CASE StartNew \/ StartSame \/ Resume \/ Tick
    BY <2>3, KickWatching DEF StartNew, StartSame, Resume, Tick, GoLive, Watching
  <2>4. CASE Pause \/ Stop
    BY <2>4 DEF Pause, Stop, Watching
  <2>5. ASSUME NEW r \in Routes, DevActivity(r) PROVE Watching'
    BY <2>5, KickWatching DEF DevActivity, Watching
  <2>6. CASE UNCHANGED vars
    BY <2>6 DEF vars, Watching
  <2> QED BY <2>1, <2>2, <2>3, <2>4, <2>5, <2>6 DEF Next, UserStep
<1>3. Watching => DrainedWhenWatching
  BY DEF Watching, DrainedWhenWatching
<1> QED BY <1>1, <1>2, <1>3, PTL DEF Spec

-----------------------------------------------------------------------------
(* No case is forgotten. *)

\* A case is done with, queued, or the one the loop is on.
Reached(c) == c \in executed \cup thrown \/ Test(c) \in queue
Served(c) == Reached(c) \/ (task = Test(c) /\ pc \in TestPCs)

\* Without plans every case belongs to a registered form, so that its test is not skipped unrun.
OrphanInv ==
    /\ enriching = {}
    /\ \A c \in cases : FormOf[c] \in forms
    /\ status # "stopped" => \A c \in cases : Served(c)

\* What is queued stays queued when more is pushed, and a pushed test is queued afterwards.
LEMMA PushKeepsTests ==
  ASSUME NEW q \in SUBSET Task, NEW T
  PROVE  /\ q \subseteq PushAll(q, T)
         /\ \A c \in Cases : Test(c) \in T => Test(c) \in PushAll(q, T)
<1>1. ASSUME NEW c \in Cases, Test(c) \in T PROVE Test(c) \in PushAll(q, T)
  <2>1. CASE ~HasKey(q, TaskKey(Test(c)))
    BY <1>1, <2>1 DEF PushAll
  <2>2. CASE HasKey(q, TaskKey(Test(c)))
    <3>1. PICK t \in q : TaskKey(t) = <<"test", c>>
      BY <2>2, KeysOf DEF HasKey
    <3>2. t = Test(c)
      BY <3>1, TestTask DEF TaskKey
    <3> QED BY <3>1, <3>2 DEF PushAll
  <2> QED BY <2>1, <2>2
<1> QED BY <1>1 DEF PushAll

\* The task the loop's head pops is either none of the waiting tests or the one it goes to work on.
LEMMA LoopHeadServes ==
  ASSUME NEW st, NEW q \in SUBSET Task, LoopHead(st, q), NEW c \in cases', c \in Cases,
         FormOf[c] \in forms', c \in executed' \cup thrown' \/ Test(c) \in q
  PROVE  Served(c)'
<1>1. CASE queue' = q
  BY <1>1 DEF Served, Reached
<1>2. ASSUME NEW t \in Heads(q, boosted'), BeginTask(t), queue' = q \ {t} PROVE Served(c)'
  <2>1. CASE t # Test(c) \/ c \in executed' \cup thrown'
    BY <1>2, <2>1 DEF Served, Reached
  <2>2. CASE t = Test(c) /\ c \notin executed'
    <3>1. t.kind = "test" /\ t.of = c
      BY <2>2 DEF Test
    <3>2. BeginTest(t)
      BY <1>2, <3>1 DEF BeginTask
    <3>3. task' = Test(c) /\ pc' = "ensuring"
      BY <2>2, <3>1, <3>2 DEF BeginTest
    <3> QED BY <3>3 DEF Served, TestPCs
  <2> QED BY <2>1, <2>2
<1> QED BY <1>1, <1>2 DEF LoopHead

LEMMA KickServes ==
  ASSUME NEW st, NEW q \in SUBSET Task, Kick(st, q), NEW c \in cases', c \in Cases,
         FormOf[c] \in forms', executed' = executed, thrown' = thrown, Served(c),
         \A d : Test(d) \in queue => Test(d) \in q
  PROVE  Served(c)'
<1>1. CASE st = "live" /\ pc = "idle"
  <2>1. c \in executed' \cup thrown' \/ Test(c) \in q
    BY <1>1 DEF Served, Reached, TestPCs
  <2> QED BY <1>1, <2>1, LoopHeadServes DEF Kick
<1>2. CASE ~(st = "live" /\ pc = "idle")
  BY <1>2 DEF Kick, Served, Reached, loopVars, TestPCs
<1> QED BY <1>1, <1>2

\* Registering forms queues what it plans, and plans for registered forms only.
LEMMA RegisterServes ==
  ASSUME TypeOK, OrphanInv, ~UseGemini, NEW F, NEW q \in SUBSET Task, queue \subseteq q,
         RegisterForms(F, q), executed' = executed, thrown' = thrown, status' = status,
         pc \notin TestPCs
  PROVE  OrphanInv'
<1>1. enriching' = {}
  BY DEF RegisterForms, OrphanInv
<1>2. ASSUME NEW c \in cases', c \notin cases
      PROVE  FormOf[c] \in forms' /\ Test(c) \in queue'
  <2>1. PICK f \in F \ forms : c \in PlanCases(f)
    BY <1>2 DEF RegisterForms
  <2>2. c \in Cases /\ FormOf[c] = f
    BY <2>1 DEF PlanCases, FirstBy, Submittable, CasesOf
  <2>3. Test(c) \in {Test(d) : d \in UNION {PlanCases(g) : g \in F \ forms}}
    BY <2>1
  <2>4. Test(c) \in queue'
    BY <2>2, <2>3, PushKeepsTests DEF RegisterForms
  <2>5. f \in forms'
    BY <2>1 DEF RegisterForms
  <2> QED BY <2>2, <2>4, <2>5
<1>3. forms \subseteq forms' /\ queue \subseteq queue'
  BY PushKeepsTests DEF RegisterForms
<1>4. ASSUME NEW c \in cases', status' # "stopped" PROVE Served(c)'
  <2>1. CASE c \in cases
    BY <1>3, <1>4, <2>1 DEF OrphanInv, Served, Reached
  <2>2. CASE c \notin cases
    BY <1>2, <2>2 DEF Served, Reached
  <2> QED BY <2>1, <2>2
<1> QED BY <1>1, <1>2, <1>3, <1>4 DEF OrphanInv

LEMMA OrphanLoopStep ==
  ASSUME IInv, OrphanInv, ~UseGemini, LoopStep PROVE OrphanInv'
<1> USE DEF TestPCs
<1>0. TypeOK /\ queue \in SUBSET Task /\ cases \subseteq Cases
  BY DEF IInv, TypeOK
<1>1. CASE VisitScanned
  <2>1. PICK r \in Landing[task.of] :
          \E F \in SUBSET FormsOn(r), V \in LinkPushes(r, task.depth, DOMAIN pages', queue) :
            RegisterForms(F, queue \cup V)
    BY <1>1 DEF VisitScanned
  <2>2. PICK F \in SUBSET FormsOn(r), V \in LinkPushes(r, task.depth, DOMAIN pages', queue) :
          RegisterForms(F, queue \cup V)
    BY <2>1
  <2>3. task \in Task /\ task.kind = "visit" /\ task.depth \in Nat
    BY <1>1 DEF VisitScanned, IInv, TypeOK, TaskFitsPC, Task
  <2>4. r \in Routes
    BY <2>3, AltSessionAssumption DEF Task
  <2>5. queue \cup V \in SUBSET Task
    BY <1>0, <2>3, <2>4, LinkPushesKeep DEF IInv, QueueKeysUnique
  <2> QED BY <1>0, <1>1, <2>2, <2>5, RegisterServes DEF VisitScanned
<1>2. CASE ClickRevealed
  BY <1>0, <1>2, RegisterServes DEF ClickRevealed
<1>3. CASE NextTask
  <2>1. ASSUME NEW c \in cases', status # "stopped" PROVE Served(c)'
    BY <1>0, <1>3, <2>1, LoopHeadServes DEF NextTask, OrphanInv, Served, Reached
  <2>2. status' = "stopped" \/ status # "stopped"
    BY <1>3 DEF NextTask, LoopHead
  <2> QED BY <1>3, <2>1, <2>2 DEF NextTask, OrphanInv
<1>4. CASE VisitDone
  <2>1. queue \subseteq queue'
    BY <1>0, <1>4, PushKeepsTests DEF VisitDone
  <2> QED BY <1>4, <2>1 DEF VisitDone, stateVars, OrphanInv, Served, Reached
<1>5. CASE VisitFailed \/ ExploreReady \/ ClickNothing \/ ClickNavigated \/ LinksChecked \/ CaughtUp
  <2>1. queue \subseteq queue' /\ pc \notin TestPCs
    BY <1>5 DEF VisitFailed, ExploreReady, ClickNothing, ClickNavigated, LinksChecked, CaughtUp
  <2>2. UNCHANGED <<stateVars, enriching>>
    BY <1>5 DEF VisitFailed, ExploreReady, ClickNothing, ClickNavigated, LinksChecked, CaughtUp
  <2> QED BY <2>1, <2>2 DEF stateVars, OrphanInv, Served, Reached
<1>6. CASE TestReady \/ TestEndsEarly \/ TestSubmits \/ TestSettled \/ TaskThrows
  <2>1. UNCHANGED <<status, forms, cases, queue, task, enriching>>
    BY <1>6 DEF TestReady, TestEndsEarly, TestSubmits, TestSettled, TaskThrows, stateVars
  <2>2. executed \subseteq executed' /\ thrown \subseteq thrown'
    BY <1>6 DEF TestReady, TestEndsEarly, TestSubmits, TestSettled, TaskThrows, stateVars, Record
  <2>3. pc \in TestPCs /\ task.kind = "test" => pc' \in TestPCs \/ task.of \in executed' \cup thrown'
    BY <1>6 DEF TestReady, TestEndsEarly, TestSubmits, TestSettled, TaskThrows, Record
  <2>4. \A c : Test(c).kind = "test" /\ Test(c).of = c
    BY DEF Test
  <2>5. ASSUME NEW c, Served(c) PROVE Served(c)'
    BY <2>1, <2>2, <2>3, <2>4, <2>5 DEF Served, Reached
  <2> QED BY <2>1, <2>5 DEF OrphanInv
<1> QED BY <1>1, <1>2, <1>3, <1>4, <1>5, <1>6 DEF LoopStep

LEMMA OrphanOutside ==
  ASSUME IInv, OrphanInv, Tick \/ UserStep PROVE OrphanInv'
<1>0. queue \in SUBSET Task /\ cases \subseteq Cases
  BY DEF IInv, TypeOK
<1>1. CASE StartNew
  BY <1>1 DEF StartNew, OrphanInv
<1>2. CASE StartSame \/ Resume \/ Tick
  <2>1. /\ status # "stopped" /\ Kick("live", queue)
        /\ UNCHANGED <<forms, cases, executed, thrown, enriching>>
    BY <1>2 DEF StartSame, Resume, Tick, GoLive
  <2>2. ASSUME NEW c \in cases' PROVE Served(c)'
    BY <1>0, <2>1, <2>2, KickServes DEF OrphanInv
  <2> QED BY <2>1, <2>2 DEF OrphanInv
<1>3. CASE Pause \/ Stop
  BY <1>3 DEF Pause, Stop, OrphanInv, Served, Reached, loopVars, TestPCs
<1>4. ASSUME NEW r \in Routes, DevActivity(r) PROVE OrphanInv'
  <2> DEFINE depth == IF r \in DOMAIN pages THEN pages[r] ELSE 0
             more == PushAll(WithoutVisit(queue, r), {Visit(r, depth, TRUE)})
             st == IF status = "watching" THEN "live" ELSE status
  <2>1. /\ status # "stopped" /\ Kick(st, more)
        /\ UNCHANGED <<forms, cases, executed, thrown, enriching>>
    BY <1>4 DEF DevActivity
  <2>2. depth \in Nat
    BY DEF IInv, TypeOK
  <2>3. {Visit(r, depth, TRUE)} \in SUBSET Task /\ WithoutVisit(queue, r) \in SUBSET Task
    BY <1>0, <2>2, TaskConstructors DEF WithoutVisit
  <2>4. more \in SUBSET Task
    BY <2>3, PushAllType
  <2>5. \A d : Test(d) \in queue => Test(d) \in more
    BY <2>3, PushKeepsTests DEF WithoutVisit, Test
  <2> HIDE DEF more
  <2>6. ASSUME NEW c \in cases' PROVE Served(c)'
    BY <1>0, <2>1, <2>4, <2>5, <2>6, KickServes DEF OrphanInv
  <2> QED BY <2>1, <2>6 DEF OrphanInv
<1> QED BY <1>1, <1>2, <1>3, <1>4 DEF UserStep

\* Until the session is stopped a planned case has run, its task has failed, it is queued or it is
\* being worked on, whatever the developer, the panel and closing tabs do; with plans it is false.
THEOREM NoCaseIsForgotten == ~UseGemini => (Spec => []NoOrphanCase)
<1> SUFFICES ASSUME ~UseGemini PROVE Spec => []NoOrphanCase
  OBVIOUS
<1>1. Init => OrphanInv
  BY DEF Init, OrphanInv
<1>2. IInv /\ OrphanInv /\ [Next]_vars => OrphanInv'
  <2> SUFFICES ASSUME IInv, OrphanInv, [Next]_vars PROVE OrphanInv'
    OBVIOUS
  <2>1. CASE EnrichStep
    BY <2>1 DEF EnrichStep, OrphanInv
  <2>2. CASE UNCHANGED vars
    BY <2>2 DEF vars, OrphanInv, Served, Reached, TestPCs
  <2> QED BY <2>1, <2>2, OrphanLoopStep, OrphanOutside DEF Next
<1>3. OrphanInv => NoOrphanCase
  BY DEF OrphanInv, NoOrphanCase, Served, Reached
<1> QED BY <1>1, <1>2, <1>3, SessionInvariant, PTL DEF Spec

-----------------------------------------------------------------------------
(* Depths, and the developer's route.  The queue's boost is a number: it outweighs every other    *)
(* difference in rank only while depths and places in a form's list stay below what the sizes of  *)
(* the other ranks leave them.                                                                    *)

\* Nothing known, queued or worked on is deeper than the setting allows.
Shallow(q) == \A t \in q : t.depth <= MaxDepth
DepthInv ==
    /\ \A r \in DOMAIN pages : pages[r] <= MaxDepth
    /\ Shallow(queue) /\ task.depth <= MaxDepth

LEMMA DepthsOf ==
  /\ \A r, d, dev : Visit(r, d, dev).depth = d
  /\ \A r : Explore(r).depth = 0 /\ CheckLinks(r).depth = 0
  /\ \A c : Test(c).depth = 0
  /\ NoTask.depth = 0 /\ MaxDepth \in Nat
BY AltSessionAssumption DEF Visit, Explore, CheckLinks, Test, NoTask

LEMMA PushShallow ==
  ASSUME NEW q, NEW T, Shallow(q), \A t \in T : t.depth = 0
  PROVE  Shallow(PushAll(q, T))
BY DepthsOf DEF Shallow, PushAll

LEMMA LoopHeadShallow ==
  ASSUME NEW st, NEW q \in SUBSET Task, LoopHead(st, q), Shallow(q),
         \A r \in DOMAIN pages' : pages'[r] <= MaxDepth
  PROVE  DepthInv'
<1>1. CASE (AtRest("idle") \/ AtRest("caughtup")) /\ queue' = q
  BY <1>1, DepthsOf DEF AtRest, DepthInv, Shallow
<1>2. ASSUME NEW t \in Heads(q, boosted'), BeginTask(t), queue' = q \ {t} PROVE DepthInv'
  <2>1. t \in q /\ t.depth <= MaxDepth /\ \A d : At(t, d).depth = d
    BY <1>2 DEF Heads, Shallow, At
  <2>2. task'.depth <= MaxDepth
    BY <1>2, <2>1 DEF BeginTask, BeginVisit, BeginExplore, BeginTest
  <2> QED BY <1>2, <2>2 DEF DepthInv, Shallow
<1> QED BY <1>1, <1>2 DEF LoopHead

LEMMA KickShallow ==
  ASSUME DepthInv, NEW st, NEW q \in SUBSET Task, Kick(st, q), Shallow(q),
         \A r \in DOMAIN pages' : pages'[r] <= MaxDepth
  PROVE  DepthInv'
BY LoopHeadShallow DEF Kick, DepthInv, loopVars, Shallow

LEMMA StartShallow ==
  ASSUME NEW r \in Routes
  PROVE  Shallow({Visit(Root, 0, FALSE)} \cup (IF r = Root THEN {} ELSE {Visit(r, 0, TRUE)}))
<1>1. Visit(Root, 0, FALSE).depth = 0 /\ Visit(r, 0, TRUE).depth = 0 /\ 0 <= MaxDepth
  BY DepthsOf DEF Visit
<1> QED BY <1>1 DEF Shallow

LEMMA DevShallow ==
  ASSUME NEW r \in Routes, NEW d \in Nat, d <= MaxDepth, Shallow(queue)
  PROVE  Shallow(PushAll(WithoutVisit(queue, r), {Visit(r, d, TRUE)}))
<1>1. Visit(r, d, TRUE).depth = d
  BY DEF Visit
<1> QED BY <1>1 DEF Shallow, PushAll, WithoutVisit

LEMMA RegisterShallow ==
  ASSUME NEW F, NEW q, RegisterForms(F, q), Shallow(q) PROVE Shallow(queue')
<1>1. queue' = PushAll(q, {Test(c) : c \in UNION {PlanCases(f) : f \in F \ forms}})
  BY DEF RegisterForms
<1> QED BY <1>1, DepthsOf, PushShallow

LEMMA VisitScannedShallow == ASSUME IInv, DepthInv, VisitScanned PROVE DepthInv'
<1>1. PICK r \in Landing[task.of] :
        /\ pages' = [x \in DOMAIN pages \cup {r} |-> IF x = r THEN task.depth ELSE pages[x]]
        /\ \E F \in SUBSET FormsOn(r), V \in LinkPushes(r, task.depth, DOMAIN pages', queue) :
             RegisterForms(F, queue \cup V)
        /\ task' = Visit(r, task.depth, task.dev)
  BY DEF VisitScanned
<1>2. PICK F \in SUBSET FormsOn(r), V \in LinkPushes(r, task.depth, DOMAIN pages', queue) :
        RegisterForms(F, queue \cup V)
  BY <1>1
<1>3. task.depth \in Nat
  BY DEF IInv, TypeOK, Task
<1>4. V = {} \/ (task.depth < MaxDepth /\ \E L : V = {Visit(l, task.depth + 1, FALSE) : l \in L})
  <2>1. CASE task.depth < MaxDepth
    BY <2>1 DEF LinkPushes
  <2>2. CASE ~(task.depth < MaxDepth)
    BY <2>2 DEF LinkPushes
  <2> QED BY <2>1, <2>2
<1>5. Shallow(queue \cup V)
  <2>1. CASE V = {}
    BY <2>1 DEF DepthInv
  <2>2. ASSUME task.depth < MaxDepth, NEW L, V = {Visit(l, task.depth + 1, FALSE) : l \in L}
        PROVE  Shallow(queue \cup V)
    <3>1. task.depth + 1 <= MaxDepth
      BY <1>3, <2>2, DepthsOf
    <3>2. ASSUME NEW t \in V PROVE t.depth = task.depth + 1
      <4>1. PICK l \in L : t = Visit(l, task.depth + 1, FALSE)
        BY <2>2
      <4> QED BY <4>1 DEF Visit
    <3> QED BY <3>1, <3>2 DEF DepthInv, Shallow
  <2> QED BY <1>4, <2>1, <2>2
<1>6. Shallow(queue')
  BY <1>2, <1>5, RegisterShallow
<1>7. task'.depth <= MaxDepth /\ \A x \in DOMAIN pages' : pages'[x] <= MaxDepth
  BY <1>1, DepthsOf DEF DepthInv
<1> QED BY <1>6, <1>7 DEF DepthInv, Shallow

LEMMA NextDepth == IInv /\ DepthInv /\ [Next]_vars => DepthInv'
<1> SUFFICES ASSUME IInv, DepthInv, [Next]_vars PROVE DepthInv'
  OBVIOUS
<1>0. queue \in SUBSET Task /\ Shallow(queue)
  BY DEF IInv, TypeOK, DepthInv
<1>1. CASE VisitScanned
  BY <1>1, VisitScannedShallow
<1>2. CASE ClickRevealed
  <2>1. Shallow(queue')
    BY <1>0, <1>2, RegisterShallow DEF ClickRevealed
  <2> QED BY <1>2, <2>1 DEF ClickRevealed, ActionHead, DepthInv, Shallow
<1>3. CASE VisitDone
  <2>1. Shallow(queue')
    BY <1>0, <1>3, PushShallow, DepthsOf DEF VisitDone
  <2> QED BY <1>3, <2>1 DEF VisitDone, stateVars, DepthInv, Shallow
<1>4. CASE ClickNavigated
  <2>1. task.depth \in Nat
    BY DEF IInv, TypeOK, Task
  <2>2. Shallow(queue')
    <3>1. PICK r : \/ queue' = queue
                   \/ task.depth < MaxDepth /\ queue' = queue \cup {Visit(r, task.depth + 1, FALSE)}
      BY <1>4 DEF ClickNavigated
    <3>2. task.depth < MaxDepth => task.depth + 1 <= MaxDepth
      BY <2>1, DepthsOf
    <3>3. Visit(r, task.depth + 1, FALSE).depth = task.depth + 1
      BY DEF Visit
    <3> QED BY <1>0, <3>1, <3>2, <3>3 DEF Shallow
  <2> QED BY <1>4, <2>2 DEF ClickNavigated, ActionHead, stateVars, DepthInv, Shallow
<1>5. CASE VisitFailed \/ LinksChecked \/ ExploreReady \/ ClickNothing \/ TestReady \/ TestEndsEarly
           \/ TestSubmits \/ TestSettled \/ TaskThrows \/ CaughtUp \/ Pause
  BY <1>5 DEF VisitFailed, LinksChecked, ExploreReady, ClickNothing, ActionHead, TestReady, TestEndsEarly,
              TestSubmits, TestSettled, TaskThrows, CaughtUp, Pause, Record, stateVars, loopVars, DepthInv, Shallow
<1>6. CASE NextTask
  BY <1>0, <1>6, LoopHeadShallow DEF NextTask, DepthInv
<1>7. ASSUME NEW e \in enriching, EnrichDropped(e) \/ EnrichMerged(e) PROVE DepthInv'
  <2>1. UNCHANGED <<pages, task>>
    BY <1>7 DEF EnrichDropped, EnrichMerged, stateVars, loopVars
  <2>2. queue' = queue \/ \E q \in SUBSET queue : \E C : queue' = PushAll(q, {Test(c) : c \in C})
    BY <1>7 DEF EnrichDropped, EnrichMerged
  <2>3. Shallow(queue')
    <3>1. ASSUME NEW q \in SUBSET queue, NEW C PROVE Shallow(PushAll(q, {Test(c) : c \in C}))
      <4>1. Shallow(q)
        BY <1>0, <3>1 DEF Shallow
      <4> QED BY <4>1, PushShallow, DepthsOf
    <3> QED BY <1>0, <2>2, <3>1
  <2> QED BY <2>1, <2>3 DEF DepthInv, Shallow
<1>8. CASE StartNew
  <2>1. PICK r \in Routes :
          Kick("live", {Visit(Root, 0, FALSE)} \cup (IF r = Root THEN {} ELSE {Visit(r, 0, TRUE)}))
    BY <1>8 DEF StartNew
  <2> DEFINE q == {Visit(Root, 0, FALSE)} \cup (IF r = Root THEN {} ELSE {Visit(r, 0, TRUE)})
  <2>2. q \in SUBSET Task /\ Shallow(q)
    BY StartQueue, StartShallow
  <2>3. Kick("live", q) /\ DOMAIN pages' = {}
    BY <1>8, <2>1 DEF StartNew
  <2> HIDE DEF q
  <2> QED BY <2>2, <2>3, KickShallow
<1>9. CASE StartSame \/ Resume \/ Tick
  <2>1. Kick("live", queue) /\ pages' = pages
    BY <1>9 DEF StartSame, Resume, Tick, GoLive
  <2> QED BY <1>0, <2>1, KickShallow DEF DepthInv
<1>10. CASE Stop
  BY <1>10 DEF Stop, loopVars, DepthInv, Shallow
<1>11. ASSUME NEW r \in Routes, DevActivity(r) PROVE DepthInv'
  <2> DEFINE d == IF r \in DOMAIN pages THEN pages[r] ELSE 0
             q == PushAll(WithoutVisit(queue, r), {Visit(r, d, TRUE)})
  <2>1. d \in Nat /\ d <= MaxDepth
    BY DepthsOf DEF IInv, TypeOK, DepthInv
  <2>2. PICK st : Kick(st, q) /\ pages' = pages
    BY <1>11 DEF DevActivity
  <2> HIDE DEF d
  <2>3. q \in SUBSET Task
    BY <2>1, DevQueue
  <2>4. Shallow(q)
    BY <1>0, <2>1, DevShallow
  <2> HIDE DEF q
  <2> QED BY <2>2, <2>3, <2>4, KickShallow DEF DepthInv
<1>12. CASE UNCHANGED vars
  BY <1>12 DEF vars, DepthInv, Shallow
<1> QED BY <1>1, <1>2, <1>3, <1>4, <1>5, <1>6, <1>7, <1>8, <1>9, <1>10, <1>11, <1>12
        DEF Next, LoopStep, EnrichStep, UserStep

LEMMA DepthHolds == Spec => []DepthInv
<1>1. Init => DepthInv
  BY DepthsOf DEF Init, DepthInv, Shallow
<1> QED BY <1>1, NextDepth, SessionInvariant, PTL DEF Spec

\* No page and no queued visit is deeper than the setting, for any site and however sessions,
\* redirects and the developer's visits follow on each other.
THEOREM DepthIsLimited == Spec => []DepthLimit
<1>1. DepthInv => DepthLimit
  BY DEF DepthInv, DepthLimit, Shallow, VisitsQueued
<1> QED BY <1>1, DepthHolds, PTL

\* Depths and places in a form's list below which the boost decides.
BoostDecides == MaxDepth < 1000 /\ \A c \in Cases : Priority[c] < 900000

LEMMA RankOf ==
  ASSUME NEW t \in Task, NEW b
  PROVE  /\ t.kind = "visit" => Rank(t, b) = Boost(t, b) + (t.depth - (IF t.dev THEN 500 ELSE 0))
         /\ t.kind = "test" => Rank(t, b) = Boost(t, b) + (1000 + Priority[t.of])
         /\ t.kind = "explore_actions" => Rank(t, b) = Boost(t, b) + 5000
         /\ t.kind = "check_links" => Rank(t, b) = Boost(t, b) + 9000
<1>1. CASE t.kind = "visit"
  BY <1>1, SMT DEF Rank
<1>2. CASE t.kind = "test"
  BY <1>2, SMT DEF Rank
<1>3. CASE t.kind = "explore_actions"
  BY <1>3, SMT DEF Rank
<1>4. CASE t.kind = "check_links"
  BY <1>4, SMT DEF Rank
<1>5. t.kind \in {"visit", "test", "explore_actions", "check_links"}
  BY DEF Task, Kinds
<1> QED BY <1>1, <1>2, <1>3, <1>4, <1>5, SMT

\* While the boost decides, a queued task of the boosted route is only left behind for another one
\* of that route, and a visit for none.
LEMMA HeadIsBoosted ==
  ASSUME BoostDecides,
         NEW q \in SUBSET Task, KeysUnique(q), Shallow(q), NEW b, NEW h \in Heads(q, b), NEW t \in q \ {h},
         RouteOfTask(t) = b, t.kind # "check_links"
  PROVE  RouteOfTask(h) = b /\ t.kind # "visit"
<1>1. h \in Task /\ t \in Task /\ h \in q /\ h.depth <= MaxDepth /\ t.depth <= MaxDepth
  BY DEF Heads, Shallow
<1>2. /\ h.depth \in Nat /\ t.depth \in Nat /\ h.kind \in Kinds /\ t.kind \in Kinds
      /\ h.kind = "test" => h.of \in Cases /\ Priority[h.of] \in Nat
      /\ t.kind = "test" => t.of \in Cases /\ Priority[t.of] \in Nat
  BY <1>1, TaskQueueAssumption DEF Task
<1>3. Rank(h, b) <= Rank(t, b)
  BY DEF Heads
<1>4. /\ t.kind = "visit" => t.depth < 1000
      /\ t.kind = "test" => Priority[t.of] < 900000
      /\ MaxDepth \in Nat
  BY <1>1, <1>2, DepthsOf, SMT DEF BoostDecides
<1>5. Rank(t, b) \in Int /\ Rank(t, b) < -90000 /\ (t.kind = "visit" => Rank(t, b) < -999000)
  <2>1. Boost(t, b) = -1000000
    BY SMT DEF Boost
  <2> QED BY <1>1, <1>2, <1>4, <2>1, RankOf, SMT DEF Kinds
<1>6. ASSUME Boost(h, b) = 0 PROVE Rank(h, b) \in Int /\ Rank(h, b) >= -500
  BY <1>1, <1>2, <1>6, RankOf, SMT DEF Kinds
<1>7. RouteOfTask(h) = b /\ h.kind # "check_links" /\ Boost(h, b) = -1000000
  <2>1. Boost(h, b) # 0
    BY <1>3, <1>5, <1>6, SMT
  <2> QED BY <2>1, SMT DEF Boost
<1>8. h.kind # "visit" => Rank(h, b) \in Int /\ Rank(h, b) >= -999000
  BY <1>1, <1>2, <1>7, RankOf, SMT DEF Kinds
<1>9. t.kind # "visit"
  <2> SUFFICES ASSUME t.kind = "visit" PROVE FALSE
    OBVIOUS
  <2>1. h.kind = "visit"
    BY <1>3, <1>5, <1>8, SMT
  <2>2. h.of = b /\ t.of = b
    BY <1>7, <2>1, SMT DEF RouteOfTask
  <2>3. TaskKey(h) = TaskKey(t)
    BY <2>1, <2>2, SMT DEF TaskKey
  <2> QED BY <1>1, <2>3, SMT DEF KeysUnique
<1> QED BY <1>7, <1>9, SMT

\* What the loop's head goes to work on.
LEMMA LoopHeadBoosts ==
  ASSUME BoostDecides,
         NEW st, NEW q \in SUBSET Task, KeysUnique(q), Shallow(q), LoopHead(st, q), pc' \notin {"idle", "caughtup"},
         NEW t \in queue', RouteOfTask(t) = boosted', t.kind # "check_links"
  PROVE  RouteOfTask(task') = boosted' /\ t.kind # "visit"
<1>1. PICK h \in Heads(q, boosted') : BeginTask(h) /\ queue' = q \ {h}
  BY DEF LoopHead, AtRest
<1>2. RouteOfTask(h) = boosted' /\ t.kind # "visit"
  BY <1>1, HeadIsBoosted
<1>3. task' = h \/ \E d : task' = At(h, d)
  BY <1>1 DEF BeginTask, BeginVisit, BeginExplore, BeginTest
<1>4. \A d : RouteOfTask(At(h, d)) = RouteOfTask(h)
  BY DEF RouteOfTask, At
<1> QED BY <1>2, <1>3, <1>4

\* The developer's route comes first, for any site whose depth setting and whose lists of cases
\* stay below the sizes that the queue's ranks allow for.
THEOREM BoostedComesFirst ==
  ASSUME BoostDecides PROVE Spec => BoostedFirst
<1> DEFINE First == \A t \in queue' : RouteOfTask(t) = boosted' /\ t.kind # "check_links" =>
                      (RouteOfTask(task') = boosted' /\ t.kind # "visit")
<1>1. ASSUME IInv, DepthInv, [Next]_vars, TakesTask PROVE First
  <2>1. pc \in {"idle", "pace"} /\ pc' \notin {"idle", "caughtup"} /\ task' # task
    BY <1>1 DEF TakesTask
  <2>2. queue \in SUBSET Task /\ KeysUnique(queue) /\ Shallow(queue)
    BY <1>1 DEF IInv, TypeOK, QueueKeysUnique, DepthInv
  <2>3. ASSUME NEW st, NEW q \in SUBSET Task, KeysUnique(q), Shallow(q), LoopHead(st, q) \/ Kick(st, q) PROVE First
    <3>1. LoopHead(st, q)
      BY <2>1, <2>3 DEF Kick, loopVars
    <3> QED BY <2>1, <2>3, <3>1, LoopHeadBoosts
  <2>4. CASE LoopStep
    <3>1. CASE NextTask
      BY <2>2, <2>3, <3>1 DEF NextTask
    <3>2. CASE ~NextTask
      BY <2>1, <2>4, <3>2 DEF LoopStep, VisitScanned, ClickRevealed, VisitFailed, VisitDone,
              LinksChecked, ExploreReady, ClickNothing, ClickNavigated, TestReady, TestEndsEarly,
              TestSubmits, TestSettled, TaskThrows, CaughtUp
    <3> QED BY <3>1, <3>2
  <2>5. CASE EnrichStep
    BY <2>1, <2>5 DEF EnrichStep, EnrichDropped, EnrichMerged, loopVars
  <2>6. CASE StartNew
    <3>1. PICK r \in Routes :
            Kick("live", {Visit(Root, 0, FALSE)} \cup (IF r = Root THEN {} ELSE {Visit(r, 0, TRUE)}))
      BY <2>6 DEF StartNew
    <3> DEFINE q == {Visit(Root, 0, FALSE)} \cup (IF r = Root THEN {} ELSE {Visit(r, 0, TRUE)})
    <3>2. q \in SUBSET Task /\ KeysUnique(q) /\ Shallow(q)
      BY StartQueue, StartShallow
    <3>3. Kick("live", q)
      BY <3>1
    <3> HIDE DEF q, First
    <3> QED BY <2>3, <3>2, <3>3
  <2>7. CASE StartSame \/ Resume \/ Tick
    BY <2>2, <2>3, <2>7 DEF StartSame, Resume, Tick, GoLive
  <2>8. CASE Pause \/ Stop \/ UNCHANGED vars
    BY <2>1, <2>8 DEF Pause, Stop, vars, loopVars
  <2>9. ASSUME NEW r \in Routes, DevActivity(r) PROVE First
    <3> DEFINE d == IF r \in DOMAIN pages THEN pages[r] ELSE 0
               q == PushAll(WithoutVisit(queue, r), {Visit(r, d, TRUE)})
    <3>1. d \in Nat /\ d <= MaxDepth
      BY <1>1, DepthsOf DEF IInv, TypeOK, DepthInv
    <3>2. PICK st : Kick(st, q)
      BY <2>9 DEF DevActivity
    <3> HIDE DEF d
    <3>3. q \in SUBSET Task /\ KeysUnique(q)
      BY <1>1, <3>1, DevQueue
    <3>4. Shallow(q)
      BY <2>2, <3>1, DevShallow
    <3> HIDE DEF q, First
    <3> QED BY <2>3, <3>2, <3>3, <3>4
  <2> QED BY <1>1, <2>4, <2>5, <2>6, <2>7, <2>8, <2>9 DEF Next, UserStep
<1>2. IInv /\ DepthInv /\ [Next]_vars => [TakesTask => First]_vars
  BY <1>1
<1> QED BY <1>2, SessionInvariant, DepthHolds, PTL DEF Spec, BoostedFirst

-----------------------------------------------------------------------------
(* The plans the session asks for: GeminiPlans.                            *)
(*                                                                         *)
(* JobInv: a signature is in `inflight` exactly while a job of it is       *)
(* pending, and every job before one that has begun is done.  StoreInv: a  *)
(* storage request belongs to one ask that reads or one job that stores,   *)
(* and a write carries the stored plans with its own on top, since no      *)
(* other job can have written meanwhile.  PutsInv, on top of it: what is   *)
(* stored stands in the order of its last puts, and what was evicted was   *)
(* put before all of it.                                                   *)

PendingStages == {"queued", "fetching", "storing"}
BegunStages == {"fetching", "storing", "done"}

RequestSet == [op : {"getPlan", "read", "write"}, by : Asks, order : Seq(Signatures)]

TypeInv ==
    /\ ask \in [Asks -> {"new", "reading", "waiting", "answered", "lost"}]
    /\ job \in [Asks -> Stages] /\ chain \in Seq(Asks)
    /\ inflight \in [Signatures -> Asks \cup {NoAsk}]
    /\ storage \in Seq(RequestSet)
    /\ order \in Seq(Signatures)

FlightInv ==
    /\ \A j \in Asks : job[j] \in PendingStages => inflight[SignatureOf[j]] = j
    /\ \A s \in Signatures :
         inflight[s] # NoAsk => SignatureOf[inflight[s]] = s /\ job[inflight[s]] \in PendingStages
    /\ \A a \in Asks : ask[a] \in {"new", "reading"} => job[a] = "none"

ChainInv ==
    /\ \A j \in Asks : job[j] # "none" => \E i \in 1..Len(chain) : chain[i] = j
    /\ \A i \in 1..Len(chain) : job[chain[i]] # "none"
    /\ \A i, k \in 1..Len(chain) : chain[i] = chain[k] => i = k
    /\ \A i, k \in 1..Len(chain) : i < k /\ job[chain[k]] \in BegunStages => job[chain[i]] = "done"

\* Requests q fit asks, jobs and stored signatures.
Fits(r, asks, jobs, stored) ==
    /\ r.op = "getPlan" => asks[r.by] = "reading"
    /\ r.op # "getPlan" => jobs[r.by] = "storing"
    /\ r.op = "write" => r.order = WithPlan(stored, SignatureOf[r.by])

AllFit(q, asks, jobs, stored) ==
    /\ \A i \in 1..Len(q) : Fits(q[i], asks, jobs, stored)
    /\ \A i, k \in 1..Len(q) : q[i].by = q[k].by => i = k

StoreInv == AllFit(storage, ask, job, order)

UnknownInv == \A j \in Asks : job[j] = "queued" /\ Contains(order, SignatureOf[j]) => j \in blind

Inv == TypeInv /\ FlightInv /\ ChainInv /\ StoreInv /\ UnknownInv

-----------------------------------------------------------------------------
(* Facts about data. *)

LEMMA NewestStored ==
  ASSUME NEW S, NEW o \in Seq(S)
  PROVE  Newest(o) \in Seq(S) /\ \A t : Contains(Newest(o), t) => Contains(o, t)
<1>1. MaxPlans \in Nat /\ MaxPlans > 0
  BY GeminiPlansAssumption
<1>2. CASE Len(o) > MaxPlans
  <2>1. Newest(o) = SubSeq(o, Len(o) - MaxPlans + 1, Len(o))
    BY <1>2 DEF Newest
  <2>2. Len(o) - MaxPlans + 1 \in 1..Len(o) /\ Len(o) \in Nat
    BY <1>1, <1>2
  <2>3. Len(Newest(o)) = MaxPlans
        /\ \A i \in 1..MaxPlans : Newest(o)[i] = o[Len(o) - MaxPlans + i] /\ Len(o) - MaxPlans + i \in 1..Len(o)
    BY <1>1, <1>2, <2>1, <2>2
  <2>4. Newest(o) \in Seq(S)
    BY <2>1, <2>2
  <2> QED BY <2>3, <2>4 DEF Contains
<1>3. CASE ~(Len(o) > MaxPlans)
  BY <1>3 DEF Newest
<1> QED BY <1>2, <1>3

LEMMA ConcatElements ==
  ASSUME NEW S, NEW f \in Seq(S), NEW g \in Seq(S)
  PROVE  /\ f \o g \in Seq(S) /\ Len(f \o g) = Len(f) + Len(g)
         /\ \A i \in 1..(Len(f) + Len(g)) : (f \o g)[i] = IF i <= Len(f) THEN f[i] ELSE g[i - Len(f)]
OBVIOUS

\* What is left of a sequence when an element is taken out, if it has it.
LEMMA WithoutElements ==
  ASSUME NEW S, NEW o \in Seq(S), NEW s
  PROVE  /\ Without(o, s) \in Seq(S)
         /\ \/ ~Contains(o, s) /\ Without(o, s) = o
            \/ \E n \in 1..Len(o) :
                 /\ o[n] = s /\ Len(Without(o, s)) = Len(o) - 1
                 /\ \A i \in 1..(Len(o) - 1) : Without(o, s)[i] = (IF i < n THEN o[i] ELSE o[i + 1])
<1>1. CASE Contains(o, s)
  <2>1. PICK n \in 1..Len(o) : n = (CHOOSE i \in DOMAIN o : o[i] = s) /\ o[n] = s
    <3>1. \E i \in DOMAIN o : o[i] = s
      BY <1>1 DEF Contains
    <3> QED BY <3>1
  <2>2. Without(o, s) = SubSeq(o, 1, n - 1) \o SubSeq(o, n + 1, Len(o))
    BY <1>1, <2>1 DEF Without, RemoveAt
  <2> DEFINE front == SubSeq(o, 1, n - 1)
             rest == SubSeq(o, n + 1, Len(o))
  <2>3. front \in Seq(S) /\ Len(front) = n - 1 /\ \A i \in 1..(n - 1) : front[i] = o[i]
    <3>1. n - 1 \in 0..Len(o) /\ n \in Nat
      BY <2>1
    <3> HIDE DEF front
    <3>2. \A m \in 0..Len(o) : /\ SubSeq(o, 1, m) \in Seq(S) /\ Len(SubSeq(o, 1, m)) = m
                               /\ \A i \in 1..m : SubSeq(o, 1, m)[i] = o[i]
      OBVIOUS
    <3> QED BY <3>1, <3>2 DEF front
  <2>4. rest \in Seq(S) /\ Len(rest) = Len(o) - n /\ \A i \in 1..(Len(o) - n) : rest[i] = o[i + n]
    <3>1. \A m \in 2..(Len(o) + 1) :
            /\ SubSeq(o, m, Len(o)) \in Seq(S) /\ Len(SubSeq(o, m, Len(o))) = Len(o) - m + 1
            /\ \A i \in 1..(Len(o) - m + 1) : SubSeq(o, m, Len(o))[i] = o[m + i - 1]
      OBVIOUS
    <3>2. n + 1 \in 2..(Len(o) + 1) /\ n \in Nat /\ Len(o) \in Nat
      BY <2>1
    <3> HIDE DEF rest
    <3>3. \A i \in 1..(Len(o) - n) : SubSeq(o, n + 1, Len(o))[i] = o[i + n]
      <4>1. Len(o) - (n + 1) + 1 = Len(o) - n /\ \A i \in Int : (n + 1) + i - 1 = i + n
        BY <3>2
      <4> QED BY <3>1, <3>2, <4>1
    <3>4. SubSeq(o, n + 1, Len(o)) \in Seq(S) /\ Len(SubSeq(o, n + 1, Len(o))) = Len(o) - n
      BY <3>1, <3>2
    <3> QED BY <3>3, <3>4 DEF rest
  <2> HIDE DEF front, rest
  <2>5. /\ front \o rest \in Seq(S) /\ Len(front \o rest) = Len(front) + Len(rest)
        /\ \A i \in 1..(Len(front) + Len(rest)) :
             (front \o rest)[i] = IF i <= Len(front) THEN front[i] ELSE rest[i - Len(front)]
    BY <2>3, <2>4, ConcatElements
  <2>6. Without(o, s) = front \o rest
    BY <2>2 DEF front, rest
  <2>7. ASSUME NEW i \in 1..(Len(o) - 1)
        PROVE  (front \o rest)[i] = (IF i < n THEN o[i] ELSE o[i + 1])
    <3>1. CASE i <= Len(front)
      <4>1. i \in 1..(n - 1) /\ (front \o rest)[i] = front[i]
        BY <2>1, <2>3, <2>4, <2>5, <3>1
      <4> QED BY <2>3, <4>1
    <3>2. CASE i > Len(front)
      <4>1. /\ n \in Nat /\ Len(o) \in Nat /\ i \in Nat /\ Len(front) = n - 1 /\ Len(rest) = Len(o) - n
            /\ i \in 1..(Len(front) + Len(rest))
        BY <2>1, <2>3, <2>4
      <4>2. (front \o rest)[i] = rest[i - Len(front)]
        BY <2>5, <3>2, <4>1
      <4>3. i - Len(front) \in 1..(Len(o) - n) /\ i - Len(front) + n = i + 1 /\ ~(i < n)
        BY <3>2, <4>1
      <4> QED BY <2>4, <4>2, <4>3
    <3>3. i <= Len(front) \/ i > Len(front)
      <4>1. Len(front) \in Int /\ i \in Int
        BY <2>1, <2>3
      <4> QED BY <4>1
    <3> QED BY <3>1, <3>2, <3>3, Zenon
  <2>8. Len(front \o rest) = Len(o) - 1
    BY <2>1, <2>3, <2>4, <2>5
  <2> QED BY <2>1, <2>5, <2>6, <2>7, <2>8
<1>2. CASE ~Contains(o, s)
  BY <1>2 DEF Without
<1> QED BY <1>1, <1>2

LEMMA WithoutStored ==
  ASSUME NEW S, NEW o \in Seq(S), NEW s
  PROVE  Without(o, s) \in Seq(S) /\ \A t : Contains(Without(o, s), t) => Contains(o, t)
<1>1. CASE ~Contains(o, s) /\ Without(o, s) = o
  BY <1>1
<1>2. CASE \E n \in 1..Len(o) :
             /\ o[n] = s /\ Len(Without(o, s)) = Len(o) - 1
             /\ \A i \in 1..(Len(o) - 1) : Without(o, s)[i] = (IF i < n THEN o[i] ELSE o[i + 1])
  <2>1. Without(o, s) \in Seq(S)
    BY WithoutElements
  <2> QED BY <1>2, <2>1 DEF Contains
<1> QED BY <1>1, <1>2, WithoutElements

\* A put adds its signature and no other.
LEMMA WithPlanStored ==
  ASSUME NEW o \in Seq(Signatures), NEW s \in Signatures
  PROVE  /\ WithPlan(o, s) \in Seq(Signatures)
         /\ \A t : Contains(WithPlan(o, s), t) => t = s \/ Contains(o, t)
<1> DEFINE w == Without(o, s)
<1>1. w \in Seq(Signatures) /\ \A t : Contains(w, t) => Contains(o, t)
  BY WithoutStored
<1> HIDE DEF w
<1>2. Append(w, s) \in Seq(Signatures) /\ \A t : Contains(Append(w, s), t) => t = s \/ Contains(w, t)
  BY <1>1 DEF Contains
<1>3. WithPlan(o, s) = Newest(Append(w, s))
  BY DEF WithPlan, w
<1> QED BY <1>1, <1>2, <1>3, NewestStored

\* What is left of a sequence when its first element is taken.
LEMMA TailElements ==
  ASSUME NEW S, NEW q \in Seq(S), q # <<>>
  PROVE  /\ Head(q) = q[1] /\ q[1] \in S /\ 1 \in 1..Len(q)
         /\ Tail(q) \in Seq(S) /\ Len(Tail(q)) = Len(q) - 1
         /\ \A i \in 1..Len(Tail(q)) : Tail(q)[i] = q[i + 1] /\ i + 1 \in 1..Len(q) /\ i + 1 # 1
OBVIOUS

LEMMA RequestBy ==
  ASSUME NEW q \in Seq(RequestSet), NEW i \in 1..Len(q)
  PROVE  q[i] \in RequestSet /\ q[i].by \in Asks
<1>1. q[i] \in RequestSet
  OBVIOUS
<1>2. \A r \in RequestSet : r.by \in Asks
  BY DEF RequestSet
<1> QED BY <1>1, <1>2

-----------------------------------------------------------------------------
(* Consequences of the invariant. *)

\* No two jobs are past the chain's wait and not done.
LEMMA OneBegun ==
  ASSUME Inv, NEW j \in Asks, NEW k \in Asks, job[j] \in {"fetching", "storing"},
         job[k] \in {"fetching", "storing"}
  PROVE  j = k
<1>1. PICK i \in 1..Len(chain) : chain[i] = j
  BY DEF Inv, ChainInv
<1>2. PICK n \in 1..Len(chain) : chain[n] = k
  BY DEF Inv, ChainInv
<1>3. ~(i < n) /\ ~(n < i)
  BY <1>1, <1>2 DEF Inv, ChainInv, BegunStages
<1>4. i = n
  BY <1>3
<1> QED BY <1>1, <1>2, <1>4

\* Two pending jobs are about different signatures.
LEMMA OnePending ==
  ASSUME Inv, NEW j \in Asks, NEW k \in Asks, job[j] \in PendingStages, job[k] \in PendingStages,
         SignatureOf[j] = SignatureOf[k]
  PROVE  j = k
BY DEF Inv, FlightInv

\* An ask that does not read and a job that does not store have no request in storage.
LEMMA NoRequest ==
  ASSUME Inv, NEW a \in Asks, ask[a] # "reading", job[a] # "storing", NEW i \in 1..Len(storage)
  PROVE  storage[i].by # a
BY DEF Inv, StoreInv, AllFit, Fits, TypeInv, RequestSet

-----------------------------------------------------------------------------
(* Steps. *)

\* A job settles, which takes nothing else out of flight and lets its successor begin.
LEMMA SettleKeeps ==
  ASSUME Inv, NEW j \in Asks, job[j] \in PendingStages, PredecessorDone(j) \/ job[j] \in BegunStages, Settle(j)
  PROVE  /\ job' = [job EXCEPT ![j] = "done"] /\ job' \in [Asks -> Stages]
         /\ ask' \in [Asks -> {"new", "reading", "waiting", "answered", "lost"}]
         /\ inflight' \in [Signatures -> Asks \cup {NoAsk}] /\ chain' = chain
         /\ \A a \in Asks : ask'[a] = "reading" <=> ask[a] = "reading"
         /\ FlightInv' /\ ChainInv'
<1>1. /\ job' = [job EXCEPT ![j] = "done"] /\ chain' = chain
      /\ inflight' = [inflight EXCEPT ![SignatureOf[j]] = NoAsk]
      /\ ask' = [a \in Asks |-> IF waitsFor[a] = j /\ ask[a] = "waiting" THEN "answered" ELSE ask[a]]
  BY DEF Settle
<1>2. SignatureOf[j] \in Signatures /\ NoAsk \notin Asks /\ SignatureOf \in [Asks -> Signatures]
  BY GeminiPlansAssumption
<1>3. job' \in [Asks -> Stages] /\ inflight' \in [Signatures -> Asks \cup {NoAsk}]
  BY <1>1, <1>2 DEF Inv, TypeInv, Stages
<1>4. /\ ask' \in [Asks -> {"new", "reading", "waiting", "answered", "lost"}]
      /\ \A a \in Asks : ask'[a] \in {"new", "reading"} => ask[a] = ask'[a]
      /\ \A a \in Asks : ask[a] = "reading" => ask'[a] = "reading"
  BY <1>1 DEF Inv, TypeInv
<1>5. job'[j] = "done" /\ \A k \in Asks \ {j} : job'[k] = job[k]
  BY <1>1 DEF Inv, TypeInv
<1>6. /\ inflight'[SignatureOf[j]] = NoAsk
      /\ \A s \in Signatures \ {SignatureOf[j]} : inflight'[s] = inflight[s]
  BY <1>1, <1>2 DEF Inv, TypeInv
<1>7. FlightInv'
  <2>1. ASSUME NEW k \in Asks, job'[k] \in PendingStages PROVE inflight'[SignatureOf[k]] = k
    <3>1. k # j /\ job[k] \in PendingStages
      BY <1>5, <2>1 DEF PendingStages
    <3>2. SignatureOf[k] # SignatureOf[j]
      BY <3>1, OnePending
    <3> QED BY <1>2, <1>6, <3>1, <3>2 DEF Inv, FlightInv
  <2>2. ASSUME NEW s \in Signatures, inflight'[s] # NoAsk
        PROVE  SignatureOf[inflight'[s]] = s /\ job'[inflight'[s]] \in PendingStages
    <3>1. s # SignatureOf[j] /\ inflight'[s] = inflight[s]
      BY <1>6, <2>2
    <3>2. SignatureOf[inflight[s]] = s /\ job[inflight[s]] \in PendingStages /\ inflight[s] # j /\ inflight[s] \in Asks
      BY <2>2, <3>1 DEF Inv, FlightInv, TypeInv
    <3> QED BY <1>5, <3>1, <3>2 DEF PendingStages
  <2>3. \A a \in Asks : ask'[a] \in {"new", "reading"} => job'[a] = "none"
    <3>1. job[j] # "none"
      BY DEF PendingStages
    <3> QED BY <1>4, <1>5, <3>1 DEF Inv, FlightInv
  <2> QED BY <2>1, <2>2, <2>3 DEF FlightInv
<1>8. ChainInv'
  <2>1. \A i \in 1..Len(chain) : chain[i] \in Asks
    BY DEF Inv, TypeInv
  <2>2. \A k \in Asks : job'[k] # "none" <=> job[k] # "none"
    BY <1>5 DEF PendingStages
  <2>3. ASSUME NEW i \in 1..Len(chain), NEW k \in 1..Len(chain), i < k, job'[chain[k]] \in BegunStages
        PROVE  job'[chain[i]] = "done"
    <3>1. CASE chain[k] = j
      <4>1. CASE job[j] \in BegunStages
        BY <1>5, <2>1, <2>3, <3>1, <4>1 DEF Inv, ChainInv
      <4>2. CASE PredecessorDone(j)
        <5>1. k \in 2..Len(chain) /\ job[chain[k - 1]] = "done" /\ k - 1 \in 1..Len(chain)
          BY <2>3, <3>1, <4>2 DEF PredecessorDone
        <5>2. i = k - 1 \/ i < k - 1
          BY <2>3
        <5>3. job[chain[i]] = "done"
          BY <5>1, <5>2 DEF Inv, ChainInv, BegunStages
        <5> QED BY <1>5, <2>1, <5>3
      <4> QED BY <4>1, <4>2
    <3>2. CASE chain[k] # j
      <4>1. job[chain[k]] \in BegunStages
        BY <1>5, <2>1, <2>3, <3>2 DEF BegunStages
      <4>2. job[chain[i]] = "done"
        BY <2>3, <4>1 DEF Inv, ChainInv
      <4> QED BY <1>5, <2>1, <4>2
    <3> QED BY <3>1, <3>2
  <2> QED BY <1>1, <2>1, <2>2, <2>3 DEF ChainInv, Inv
<1> QED BY <1>1, <1>3, <1>4, <1>7, <1>8

\* An ask whose look into the cache failed shares a pending job or chains a new one.
LEMMA ShareOrCallKeeps ==
  ASSUME Inv, NEW a \in Asks, ask[a] = "reading", ShareOrCall(a)
  PROVE  /\ ask' = [ask EXCEPT ![a] = "waiting"]
         /\ job' = job \/ job' = [job EXCEPT ![a] = "queued"]
         /\ job' \in [Asks -> Stages] /\ chain' \in Seq(Asks)
         /\ inflight' \in [Signatures -> Asks \cup {NoAsk}]
         /\ FlightInv' /\ ChainInv'
<1> DEFINE s == SignatureOf[a]
<1>1. s \in Signatures /\ ask' = [ask EXCEPT ![a] = "waiting"]
  BY GeminiPlansAssumption DEF ShareOrCall
<1>2. \A b \in Asks : ask'[b] \in {"new", "reading"} => b # a /\ ask[b] = ask'[b]
  BY <1>1 DEF Inv, TypeInv
<1>3. CASE inflight[s] # NoAsk
  <2>1. UNCHANGED <<job, chain, inflight>>
    BY <1>3 DEF ShareOrCall, jobVars
  <2>2. FlightInv' /\ ChainInv'
    BY <1>2, <2>1 DEF Inv, FlightInv, ChainInv
  <2> QED BY <1>1, <2>1, <2>2 DEF Inv, TypeInv
<1>4. CASE inflight[s] = NoAsk
  <2>1. /\ inflight' = [inflight EXCEPT ![s] = a]
        /\ job' = [job EXCEPT ![a] = "queued"] /\ chain' = Append(chain, a)
    BY <1>4 DEF ShareOrCall
  <2>2. job[a] = "none"
    BY DEF Inv, FlightInv
  <2>3. /\ job' \in [Asks -> Stages] /\ chain' \in Seq(Asks)
        /\ inflight' \in [Signatures -> Asks \cup {NoAsk}]
        /\ job'[a] = "queued" /\ \A b \in Asks \ {a} : job'[b] = job[b]
        /\ inflight'[s] = a /\ \A t \in Signatures \ {s} : inflight'[t] = inflight[t]
    BY <1>1, <2>1 DEF Inv, TypeInv, Stages
  <2>4. FlightInv'
    <3>1. ASSUME NEW j \in Asks, job'[j] \in PendingStages PROVE inflight'[SignatureOf[j]] = j
      <4>1. CASE j = a
        BY <2>3, <4>1
      <4>2. CASE j # a
        <5>1. inflight[SignatureOf[j]] = j /\ SignatureOf[j] \in Signatures /\ j # NoAsk
          BY <2>3, <3>1, <4>2, GeminiPlansAssumption DEF Inv, FlightInv
        <5> QED BY <1>4, <2>3, <5>1
      <4> QED BY <4>1, <4>2
    <3>2. ASSUME NEW t \in Signatures, inflight'[t] # NoAsk
          PROVE  SignatureOf[inflight'[t]] = t /\ job'[inflight'[t]] \in PendingStages
      <4>1. CASE t = s
        BY <2>3, <4>1 DEF PendingStages
      <4>2. CASE t # s
        <5>1. inflight'[t] = inflight[t] /\ SignatureOf[inflight[t]] = t
              /\ job[inflight[t]] \in PendingStages /\ inflight[t] \in Asks
          BY <2>3, <3>2, <4>2 DEF Inv, FlightInv, TypeInv
        <5>2. inflight[t] # a
          BY <2>2, <5>1 DEF PendingStages
        <5> QED BY <2>3, <5>1, <5>2
      <4> QED BY <4>1, <4>2
    <3>3. \A b \in Asks : ask'[b] \in {"new", "reading"} => job'[b] = "none"
      BY <1>2, <2>3 DEF Inv, FlightInv
    <3> QED BY <3>1, <3>2, <3>3 DEF FlightInv
  <2>5. ChainInv'
    <3> DEFINE n == Len(chain)
    <3>1. /\ n \in Nat /\ Len(chain') = n + 1 /\ chain'[n + 1] = a
          /\ \A i \in 1..n : chain'[i] = chain[i] /\ chain[i] \in Asks /\ i \in 1..(n + 1) /\ i # n + 1
          /\ \A i \in 1..(n + 1) : i # n + 1 => i \in 1..n
      BY <2>1 DEF Inv, TypeInv
    <3>2. \A i \in 1..n : chain[i] # a
      BY <2>2 DEF Inv, ChainInv
    <3>3. \A j \in Asks : job'[j] # "none" => \E i \in 1..(n + 1) : chain'[i] = j
      BY <2>3, <3>1 DEF Inv, ChainInv
    <3>4. \A i \in 1..(n + 1) : job'[chain'[i]] # "none"
      BY <2>3, <3>1, <3>2 DEF Inv, ChainInv
    <3>5. \A i, k \in 1..(n + 1) : chain'[i] = chain'[k] => i = k
      BY <3>1, <3>2 DEF Inv, ChainInv
    <3>6. \A i, k \in 1..(n + 1) : i < k /\ job'[chain'[k]] \in BegunStages => job'[chain'[i]] = "done"
      <4> SUFFICES ASSUME NEW i \in 1..(n + 1), NEW k \in 1..(n + 1), i < k,
                          job'[chain'[k]] \in BegunStages
                   PROVE  job'[chain'[i]] = "done"
        OBVIOUS
      <4>1. k # n + 1
        BY <2>3, <3>1 DEF BegunStages
      <4>2. k \in 1..n /\ i \in 1..n
        BY <3>1, <4>1
      <4>3. job[chain[k]] \in BegunStages /\ chain'[i] = chain[i] /\ chain[i] # a /\ chain[i] \in Asks
        BY <2>3, <3>1, <3>2, <4>2
      <4>4. job[chain[i]] = "done"
        BY <4>2, <4>3 DEF Inv, ChainInv
      <4> QED BY <2>3, <4>3, <4>4
    <3> HIDE DEF n
    <3> QED BY <3>1, <3>3, <3>4, <3>5, <3>6 DEF ChainInv
  <2> QED BY <1>1, <2>1, <2>3, <2>4, <2>5
<1> QED BY <1>3, <1>4

\* The first request leaves; those of other asks and jobs stay as they are.
LEMMA TailFits ==
  ASSUME NEW q \in Seq(RequestSet), q # <<>>, NEW asks, NEW jobs, NEW stored,
         NEW asks2, NEW jobs2, NEW stored2, AllFit(q, asks, jobs, stored),
         \A a \in Asks \ {q[1].by} :
            (asks[a] = "reading" => asks2[a] = "reading") /\ (jobs[a] = "storing" => jobs2[a] = "storing"),
         stored2 = stored \/ \A i \in 2..Len(q) : q[i].op = "getPlan"
  PROVE  /\ Tail(q) \in Seq(RequestSet) /\ AllFit(Tail(q), asks2, jobs2, stored2)
         /\ \A i \in 1..Len(Tail(q)) : Tail(q)[i].by # q[1].by
<1> DEFINE t == Tail(q)
<1>1. /\ t \in Seq(RequestSet) /\ Len(t) = Len(q) - 1 /\ 1 \in 1..Len(q) /\ Len(q) \in Nat
      /\ \A i \in 1..Len(t) : t[i] = q[i + 1] /\ i + 1 \in 1..Len(q) /\ i + 1 # 1
  BY TailElements
<1> HIDE DEF t
<1>2. \A i \in 1..Len(q) : q[i] \in RequestSet /\ q[i].by \in Asks
  BY RequestBy
<1>3. \A i \in 1..Len(t) : t[i].by # q[1].by
  BY <1>1 DEF AllFit
<1>4. ASSUME NEW i \in 1..Len(t) PROVE Fits(t[i], asks2, jobs2, stored2)
  <2> DEFINE r == t[i]
  <2>1. r = q[i + 1] /\ i + 1 \in 1..Len(q) /\ i + 1 \in 2..Len(q)
    BY <1>1
  <2>2. r.by \in Asks /\ r.by # q[1].by /\ Fits(r, asks, jobs, stored)
    BY <1>2, <1>3, <2>1 DEF AllFit
  <2>3. stored2 = stored \/ r.op = "getPlan"
    BY <2>1
  <2> HIDE DEF r
  <2>4. Fits(r, asks2, jobs2, stored2)
    BY <2>2, <2>3 DEF Fits
  <2> QED BY <2>4 DEF r
<1>5. ASSUME NEW i \in 1..Len(t), NEW k \in 1..Len(t), t[i].by = t[k].by PROVE i = k
  <2>1. q[i + 1].by = q[k + 1].by /\ i + 1 \in 1..Len(q) /\ k + 1 \in 1..Len(q)
    BY <1>1, <1>5
  <2>2. \A x, y \in 1..Len(q) : q[x].by = q[y].by => x = y
    BY DEF AllFit
  <2>3. i + 1 = k + 1
    BY <2>1, <2>2
  <2> QED BY <2>3
<1>6. AllFit(t, asks2, jobs2, stored2)
  BY <1>4, <1>5 DEF AllFit
<1> QED BY <1>1, <1>3, <1>6 DEF t

\* A new request comes, of an ask or a job that has none.
LEMMA AppendFits ==
  ASSUME NEW q \in Seq(RequestSet), NEW asks, NEW jobs, NEW stored, AllFit(q, asks, jobs, stored),
         NEW r \in RequestSet, Fits(r, asks, jobs, stored), \A i \in 1..Len(q) : q[i].by # r.by
  PROVE  Append(q, r) \in Seq(RequestSet) /\ AllFit(Append(q, r), asks, jobs, stored)
<1> DEFINE n == Len(q)
           p == Append(q, r)
<1>1. /\ n \in Nat /\ Len(p) = n + 1 /\ p[n + 1] = r /\ p \in Seq(RequestSet)
      /\ \A i \in 1..n : p[i] = q[i]
      /\ \A i \in 1..(n + 1) : i # n + 1 => i \in 1..n
  OBVIOUS
<1> HIDE DEF n, p
<1>2. \A i \in 1..(n + 1) : Fits(p[i], asks, jobs, stored)
  BY <1>1 DEF AllFit, n
<1>3. \A i, k \in 1..(n + 1) : p[i].by = p[k].by => i = k
  BY <1>1 DEF AllFit, n
<1>4. AllFit(p, asks, jobs, stored)
  BY <1>1, <1>2, <1>3 DEF AllFit
<1> QED BY <1>1, <1>4 DEF p

\* Requests stay as they are when asks go on reading and jobs go on storing.
LEMMA SameFits ==
  ASSUME NEW q \in Seq(RequestSet), NEW asks, NEW jobs, NEW stored, NEW asks2, NEW jobs2,
         AllFit(q, asks, jobs, stored),
         \A i \in 1..Len(q) : /\ asks[q[i].by] = "reading" => asks2[q[i].by] = "reading"
                              /\ jobs[q[i].by] = "storing" => jobs2[q[i].by] = "storing"
  PROVE  AllFit(q, asks2, jobs2, stored)
BY DEF AllFit, Fits

-----------------------------------------------------------------------------
(* The invariant is inductive. *)

\* A job that does not store, of an ask that does not read, has no request.
LEMMA AskKeeps == ASSUME Inv, NEW a \in Asks, Ask(a) PROVE Inv'
<1>1. /\ ask[a] = "new" /\ ask' = [ask EXCEPT ![a] = "reading"]
      /\ storage' = Append(storage, Request("getPlan", a, <<>>))
      /\ UNCHANGED <<job, chain, inflight, order, blind>>
  BY DEF Ask, jobVars
<1>2. ask' \in [Asks -> {"new", "reading", "waiting", "answered", "lost"}]
      /\ ask'[a] = "reading" /\ \A b \in Asks \ {a} : ask'[b] = ask[b]
  BY <1>1 DEF Inv, TypeInv
<1>3. job[a] = "none"
  BY <1>1 DEF Inv, FlightInv
<1>4. \A i \in 1..Len(storage) : storage[i].by # a
  BY <1>1, <1>3, NoRequest
<1>5. storage \in Seq(RequestSet) /\ AllFit(storage, ask, job, order)
  BY DEF Inv, TypeInv, StoreInv
<1>6. \A i \in 1..Len(storage) : storage[i].by \in Asks
  BY <1>5, RequestBy
<1>7. AllFit(storage, ask', job', order')
  BY <1>1, <1>2, <1>4, <1>5, <1>6, SameFits
<1> DEFINE r == Request("getPlan", a, <<>>)
<1>8. r \in RequestSet /\ r.by = a /\ Fits(r, ask', job', order')
  BY <1>2 DEF Request, RequestSet, Fits
<1> HIDE DEF r
<1>9. Append(storage, r) \in Seq(RequestSet) /\ AllFit(Append(storage, r), ask', job', order')
  BY <1>4, <1>5, <1>7, <1>8, AppendFits
<1>10. storage' \in Seq(RequestSet) /\ StoreInv'
  BY <1>1, <1>9 DEF StoreInv, r
<1>11. TypeInv'
  BY <1>1, <1>2, <1>10 DEF Inv, TypeInv
<1>12. FlightInv'
  BY <1>1, <1>2, <1>3 DEF Inv, FlightInv
<1>13. ChainInv' /\ UnknownInv'
  BY <1>1 DEF Inv, ChainInv, UnknownInv
<1> QED BY <1>10, <1>11, <1>12, <1>13 DEF Inv

\* A job that has no request settles.
LEMMA SettleWithoutRequest ==
  ASSUME Inv, NEW j \in Asks, job[j] \in {"queued", "fetching"}, PredecessorDone(j) \/ job[j] \in BegunStages,
         Settle(j), UNCHANGED <<storeVars, blind>>
  PROVE  Inv'
<1>1. /\ job' = [job EXCEPT ![j] = "done"] /\ job' \in [Asks -> Stages]
      /\ ask' \in [Asks -> {"new", "reading", "waiting", "answered", "lost"}]
      /\ inflight' \in [Signatures -> Asks \cup {NoAsk}] /\ chain' = chain
      /\ \A a \in Asks : ask'[a] = "reading" <=> ask[a] = "reading"
      /\ FlightInv' /\ ChainInv'
  BY SettleKeeps DEF PendingStages
<1>2. storage' = storage /\ order' = order /\ blind' = blind
  BY DEF storeVars
<1>3. storage \in Seq(RequestSet) /\ AllFit(storage, ask, job, order)
  BY DEF Inv, TypeInv, StoreInv
<1>4. \A i \in 1..Len(storage) : storage[i].by \in Asks
  BY <1>3, RequestBy
<1>5. \A a \in Asks : job[a] = "storing" => job'[a] = "storing"
  BY <1>1 DEF Inv, TypeInv
<1>6. AllFit(storage, ask', job', order)
  <2>1. \A a \in Asks : ask[a] = "reading" => ask'[a] = "reading"
    BY <1>1
  <2> QED BY <1>3, <1>4, <1>5, <2>1, SameFits
<1>7. StoreInv'
  BY <1>2, <1>6 DEF StoreInv
<1>8. TypeInv'
  BY <1>1, <1>2 DEF Inv, TypeInv
<1>9. UnknownInv'
  BY <1>1, <1>2 DEF Inv, TypeInv, UnknownInv
<1> QED BY <1>1, <1>7, <1>8, <1>9 DEF Inv

\* A job begins its call.
LEMMA CallKeeps == ASSUME Inv, NEW j \in Asks, Call(j) PROVE Inv'
<1>1. job[j] = "queued" /\ PredecessorDone(j) /\ UNCHANGED <<storeVars, blind>>
  BY DEF Call
<1>2. CASE offline
  BY <1>1, <1>2, SettleWithoutRequest DEF Call
<1>3. CASE ~offline
  <2>1. job' = [job EXCEPT ![j] = "fetching"] /\ UNCHANGED <<ask, waitsFor, chain, inflight>>
    BY <1>3 DEF Call
  <2>2. UNCHANGED <<storage, order, blind>>
    BY <1>1 DEF storeVars
  <2>3. /\ job' \in [Asks -> Stages] /\ job'[j] = "fetching" /\ \A k \in Asks \ {j} : job'[k] = job[k]
    BY <2>1 DEF Inv, TypeInv, Stages
  <2>4. TypeInv'
    BY <2>1, <2>2, <2>3 DEF Inv, TypeInv
  <2>5. FlightInv'
    BY <1>1, <2>1, <2>3 DEF Inv, FlightInv, PendingStages, TypeInv
  <2>6. ChainInv'
    <3>1. \A i \in 1..Len(chain) : chain[i] \in Asks
      BY DEF Inv, TypeInv
    <3>2. \A k \in Asks : job'[k] # "none" <=> job[k] # "none"
      BY <1>1, <2>3
    <3>3. ASSUME NEW i \in 1..Len(chain), NEW k \in 1..Len(chain), i < k, job'[chain[k]] \in BegunStages
          PROVE  job'[chain[i]] = "done"
      <4>1. CASE chain[k] = j
        <5>1. k \in 2..Len(chain) /\ job[chain[k - 1]] = "done" /\ k - 1 \in 1..Len(chain)
          BY <1>1, <3>3, <4>1 DEF PredecessorDone
        <5>2. i = k - 1 \/ i < k - 1
          BY <3>3
        <5>3. job[chain[i]] = "done"
          BY <5>1, <5>2 DEF Inv, ChainInv, BegunStages
        <5> QED BY <1>1, <2>3, <3>1, <5>3
      <4>2. CASE chain[k] # j
        <5>1. job[chain[k]] \in BegunStages
          BY <2>3, <3>1, <3>3, <4>2
        <5>2. job[chain[i]] = "done"
          BY <3>3, <5>1 DEF Inv, ChainInv
        <5> QED BY <1>1, <2>3, <3>1, <5>2
      <4> QED BY <4>1, <4>2
    <3> QED BY <2>1, <3>1, <3>2, <3>3 DEF Inv, ChainInv
  <2>7. StoreInv'
    <3>1. storage \in Seq(RequestSet) /\ AllFit(storage, ask, job, order)
      BY DEF Inv, TypeInv, StoreInv
    <3>2. \A i \in 1..Len(storage) : storage[i].by \in Asks
      BY <3>1, RequestBy
    <3>3. \A a \in Asks : job[a] = "storing" => job'[a] = "storing"
      BY <1>1, <2>3
    <3>4. AllFit(storage, ask, job', order)
      BY <3>1, <3>2, <3>3, SameFits
    <3> QED BY <2>1, <2>2, <3>4 DEF StoreInv
  <2>8. UnknownInv'
    BY <2>2, <2>3 DEF Inv, UnknownInv
  <2> QED BY <2>4, <2>5, <2>6, <2>7, <2>8 DEF Inv
<1> QED BY <1>2, <1>3

LEMMA CallFailsKeeps == ASSUME Inv, NEW j \in Asks, CallFails(j) PROVE Inv'
<1>1. job[j] = "fetching" /\ Settle(j) /\ UNCHANGED <<storeVars, blind>>
  BY DEF CallFails
<1> QED BY <1>1, SettleWithoutRequest DEF BegunStages

\* The plan is there: the job's first request goes to the storage.
LEMMA AnswerKeeps == ASSUME Inv, NEW j \in Asks, Answer(j) PROVE Inv'
<1>1. /\ job[j] = "fetching" /\ job' = [job EXCEPT ![j] = "storing"]
      /\ storage' = Append(storage, Request("read", j, <<>>))
      /\ UNCHANGED <<ask, chain, inflight, order, blind>>
  BY DEF Answer
<1>2. /\ job' \in [Asks -> Stages] /\ job'[j] = "storing" /\ \A k \in Asks \ {j} : job'[k] = job[k]
  BY <1>1 DEF Inv, TypeInv, Stages
<1>3. ask[j] # "reading"
  BY <1>1 DEF Inv, FlightInv
<1>4. storage \in Seq(RequestSet) /\ AllFit(storage, ask, job, order)
  BY DEF Inv, TypeInv, StoreInv
<1>5. \A i \in 1..Len(storage) : storage[i].by \in Asks /\ storage[i].by # j
  BY <1>1, <1>3, <1>4, NoRequest, RequestBy
<1>6. AllFit(storage, ask, job', order)
  BY <1>2, <1>4, <1>5, SameFits
<1> DEFINE r == Request("read", j, <<>>)
<1>7. r \in RequestSet /\ r.by = j /\ Fits(r, ask, job', order)
  BY <1>2 DEF Request, RequestSet, Fits
<1> HIDE DEF r
<1>8. Append(storage, r) \in Seq(RequestSet) /\ AllFit(Append(storage, r), ask, job', order)
  BY <1>4, <1>5, <1>6, <1>7, AppendFits
<1>9. storage' \in Seq(RequestSet) /\ StoreInv'
  BY <1>1, <1>8 DEF StoreInv, r
<1>10. TypeInv'
  BY <1>1, <1>2, <1>9 DEF Inv, TypeInv
<1>11. FlightInv'
  BY <1>1, <1>2 DEF Inv, FlightInv, PendingStages, TypeInv
<1>12. ChainInv'
  <2>1. \A i \in 1..Len(chain) : chain[i] \in Asks
    BY DEF Inv, TypeInv
  <2>2. \A k \in Asks : (job'[k] # "none" <=> job[k] # "none")
          /\ (job'[k] \in BegunStages <=> job[k] \in BegunStages) /\ (job'[k] = "done" <=> job[k] = "done")
    BY <1>1, <1>2 DEF BegunStages
  <2> QED BY <1>1, <2>1, <2>2 DEF Inv, ChainInv
<1>13. UnknownInv'
  BY <1>1, <1>2 DEF Inv, UnknownInv
<1> QED BY <1>9, <1>10, <1>11, <1>12, <1>13 DEF Inv

\* The first request: whose it is.
LEMMA FirstRequest ==
  ASSUME Inv, storage # <<>>
  PROVE  /\ Head(storage) = storage[1] /\ storage[1] \in RequestSet /\ storage[1].by \in Asks
         /\ 1 \in 1..Len(storage) /\ storage \in Seq(RequestSet) /\ AllFit(storage, ask, job, order)
         /\ Fits(storage[1], ask, job, order)
<1>1. storage \in Seq(RequestSet) /\ AllFit(storage, ask, job, order)
  BY DEF Inv, TypeInv, StoreInv
<1>2. Head(storage) = storage[1] /\ storage[1] \in RequestSet /\ 1 \in 1..Len(storage)
  BY <1>1, TailElements
<1> QED BY <1>1, <1>2, RequestBy DEF AllFit

\* The cache knows nothing: the ask goes on to share or to call.
LEMMA MissKeeps ==
  ASSUME Inv, storage # <<>>, storage[1].op = "getPlan", storage' = Tail(storage),
         ShareOrCall(storage[1].by), order' = order, blind \subseteq blind',
         ~Contains(order, SignatureOf[storage[1].by]) \/ storage[1].by \in blind'
  PROVE  Inv'
<1> DEFINE a == storage[1].by
<1>1. /\ a \in Asks /\ ask[a] = "reading" /\ storage \in Seq(RequestSet)
      /\ AllFit(storage, ask, job, order)
  BY FirstRequest DEF Fits
<1>2. ShareOrCall(a) /\ (~Contains(order, SignatureOf[a]) \/ a \in blind')
  OBVIOUS
<1> HIDE DEF a
<1>3. /\ ask' = [ask EXCEPT ![a] = "waiting"] /\ FlightInv' /\ ChainInv'
      /\ job' = job \/ job' = [job EXCEPT ![a] = "queued"]
      /\ job' \in [Asks -> Stages] /\ chain' \in Seq(Asks)
      /\ inflight' \in [Signatures -> Asks \cup {NoAsk}]
  BY <1>1, <1>2, ShareOrCallKeeps
<1>4. ask' \in [Asks -> {"new", "reading", "waiting", "answered", "lost"}]
      /\ \A b \in Asks \ {a} : ask'[b] = ask[b] /\ job'[b] = job[b]
  BY <1>3 DEF Inv, TypeInv
<1>5. storage' \in Seq(RequestSet) /\ AllFit(storage', ask', job', order')
  BY <1>1, <1>4, TailFits DEF a
<1>6. TypeInv'
  BY <1>3, <1>4, <1>5 DEF Inv, TypeInv
<1>7. UnknownInv'
  BY <1>2, <1>4 DEF Inv, UnknownInv
<1> QED BY <1>3, <1>5, <1>6, <1>7 DEF Inv, StoreInv

\* The cache has the plan.
LEMMA HitKeeps ==
  ASSUME Inv, storage # <<>>, storage[1].op = "getPlan", storage' = Tail(storage),
         Cached(storage[1].by), order' = order, blind' = blind
  PROVE  Inv'
<1> DEFINE a == storage[1].by
<1>1. /\ a \in Asks /\ ask[a] = "reading" /\ storage \in Seq(RequestSet)
      /\ AllFit(storage, ask, job, order)
  BY FirstRequest DEF Fits
<1>2. ask' = [ask EXCEPT ![a] = "answered"] /\ UNCHANGED <<job, chain, inflight>>
  BY DEF Cached, jobVars
<1> HIDE DEF a
<1>3. ask' \in [Asks -> {"new", "reading", "waiting", "answered", "lost"}]
      /\ ask'[a] = "answered" /\ \A b \in Asks \ {a} : ask'[b] = ask[b]
  BY <1>1, <1>2 DEF Inv, TypeInv
<1>4. storage' \in Seq(RequestSet) /\ AllFit(storage', ask', job', order')
  <2>1. \A b \in Asks \ {storage[1].by} : ask'[b] = ask[b] /\ job'[b] = job[b]
    BY <1>2, <1>3 DEF a
  <2>2. Tail(storage) \in Seq(RequestSet) /\ AllFit(Tail(storage), ask', job', order)
    BY <1>1, <2>1, TailFits
  <2> QED BY <2>2
<1>5. TypeInv'
  BY <1>2, <1>3, <1>4 DEF Inv, TypeInv
<1>6. FlightInv'
  BY <1>2, <1>3 DEF Inv, FlightInv
<1>7. ChainInv' /\ UnknownInv'
  BY <1>2 DEF Inv, ChainInv, UnknownInv
<1> QED BY <1>4, <1>5, <1>6, <1>7 DEF Inv, StoreInv

\* putPlan() has read what is stored and asks for the new knowledge to be written.
LEMMA ReadKeeps ==
  ASSUME Inv, storage # <<>>, storage[1].op = "read",
         storage' = Append(Tail(storage),
                      Request("write", storage[1].by, WithPlan(order, SignatureOf[storage[1].by]))),
         UNCHANGED <<ask, jobVars, order, blind>>
  PROVE  Inv'
<1> DEFINE a == storage[1].by
           r == Request("write", a, WithPlan(order, SignatureOf[a]))
           t == Tail(storage)
<1>1. /\ a \in Asks /\ job[a] = "storing" /\ storage \in Seq(RequestSet)
      /\ AllFit(storage, ask, job, order)
  BY FirstRequest DEF Fits
<1>2. t \in Seq(RequestSet) /\ AllFit(t, ask, job, order) /\ \A i \in 1..Len(t) : t[i].by # a
  BY <1>1, TailFits
<1>3. storage' = Append(t, r)
  OBVIOUS
<1> HIDE DEF a, t
<1>4. WithPlan(order, SignatureOf[a]) \in Seq(Signatures)
  <2>1. order \in Seq(Signatures) /\ SignatureOf[a] \in Signatures
    BY <1>1, GeminiPlansAssumption DEF Inv, TypeInv
  <2> QED BY <2>1, WithPlanStored
<1>5. r \in RequestSet /\ r.by = a /\ Fits(r, ask, job, order)
  BY <1>1, <1>4 DEF Request, RequestSet, Fits
<1> HIDE DEF r
<1>6. Append(t, r) \in Seq(RequestSet) /\ AllFit(Append(t, r), ask, job, order)
  BY <1>2, <1>5, AppendFits
<1>7. UNCHANGED <<ask, job, chain, inflight, order, blind>>
  BY DEF jobVars
<1>8. StoreInv' /\ TypeInv'
  BY <1>3, <1>6, <1>7 DEF Inv, TypeInv, StoreInv
<1>9. FlightInv' /\ ChainInv' /\ UnknownInv'
  BY <1>7 DEF Inv, FlightInv, ChainInv, UnknownInv
<1> QED BY <1>8, <1>9 DEF Inv

\* The job whose request was answered or rejected settles; the plan may be stored now.
LEMMA StoredKeeps ==
  ASSUME Inv, storage # <<>>, storage[1].op # "getPlan", storage' = Tail(storage),
         Settle(storage[1].by), blind' = blind,
         order' = order \/ (storage[1].op = "write" /\ order' = storage[1].order)
  PROVE  Inv'
<1> DEFINE j == storage[1].by
           s == SignatureOf[j]
<1>1. /\ j \in Asks /\ job[j] = "storing" /\ storage \in Seq(RequestSet)
      /\ AllFit(storage, ask, job, order) /\ Settle(j)
  BY FirstRequest DEF Fits
<1>2. order' = order \/ order' = WithPlan(order, s)
  BY FirstRequest DEF Fits
<1>3. /\ order \in Seq(Signatures) /\ s \in Signatures
  BY <1>1, GeminiPlansAssumption DEF Inv, TypeInv
<1>4. order' \in Seq(Signatures) /\ \A t : Contains(order', t) => t = s \/ Contains(order, t)
  BY <1>2, <1>3, WithPlanStored
<1>5. \A i \in 2..Len(storage) : storage[i].op = "getPlan"
  <2> SUFFICES ASSUME NEW i \in 2..Len(storage), storage[i].op # "getPlan" PROVE FALSE
    OBVIOUS
  <2>1. i \in 1..Len(storage) /\ 1 \in 1..Len(storage) /\ i # 1
    BY FirstRequest
  <2>2. storage[i].by \in Asks /\ job[storage[i].by] = "storing"
    BY <1>1, <2>1, RequestBy DEF AllFit, Fits
  <2>3. storage[i].by = storage[1].by
    BY <1>1, <2>2, OneBegun
  <2> QED BY <1>1, <2>1, <2>3 DEF AllFit
<1>6. /\ job' = [job EXCEPT ![j] = "done"] /\ job' \in [Asks -> Stages]
      /\ ask' \in [Asks -> {"new", "reading", "waiting", "answered", "lost"}]
      /\ inflight' \in [Signatures -> Asks \cup {NoAsk}] /\ chain' = chain
      /\ \A a \in Asks : ask'[a] = "reading" <=> ask[a] = "reading"
      /\ FlightInv' /\ ChainInv'
  <2> HIDE DEF j
  <2> QED BY <1>1, SettleKeeps DEF PendingStages, BegunStages
<1>7. \A k \in Asks \ {j} : job'[k] = job[k]
  BY <1>6 DEF Inv, TypeInv
<1>8. storage' \in Seq(RequestSet) /\ AllFit(storage', ask', job', order')
  <2>1. \A b \in Asks \ {storage[1].by} :
          (ask[b] = "reading" => ask'[b] = "reading") /\ (job[b] = "storing" => job'[b] = "storing")
    BY <1>6, <1>7
  <2>2. Tail(storage) \in Seq(RequestSet) /\ AllFit(Tail(storage), ask', job', order')
    BY <1>1, <1>5, <2>1, TailFits
  <2> QED BY <2>2
<1>9. TypeInv'
  BY <1>4, <1>6, <1>8 DEF Inv, TypeInv
<1>10. UnknownInv'
  <2> SUFFICES ASSUME NEW k \in Asks, job'[k] = "queued", Contains(order', SignatureOf[k])
               PROVE  k \in blind'
    BY DEF UnknownInv
  <2> HIDE DEF j, s
  <2>1. k # j /\ job[k] = "queued"
    BY <1>1, <1>6, <1>7 DEF Inv, TypeInv
  <2>2. SignatureOf[k] # SignatureOf[j]
    BY <1>1, <2>1, OnePending DEF PendingStages
  <2>3. Contains(order, SignatureOf[k])
    BY <1>4, <2>2 DEF s
  <2> QED BY <2>1, <2>3 DEF Inv, UnknownInv
<1> QED BY <1>6, <1>8, <1>9, <1>10 DEF Inv, StoreInv

LEMMA StorageKeeps == ASSUME Inv, StorageAnswers \/ StorageRejects PROVE Inv'
<1>1. storage # <<>> /\ Head(storage) = storage[1] /\ storage[1] \in RequestSet
  BY FirstRequest DEF StorageAnswers, StorageRejects
<1>2. CASE StorageAnswers
  <2>1. CASE storage[1].op = "getPlan"
    <3>1. storage' = Tail(storage) /\ order' = order /\ blind' = blind
      BY <1>1, <1>2, <2>1 DEF StorageAnswers
    <3>2. CASE Contains(order, SignatureOf[storage[1].by])
      <4>1. Cached(storage[1].by)
        BY <1>1, <1>2, <2>1, <3>2 DEF StorageAnswers
      <4> QED BY <1>1, <2>1, <3>1, <4>1, HitKeeps
    <3>3. CASE ~Contains(order, SignatureOf[storage[1].by])
      <4>1. ShareOrCall(storage[1].by)
        BY <1>1, <1>2, <2>1, <3>3 DEF StorageAnswers
      <4> QED BY <1>1, <2>1, <3>1, <3>3, <4>1, MissKeeps
    <3> QED BY <3>2, <3>3
  <2>2. CASE storage[1].op = "read"
    <3>1. /\ storage' = Append(Tail(storage),
               Request("write", storage[1].by, WithPlan(order, SignatureOf[storage[1].by])))
          /\ UNCHANGED <<ask, jobVars, order, blind>>
      BY <1>1, <1>2, <2>2 DEF StorageAnswers
    <3> QED BY <1>1, <2>2, <3>1, ReadKeeps
  <2>3. CASE storage[1].op = "write"
    <3>1. /\ storage' = Tail(storage) /\ order' = storage[1].order
          /\ Settle(storage[1].by) /\ blind' = blind
      BY <1>1, <1>2, <2>3 DEF StorageAnswers
    <3> QED BY <1>1, <2>3, <3>1, StoredKeeps
  <2>4. storage[1].op \in {"getPlan", "read", "write"}
    BY <1>1 DEF RequestSet
  <2> QED BY <2>1, <2>2, <2>3, <2>4
<1>3. CASE StorageRejects
  <2>1. storage' = Tail(storage) /\ order' = order
    BY <1>3 DEF StorageRejects
  <2>2. CASE storage[1].op = "getPlan"
    <3>1. ShareOrCall(storage[1].by) /\ blind' = blind \cup {storage[1].by}
      BY <1>1, <1>3, <2>2 DEF StorageRejects
    <3> QED BY <1>1, <2>1, <2>2, <3>1, MissKeeps
  <2>3. CASE storage[1].op # "getPlan"
    <3>1. Settle(storage[1].by) /\ blind' = blind
      BY <1>1, <1>3, <2>3 DEF StorageRejects
    <3> QED BY <1>1, <2>1, <2>3, <3>1, StoredKeeps
  <2> QED BY <2>2, <2>3
<1> QED BY <1>2, <1>3

\* A new service worker has no job, and what it finds stored is as before.
LEMMA CrashKeeps == ASSUME Inv, Crash PROVE Inv'
<1>1. /\ ask' = [a \in Asks |-> IF ask[a] \in {"reading", "waiting"} THEN "lost" ELSE ask[a]]
      /\ job' = [a \in Asks |-> "none"] /\ chain' = <<>>
      /\ inflight' = [s \in Signatures |-> NoAsk] /\ storage' = <<>> /\ order' = order
  BY DEF Crash
<1>2. ask' \in [Asks -> {"new", "reading", "waiting", "answered", "lost"}]
  BY <1>1 DEF Inv, TypeInv
<1>3. chain' \in Seq(Asks) /\ storage' \in Seq(RequestSet) /\ Len(chain') = 0 /\ Len(storage') = 0
  BY <1>1
<1>4. TypeInv'
  BY <1>1, <1>2, <1>3 DEF Inv, TypeInv, Stages
<1>5. FlightInv'
  BY <1>1 DEF FlightInv, PendingStages
<1>6. ChainInv'
  BY <1>1, <1>3 DEF ChainInv
<1>7. StoreInv'
  BY <1>3 DEF StoreInv, AllFit
<1>8. UnknownInv'
  BY <1>1 DEF UnknownInv
<1> QED BY <1>4, <1>5, <1>6, <1>7, <1>8 DEF Inv

LEMMA InvIsInductive == ASSUME Inv, [GeminiNext]_geminiVars PROVE Inv'
<1>1. ASSUME NEW a \in Asks, Ask(a) \/ Call(a) \/ Answer(a) \/ Refused(a) \/ TimedOut(a) PROVE Inv'
  BY <1>1, AskKeeps, CallKeeps, AnswerKeeps, CallFailsKeeps DEF Refused, TimedOut
<1>2. CASE BackoffOver \/ UNCHANGED geminiVars
  <2>1. UNCHANGED <<ask, job, chain, inflight, storage, order, blind>>
    BY <1>2 DEF BackoffOver, geminiVars, jobVars, storeVars
  <2>2. TypeInv' /\ FlightInv' /\ ChainInv' /\ UnknownInv'
    BY <2>1 DEF Inv, TypeInv, FlightInv, ChainInv, UnknownInv
  <2>3. StoreInv'
    BY <2>1 DEF Inv, StoreInv
  <2> QED BY <2>2, <2>3 DEF Inv
<1> QED BY <1>1, <1>2, StorageKeeps, CrashKeeps DEF GeminiNext

LEMMA InvInit == GeminiInit => Inv
<1> SUFFICES ASSUME GeminiInit PROVE Inv
  OBVIOUS
<1>1. /\ ask = [a \in Asks |-> "new"] /\ job = [a \in Asks |-> "none"] /\ chain = <<>>
      /\ inflight = [s \in Signatures |-> NoAsk] /\ storage = <<>> /\ order = <<>>
  BY DEF GeminiInit
<1>2. Len(chain) = 0 /\ Len(storage) = 0 /\ chain \in Seq(Asks) /\ storage \in Seq(RequestSet)
      /\ order \in Seq(Signatures)
  BY <1>1
<1>3. TypeInv
  BY <1>1, <1>2 DEF TypeInv, Stages
<1>4. FlightInv /\ UnknownInv
  BY <1>1 DEF FlightInv, UnknownInv, PendingStages
<1>5. ChainInv /\ StoreInv
  BY <1>2, <1>1 DEF ChainInv, StoreInv, AllFit
<1> QED BY <1>3, <1>4, <1>5 DEF Inv

\* The inductive invariant, for any forms, asks, faults and restarts.
THEOREM PlansInvariant == GeminiSpec => []Inv
BY InvInit, InvIsInductive, PTL DEF GeminiSpec

-----------------------------------------------------------------------------
\* "at most one call in flight", for any number of asks, faults and restarts.
THEOREM OneCall == GeminiSpec => []OneCallAtATime
<1>1. Inv => OneCallAtATime
  <2> SUFFICES ASSUME Inv PROVE OneCallAtATime
    OBVIOUS
  <2> DEFINE F == {j \in Asks : job[j] = "fetching"}
  <2>1. F = {} \/ \E j \in F : F = {j}
    <3>1. \A j, k \in F : j = k
      BY OneBegun
    <3> QED BY <3>1
  <2>2. Cardinality({}) = 0 /\ \A j : Cardinality({j}) = 1
    BY FS_EmptySet, FS_Singleton
  <2>3. Cardinality(F) \in {0, 1}
    BY <2>1, <2>2
  <2> QED BY <2>3 DEF OneCallAtATime
<1> QED BY <1>1, PlansInvariant, PTL

\* No call is made for a form whose plan is stored, unless its look into the cache failed.
THEOREM StoredPlansAreUsed == GeminiSpec => StoredIsNotCalled
<1>1. ASSUME Inv, [GeminiNext]_geminiVars
      PROVE  [\A j \in Asks :
                job[j] = "queued" /\ job'[j] = "fetching" /\ Contains(order, SignatureOf[j])
                  => j \in blind]_geminiVars
  BY <1>1 DEF Inv, UnknownInv
<1> QED BY <1>1, PlansInvariant, PTL DEF GeminiSpec, StoredIsNotCalled

-----------------------------------------------------------------------------
(* The order of what is stored. *)

\* x stands before y.
Before(o, x, y) == \E i, k \in 1..Len(o) : i < k /\ o[i] = x /\ o[k] = y

\* Taking out, appending and evicting keep the order of all the others.
LEMMA WithoutOrder ==
  ASSUME NEW o \in Seq(Signatures), IsInjective(o), NEW s
  PROVE  /\ Without(o, s) \in Seq(Signatures) /\ IsInjective(Without(o, s))
         /\ \A t : Contains(Without(o, s), t) <=> Contains(o, t) /\ t # s
         /\ \A x, y : Before(Without(o, s), x, y) <=> Before(o, x, y) /\ x # s /\ y # s
         /\ Len(Without(o, s)) = (IF Contains(o, s) THEN Len(o) - 1 ELSE Len(o))
<1> DEFINE w == Without(o, s)
<1>1. w \in Seq(Signatures) /\ DOMAIN w = 1..Len(w) /\ Len(o) \in Nat /\ DOMAIN o = 1..Len(o)
  BY WithoutElements
<1>2. CASE ~Contains(o, s) /\ w = o
  BY <1>1, <1>2 DEF Contains, Before
<1>3. CASE \E n \in 1..Len(o) :
             /\ o[n] = s /\ Len(w) = Len(o) - 1
             /\ \A i \in 1..(Len(o) - 1) : w[i] = (IF i < n THEN o[i] ELSE o[i + 1])
  <2>1. PICK n \in 1..Len(o) :
          /\ o[n] = s /\ Len(w) = Len(o) - 1
          /\ \A i \in 1..(Len(o) - 1) : w[i] = (IF i < n THEN o[i] ELSE o[i + 1])
    BY <1>3
  <2> DEFINE old(i) == IF i < n THEN i ELSE i + 1
             new(i) == IF i < n THEN i ELSE i - 1
  <2>2. ASSUME NEW i \in 1..Len(w) PROVE w[i] = o[old(i)] /\ old(i) \in 1..Len(o) /\ old(i) # n
    BY <1>1, <2>1
  <2>3. ASSUME NEW i \in 1..Len(o), i # n PROVE new(i) \in 1..Len(w) /\ w[new(i)] = o[i]
    BY <1>1, <2>1, <2>3
  <2>4. \A i, k \in 1..Len(w) : /\ i < k <=> old(i) < old(k)
                                /\ old(i) = old(k) => i = k
    BY <1>1, <2>1
  <2>5. \A i, k \in 1..Len(o) : i # n /\ k # n => (i < k <=> new(i) < new(k))
    BY <1>1, <2>1
  <2>6. \A i \in 1..Len(o) : o[i] = s <=> i = n
    BY <1>1, <2>1 DEF IsInjective
  <2> HIDE DEF w, old, new
  <2>7. IsInjective(w)
    BY <1>1, <2>2, <2>4 DEF IsInjective
  <2>8. ASSUME NEW t PROVE Contains(w, t) <=> Contains(o, t) /\ t # s
    BY <2>2, <2>3, <2>6 DEF Contains
  <2>9. ASSUME NEW x, NEW y PROVE Before(w, x, y) <=> Before(o, x, y) /\ x # s /\ y # s
    <3>1. ASSUME Before(w, x, y) PROVE Before(o, x, y) /\ x # s /\ y # s
      BY <2>2, <2>4, <2>6, <3>1 DEF Before
    <3>2. ASSUME Before(o, x, y), x # s, y # s PROVE Before(w, x, y)
      <4>1. PICK i \in 1..Len(o), k \in 1..Len(o) : i < k /\ o[i] = x /\ o[k] = y
        BY <3>2 DEF Before
      <4>2. i # n /\ k # n
        BY <2>1, <3>2, <4>1
      <4> QED BY <2>3, <2>5, <4>1, <4>2 DEF Before
    <3> QED BY <3>1, <3>2
  <2>10. Contains(o, s)
    BY <2>1 DEF Contains
  <2> QED BY <1>1, <2>1, <2>7, <2>8, <2>9, <2>10 DEF w
<1>4. (~Contains(o, s) /\ w = o) \/
      \E n \in 1..Len(o) :
        /\ o[n] = s /\ Len(w) = Len(o) - 1
        /\ \A i \in 1..(Len(o) - 1) : w[i] = (IF i < n THEN o[i] ELSE o[i + 1])
  BY WithoutElements
<1> QED BY <1>2, <1>3, <1>4

LEMMA AppendOrder ==
  ASSUME NEW w \in Seq(Signatures), IsInjective(w), NEW s \in Signatures, ~Contains(w, s)
  PROVE  /\ Append(w, s) \in Seq(Signatures) /\ IsInjective(Append(w, s))
         /\ Len(Append(w, s)) = Len(w) + 1
         /\ \A t : Contains(Append(w, s), t) <=> Contains(w, t) \/ t = s
         /\ \A x, y : Before(Append(w, s), x, y) <=> Before(w, x, y) \/ (Contains(w, x) /\ y = s)
<1> DEFINE a == Append(w, s)
           n == Len(w)
<1>1. /\ n \in Nat /\ Len(a) = n + 1 /\ a[n + 1] = s /\ a \in Seq(Signatures)
      /\ DOMAIN a = 1..(n + 1) /\ DOMAIN w = 1..n
      /\ \A i \in 1..n : a[i] = w[i] /\ w[i] # s /\ i \in 1..(n + 1)
      /\ \A i \in 1..(n + 1) : i \in 1..n \/ i = n + 1
  BY DEF Contains
<1> HIDE DEF a
<1>2. IsInjective(a)
  BY <1>1 DEF IsInjective
<1>3. ASSUME NEW t PROVE Contains(a, t) <=> Contains(w, t) \/ t = s
  BY <1>1 DEF Contains
<1>4. ASSUME NEW x, NEW y PROVE Before(a, x, y) <=> Before(w, x, y) \/ (Contains(w, x) /\ y = s)
  BY <1>1 DEF Before, Contains
<1> QED BY <1>1, <1>2, <1>3, <1>4 DEF a

LEMMA NewestOrder ==
  ASSUME NEW a \in Seq(Signatures), IsInjective(a), Len(a) <= MaxPlans + 1
  PROVE  /\ IsInjective(Newest(a)) /\ Len(Newest(a)) <= MaxPlans
         /\ \A t : Contains(Newest(a), t) => Contains(a, t)
         /\ \A x, y : Contains(Newest(a), x) => (Before(Newest(a), x, y) <=> Before(a, x, y))
         /\ \A t : Contains(a, t) /\ ~Contains(Newest(a), t) =>
               Len(Newest(a)) = MaxPlans /\ \A x : Contains(Newest(a), x) => Before(a, t, x)
         /\ Len(a) >= MaxPlans => Len(Newest(a)) = MaxPlans
<1>1. MaxPlans \in Nat /\ MaxPlans > 0 /\ Len(a) \in Nat /\ DOMAIN a = 1..Len(a)
  BY GeminiPlansAssumption
<1>0. \A m, n \in Nat : n <= m + 1 => (n <= m \/ n = m + 1) /\ (n <= m /\ n >= m => n = m)
  OBVIOUS
<1>2. CASE Len(a) <= MaxPlans
  <2>1. Newest(a) = a
    BY <1>1, <1>2 DEF Newest
  <2>2. Len(a) >= MaxPlans => Len(a) = MaxPlans
    BY <1>0, <1>1, <1>2, Zenon
  <2> QED BY <1>2, <2>1, <2>2, Zenon
<1>3. CASE Len(a) = MaxPlans + 1
  <2> DEFINE b == Newest(a)
  <2>1. b = SubSeq(a, 2, Len(a))
    BY <1>1, <1>3 DEF Newest
  <2>2. /\ Len(b) = MaxPlans /\ DOMAIN b = 1..MaxPlans
        /\ \A i \in 1..MaxPlans : b[i] = a[i + 1] /\ i + 1 \in 1..Len(a)
    BY <1>1, <1>3, <2>1
  <2> HIDE DEF b
  <2>3. \A i \in 1..Len(a) : i = 1 \/ (i - 1 \in 1..MaxPlans /\ b[i - 1] = a[i])
    BY <1>1, <1>3, <2>2
  <2>4. IsInjective(b)
    <3> SUFFICES ASSUME NEW i \in 1..MaxPlans, NEW k \in 1..MaxPlans, b[i] = b[k] PROVE i = k
      BY <2>2 DEF IsInjective
    <3>1. i + 1 = k + 1
      BY <1>1, <2>2 DEF IsInjective
    <3> QED BY <3>1
  <2>5. ASSUME NEW t PROVE Contains(b, t) => Contains(a, t)
    BY <2>2 DEF Contains
  <2>6. ASSUME NEW x, NEW y, Contains(b, x) PROVE Before(b, x, y) <=> Before(a, x, y)
    <3>1. ASSUME Before(b, x, y) PROVE Before(a, x, y)
      <4>1. PICK i \in 1..MaxPlans, k \in 1..MaxPlans : i < k /\ b[i] = x /\ b[k] = y
        BY <2>2, <3>1 DEF Before
      <4>2. i + 1 < k + 1 /\ a[i + 1] = x /\ a[k + 1] = y /\ i + 1 \in 1..Len(a) /\ k + 1 \in 1..Len(a)
        BY <2>2, <4>1
      <4> QED BY <4>2 DEF Before
    <3>2. ASSUME Before(a, x, y) PROVE Before(b, x, y)
      <4>1. PICK i \in 1..Len(a), k \in 1..Len(a) : i < k /\ a[i] = x /\ a[k] = y
        BY <3>2 DEF Before
      <4>2. PICK m \in 1..MaxPlans : b[m] = x
        BY <2>2, <2>6 DEF Contains
      <4>3. i = m + 1
        BY <1>1, <2>2, <4>1, <4>2 DEF IsInjective
      <4>4. i # 1 /\ k # 1
        BY <4>1, <4>2, <4>3
      <4>5. i - 1 \in 1..MaxPlans /\ k - 1 \in 1..MaxPlans /\ b[i - 1] = x /\ b[k - 1] = y /\ i - 1 < k - 1
        BY <2>3, <4>1, <4>4
      <4> QED BY <2>2, <4>5 DEF Before
    <3> QED BY <3>1, <3>2
  <2>7. ASSUME NEW t, Contains(a, t), ~Contains(b, t), NEW x, Contains(b, x) PROVE Before(a, t, x)
    <3>1. PICK i \in 1..Len(a) : a[i] = t
      BY <2>7 DEF Contains
    <3>2. i = 1
      BY <2>2, <2>3, <2>7, <3>1 DEF Contains
    <3>3. PICK m \in 1..MaxPlans : b[m] = x
      BY <2>2, <2>7 DEF Contains
    <3>4. 1 < m + 1 /\ m + 1 \in 1..Len(a) /\ a[m + 1] = x
      BY <2>2, <3>3
    <3> QED BY <3>1, <3>2, <3>4 DEF Before
  <2>8. Len(b) <= MaxPlans
    BY <1>1, <2>2
  <2> QED BY <2>2, <2>4, <2>5, <2>6, <2>7, <2>8, Zenon DEF b
<1>4. Len(a) <= MaxPlans \/ Len(a) = MaxPlans + 1
  BY <1>0, <1>1, Zenon
<1> QED BY <1>2, <1>3, <1>4

\* The newest is never evicted.
LEMMA NewestHasPut ==
  ASSUME NEW o \in Seq(Signatures), NEW s \in Signatures
  PROVE  Contains(WithPlan(o, s), s)
<1> DEFINE w == Without(o, s)
           a == Append(w, s)
<1>1. w \in Seq(Signatures)
  BY WithoutElements
<1> HIDE DEF w
<1>2. a \in Seq(Signatures) /\ Len(a) = Len(w) + 1 /\ Len(w) \in Nat /\ a[Len(a)] = s
  BY <1>1
<1> HIDE DEF a
<1>3. MaxPlans \in Nat /\ MaxPlans > 0
  BY GeminiPlansAssumption
<1>4. CASE Len(a) <= MaxPlans
  <2>1. Newest(a) = a /\ Len(a) \in 1..Len(a)
    BY <1>2, <1>3, <1>4 DEF Newest
  <2> QED BY <1>2, <2>1 DEF WithPlan, a, w, Contains
<1>5. CASE Len(a) > MaxPlans
  <2>1. Newest(a) = SubSeq(a, Len(a) - MaxPlans + 1, Len(a))
    BY <1>5 DEF Newest
  <2>2. Len(a) - MaxPlans + 1 \in 1..Len(a) /\ Len(a) \in Nat
    BY <1>2, <1>3, <1>5
  <2>3. Len(Newest(a)) = MaxPlans /\ Newest(a)[MaxPlans] = a[Len(a)] /\ MaxPlans \in 1..MaxPlans
    BY <1>2, <1>3, <1>5, <2>1, <2>2
  <2> QED BY <1>2, <2>3 DEF WithPlan, a, w, Contains
<1> QED BY <1>2, <1>3, <1>4, <1>5

\* A put: its signature is the newest, the others stay in their order, and only the oldest goes.
LEMMA WithPlanOrder ==
  ASSUME NEW o \in Seq(Signatures), IsInjective(o), Len(o) <= MaxPlans, NEW s \in Signatures
  PROVE  /\ IsInjective(WithPlan(o, s)) /\ Len(WithPlan(o, s)) <= MaxPlans
         /\ \A x : ~Before(WithPlan(o, s), s, x)
         /\ \A t : Contains(WithPlan(o, s), t) => t = s \/ Contains(o, t)
         /\ \A t, x : Contains(WithPlan(o, s), t) /\ t # s =>
               (Before(WithPlan(o, s), t, x) <=> (Before(o, t, x) \/ x = s))
         /\ \A t : Contains(o, t) /\ ~Contains(WithPlan(o, s), t) =>
               /\ Len(WithPlan(o, s)) = MaxPlans
               /\ \A x : Contains(WithPlan(o, s), x) => x = s \/ Before(o, t, x)
         /\ Len(o) = MaxPlans => Len(WithPlan(o, s)) = MaxPlans
<1> DEFINE w == Without(o, s)
           a == Append(w, s)
           n == Newest(a)
<1>1. /\ w \in Seq(Signatures) /\ IsInjective(w)
      /\ \A t : Contains(w, t) <=> Contains(o, t) /\ t # s
      /\ \A x, y : Before(w, x, y) <=> Before(o, x, y) /\ x # s /\ y # s
      /\ Len(w) = (IF Contains(o, s) THEN Len(o) - 1 ELSE Len(o))
  BY WithoutOrder
<1> HIDE DEF w
<1>2. /\ a \in Seq(Signatures) /\ IsInjective(a) /\ Len(a) = Len(w) + 1
      /\ \A t : Contains(a, t) <=> Contains(w, t) \/ t = s
      /\ \A x, y : Before(a, x, y) <=> Before(w, x, y) \/ (Contains(w, x) /\ y = s)
  BY <1>1, AppendOrder
<1> HIDE DEF a
<1>3. Len(a) <= MaxPlans + 1 /\ (Len(o) = MaxPlans => Len(a) >= MaxPlans)
  <2>1. Len(o) \in Nat /\ MaxPlans \in Nat
    BY GeminiPlansAssumption
  <2> QED BY <1>1, <1>2, <2>1
<1>4. /\ IsInjective(n) /\ Len(n) <= MaxPlans
      /\ \A t : Contains(n, t) => Contains(a, t)
      /\ \A x, y : Contains(n, x) => (Before(n, x, y) <=> Before(a, x, y))
      /\ \A t : Contains(a, t) /\ ~Contains(n, t) =>
            Len(n) = MaxPlans /\ \A x : Contains(n, x) => Before(a, t, x)
      /\ Len(a) >= MaxPlans => Len(n) = MaxPlans
  BY <1>2, <1>3, NewestOrder
<1>5. WithPlan(o, s) = n
  BY DEF WithPlan, n, a, w
<1> HIDE DEF n
<1>6. \A x, y : Before(n, x, y) => Contains(n, x)
  BY DEF Before, Contains
<1>7. \A x : ~Before(n, s, x)
  BY <1>1, <1>2, <1>4, <1>6, Zenon
<1>8. ASSUME NEW t, NEW x, Contains(n, t), t # s PROVE Before(n, t, x) <=> (Before(o, t, x) \/ x = s)
  BY <1>1, <1>2, <1>4, <1>8, Zenon
<1>9. ASSUME NEW t, Contains(o, t), ~Contains(n, t)
      PROVE  Len(n) = MaxPlans /\ \A x : Contains(n, x) => x = s \/ Before(o, t, x)
  <2>1. Contains(a, t)
    BY <1>1, <1>2, <1>9, Zenon
  <2> QED BY <1>1, <1>2, <1>4, <1>9, <2>1, Zenon
<1>10. \A t : Contains(n, t) => t = s \/ Contains(o, t)
  BY <1>1, <1>2, <1>4, Zenon
<1> QED BY <1>3, <1>4, <1>5, <1>7, <1>8, <1>9, <1>10, Zenon

-----------------------------------------------------------------------------
(* What was put after what. *)

IsLast(p, i, t) == p[i] = t /\ \A k \in (i + 1)..Len(p) : p[k] # t
Newer(p, t, x) == \E i, k \in 1..Len(p) : IsLast(p, i, t) /\ i < k /\ p[k] = x

\* A put appends.
LEMMA PutElements ==
  ASSUME NEW p \in Seq(Signatures), NEW s \in Signatures
  PROVE  /\ Append(p, s) \in Seq(Signatures) /\ Len(p) \in Nat /\ Len(Append(p, s)) = Len(p) + 1
         /\ Append(p, s)[Len(p) + 1] = s /\ \A i \in 1..Len(p) : Append(p, s)[i] = p[i]
OBVIOUS

\* A put is newer than all the others.
LEMMA PutIsNewest ==
  ASSUME NEW p \in Seq(Signatures), NEW s \in Signatures,
         \A t : Contains(p, t) => \E i \in 1..Len(p) : IsLast(p, i, t)
  PROVE  /\ \A t : Contains(Append(p, s), t) <=> Contains(p, t) \/ t = s
         /\ \A t : Contains(Append(p, s), t) => \E i \in 1..Len(Append(p, s)) : IsLast(Append(p, s), i, t)
         /\ \A x : ~Newer(Append(p, s), s, x)
         /\ \A t, x : t # s /\ Contains(p, t) =>
               (Newer(Append(p, s), t, x) <=> (Newer(p, t, x) \/ x = s))
<1> DEFINE q == Append(p, s)
           n == Len(p)
<1>1. /\ n \in Nat /\ Len(q) = n + 1 /\ q[n + 1] = s /\ \A i \in 1..n : q[i] = p[i]
      /\ n + 1 \in 1..(n + 1) /\ \A i \in 1..(n + 1) : i \in 1..n \/ i = n + 1
      /\ \A i \in 1..n : i \in 1..(n + 1) /\ i < n + 1
  BY PutElements
<1> HIDE DEF q
<1>2. IsLast(q, n + 1, s) /\ \A i \in 1..n : ~IsLast(q, i, s)
  <2>1. \A i \in 1..n : n + 1 \in (i + 1)..Len(q)
    BY <1>1
  <2> QED BY <1>1, <2>1 DEF IsLast
<1>3. ASSUME NEW t, t # s
      PROVE  /\ \A i \in 1..n : IsLast(q, i, t) <=> IsLast(p, i, t)
             /\ ~IsLast(q, n + 1, t)
  <2>1. ASSUME NEW i \in 1..n PROVE IsLast(q, i, t) <=> IsLast(p, i, t)
    <3>1. \A k \in (i + 1)..Len(q) : k \in (i + 1)..n \/ k = n + 1
      BY <1>1
    <3>2. \A k \in (i + 1)..n : k \in (i + 1)..Len(q) /\ k \in 1..n
      BY <1>1
    <3> QED BY <1>1, <1>3, <3>1, <3>2 DEF IsLast
  <2> QED BY <1>1, <1>3, <2>1 DEF IsLast
<1>4. ASSUME NEW t PROVE Contains(q, t) <=> Contains(p, t) \/ t = s
  BY <1>1 DEF Contains
<1>5. ASSUME NEW t, Contains(q, t) PROVE \E i \in 1..Len(q) : IsLast(q, i, t)
  <2>1. CASE t = s
    BY <1>1, <1>2, <2>1
  <2>2. CASE t # s
    <3>1. PICK i \in 1..n : IsLast(p, i, t)
      BY <1>4, <1>5, <2>2
    <3> QED BY <1>1, <1>3, <2>2, <3>1
  <2> QED BY <2>1, <2>2
<1>6. ASSUME NEW x PROVE ~Newer(q, s, x)
  <2>1. \A k \in 1..Len(q) : ~(n + 1 < k)
    BY <1>1
  <2> QED BY <1>1, <1>2, <2>1 DEF Newer
<1>7. ASSUME NEW t, NEW x, t # s, Contains(p, t) PROVE Newer(q, t, x) <=> (Newer(p, t, x) \/ x = s)
  <2>1. ASSUME Newer(q, t, x) PROVE Newer(p, t, x) \/ x = s
    <3>1. PICK i \in 1..(n + 1), k \in 1..(n + 1) : IsLast(q, i, t) /\ i < k /\ q[k] = x
      BY <1>1, <2>1 DEF Newer
    <3>2. i \in 1..n /\ IsLast(p, i, t)
      BY <1>1, <1>3, <1>7, <3>1
    <3>3. CASE k = n + 1
      BY <1>1, <3>1, <3>3
    <3>4. CASE k \in 1..n
      BY <1>1, <3>1, <3>2, <3>4 DEF Newer
    <3> QED BY <1>1, <3>3, <3>4
  <2>2. ASSUME Newer(p, t, x) PROVE Newer(q, t, x)
    <3>1. PICK i \in 1..n, k \in 1..n : IsLast(p, i, t) /\ i < k /\ p[k] = x
      BY <2>2 DEF Newer
    <3>2. IsLast(q, i, t)
      BY <1>3, <1>7, <3>1
    <3>3. i \in 1..Len(q) /\ k \in 1..Len(q) /\ q[k] = x
      BY <1>1, <3>1
    <3> QED BY <3>1, <3>2, <3>3 DEF Newer
  <2>3. ASSUME x = s PROVE Newer(q, t, x)
    <3>1. PICK i \in 1..n : IsLast(p, i, t)
      BY <1>7
    <3>2. IsLast(q, i, t)
      BY <1>3, <1>7, <3>1
    <3>3. i \in 1..Len(q) /\ n + 1 \in 1..Len(q) /\ i < n + 1 /\ q[n + 1] = x
      BY <1>1, <2>3
    <3> QED BY <3>2, <3>3 DEF Newer
  <2> QED BY <2>1, <2>2, <2>3
<1> QED BY <1>4, <1>5, <1>6, <1>7 DEF q

\* The stored signatures are in the order of their last puts, and whatever is not stored any more
\* was put before all of them.
PutsInv ==
    /\ puts \in Seq(Signatures) /\ IsInjective(order) /\ Len(order) <= MaxPlans
    /\ \A t : Contains(order, t) => Contains(puts, t)
    /\ \A t : Contains(puts, t) => \E i \in 1..Len(puts) : IsLast(puts, i, t)
    /\ \A t, x : Contains(order, t) => (Before(order, t, x) <=> Newer(puts, t, x))
    /\ \A t : Contains(puts, t) /\ ~Contains(order, t) =>
          Len(order) = MaxPlans /\ \A x : Contains(order, x) => Newer(puts, t, x)

LEMMA PutKeeps ==
  ASSUME Inv, PutsInv, NEW s \in Signatures, order' = WithPlan(order, s), puts' = Append(puts, s)
  PROVE  PutsInv'
<1>1. order \in Seq(Signatures)
  BY DEF Inv, TypeInv
<1>2. /\ IsInjective(order') /\ Len(order') <= MaxPlans
      /\ \A x : ~Before(order', s, x)
      /\ \A t : Contains(order', t) => t = s \/ Contains(order, t)
      /\ \A t, x : Contains(order', t) /\ t # s => (Before(order', t, x) <=> (Before(order, t, x) \/ x = s))
      /\ \A t : Contains(order, t) /\ ~Contains(order', t) =>
            /\ Len(order') = MaxPlans
            /\ \A x : Contains(order', x) => x = s \/ Before(order, t, x)
      /\ Len(order) = MaxPlans => Len(order') = MaxPlans
  BY <1>1, WithPlanOrder DEF PutsInv
<1>3. /\ \A t : Contains(puts', t) <=> Contains(puts, t) \/ t = s
      /\ \A t : Contains(puts', t) => \E i \in 1..Len(puts') : IsLast(puts', i, t)
      /\ \A x : ~Newer(puts', s, x)
      /\ \A t, x : t # s /\ Contains(puts, t) => (Newer(puts', t, x) <=> (Newer(puts, t, x) \/ x = s))
  BY PutIsNewest DEF PutsInv
<1>4. puts' \in Seq(Signatures)
  BY PutElements DEF PutsInv
<1>5. \A t : Contains(order', t) => Contains(puts', t)
  BY <1>2, <1>3, Zenon DEF PutsInv
<1>6. ASSUME NEW t, NEW x, Contains(order', t) PROVE Before(order', t, x) <=> Newer(puts', t, x)
  <2>1. CASE t = s
    BY <1>2, <1>3, <2>1, Zenon
  <2>2. CASE t # s
    <3>1. Contains(order, t) /\ Contains(puts, t)
      BY <1>2, <1>6, <2>2, Zenon DEF PutsInv
    <3>2. Before(order, t, x) <=> Newer(puts, t, x)
      BY <3>1, Zenon DEF PutsInv
    <3> QED BY <1>2, <1>3, <1>6, <2>2, <3>1, <3>2, Zenon
  <2> QED BY <2>1, <2>2
<1>7. ASSUME NEW t, Contains(puts', t), ~Contains(order', t), t # s
      PROVE  Len(order') = MaxPlans /\ \A x : Contains(order', x) => Newer(puts', t, x)
  <2>1. Contains(puts, t)
    BY <1>3, <1>7, Zenon
  <2>2. CASE Contains(order, t)
    <3>1. \A x : Before(order, t, x) <=> Newer(puts, t, x)
      BY <2>2, Zenon DEF PutsInv
    <3> QED BY <1>2, <1>3, <1>7, <2>1, <2>2, <3>1, Zenon
  <2>3. CASE ~Contains(order, t)
    <3>1. Len(order) = MaxPlans /\ \A x : Contains(order, x) => Newer(puts, t, x)
      BY <2>1, <2>3, Zenon DEF PutsInv
    <3> QED BY <1>2, <1>3, <1>7, <2>1, <3>1, Zenon
  <2> QED BY <2>2, <2>3
<1>8. Contains(order', s)
  <2>1. MaxPlans \in Nat \ {0}
    BY GeminiPlansAssumption
  <2> QED BY <1>1, <2>1, NewestHasPut
<1> QED BY <1>2, <1>3, <1>4, <1>5, <1>6, <1>7, <1>8 DEF PutsInv

\* Only the answer to a write puts something.
LEMMA OthersPutNothing ==
  ASSUME PutsInv, UNCHANGED <<order, puts>> PROVE PutsInv'
BY DEF PutsInv

LEMMA PutsInvKeeps == ASSUME Inv, PutsInv, [GeminiNext]_geminiVars PROVE PutsInv'
<1>1. CASE StorageAnswers /\ storage[1].op = "write"
  <2>1. /\ storage # <<>> /\ Head(storage) = storage[1] /\ storage[1].by \in Asks
        /\ Fits(storage[1], ask, job, order)
    BY <1>1, FirstRequest DEF StorageAnswers
  <2>2. order' = storage[1].order /\ puts' = Append(puts, SignatureOf[storage[1].by])
    BY <1>1, <2>1 DEF StorageAnswers
  <2>3. SignatureOf[storage[1].by] \in Signatures
    BY <2>1, GeminiPlansAssumption
  <2>4. order' = WithPlan(order, SignatureOf[storage[1].by])
    BY <1>1, <2>1, <2>2 DEF Fits
  <2> QED BY <2>2, <2>3, <2>4, PutKeeps
<1>2. CASE StorageAnswers /\ storage[1].op # "write"
  <2>1. Head(storage) = storage[1]
    BY <1>2, FirstRequest DEF StorageAnswers
  <2>2. UNCHANGED <<order, puts>>
    BY <1>2, <2>1 DEF StorageAnswers
  <2> QED BY <2>2, OthersPutNothing
<1>3. CASE ~StorageAnswers
  <2>1. UNCHANGED <<order, puts>>
    BY <1>3 DEF GeminiNext, Ask, Call, Answer, Refused, TimedOut, CallFails, BackoffOver, StorageRejects, Crash,
                geminiVars, storeVars
  <2> QED BY <2>1, OthersPutNothing
<1> QED BY <1>1, <1>2, <1>3

\* Of distinct elements, fewer than Len(o) stand behind one of them.
LEMMA FewBehind ==
  ASSUME NEW o \in Seq(Signatures), IsInjective(o)
  PROVE  /\ IsFiniteSet({t \in Signatures : Contains(o, t)})
         /\ Cardinality({t \in Signatures : Contains(o, t)}) = Len(o)
<1> DEFINE R == {t \in Signatures : Contains(o, t)}
           f == [i \in 1..Len(o) |-> o[i]]
<1>1. Len(o) \in Nat /\ DOMAIN o = 1..Len(o) /\ \A i \in 1..Len(o) : o[i] \in Signatures
  OBVIOUS
<1>2. IsFiniteSet(1..Len(o)) /\ Cardinality(1..Len(o)) = Len(o)
  <2>1. 1 \in Int /\ Len(o) \in Int
    BY <1>1
  <2>2. IsFiniteSet(1..Len(o)) /\ Cardinality(1..Len(o)) = (IF 1 > Len(o) THEN 0 ELSE Len(o) - 1 + 1)
    BY <2>1, FS_Interval
  <2> QED BY <1>1, <2>2
<1>3. f \in Bijection(1..Len(o), R)
  <2>1. f \in [1..Len(o) -> R]
    BY <1>1 DEF Contains
  <2>2. \A i, k \in 1..Len(o) : f[i] = f[k] => i = k
    BY <1>1 DEF IsInjective
  <2>3. \A t \in R : \E i \in 1..Len(o) : f[i] = t
    BY DEF Contains
  <2> HIDE DEF f, R
  <2> QED BY <2>1, <2>2, <2>3 DEF Bijection, Injection, Surjection, IsInjective
<1>4. ExistsBijection(1..Len(o), R)
  BY <1>3 DEF ExistsBijection
<1> HIDE DEF R
<1> QED BY <1>2, <1>4, FS_Bijection DEF R

\* There is a last put of what was put.
LEMMA LastPutIsIndex ==
  ASSUME PutsInv, NEW t, Contains(puts, t)
  PROVE  LastPut(t) \in 1..Len(puts) /\ IsLast(puts, LastPut(t), t)
<1>1. Len(puts) \in Nat /\ DOMAIN puts = 1..Len(puts)
  BY DEF PutsInv
<1>2. \E i \in 1..Len(puts) : IsLast(puts, i, t)
  BY DEF PutsInv
<1>3. LastPut(t) = CHOOSE k \in 1..Len(puts) : IsLast(puts, k, t)
  BY <1>1, Zenon DEF LastPut, IsLast
<1> QED BY <1>2, <1>3

\* The code's "newest": what NewerThan reads off the puts.
LEMMA NewerThanPut ==
  ASSUME PutsInv, NEW t, Contains(puts, t)
  PROVE  \A x : x \in NewerThan(t) <=> Newer(puts, t, x)
<1>1. Len(puts) \in Nat /\ DOMAIN puts = 1..Len(puts)
  BY DEF PutsInv
<1>2. PICK i \in 1..Len(puts) : IsLast(puts, i, t)
  BY DEF PutsInv
<1>3. \A k \in 1..Len(puts) : IsLast(puts, k, t) => k = i
  <2> SUFFICES ASSUME NEW k \in 1..Len(puts), IsLast(puts, k, t), k # i PROVE FALSE
    OBVIOUS
  <2>1. k \in (i + 1)..Len(puts) \/ i \in (k + 1)..Len(puts)
    BY <1>1
  <2> QED BY <1>2, <2>1 DEF IsLast
<1>4. LastPut(t) = i
  BY <1>3, LastPutIsIndex
<1>5. NewerThan(t) = {puts[k] : k \in (i + 1)..Len(puts)}
  BY <1>4 DEF NewerThan
<1>6. \A k \in (i + 1)..Len(puts) : k \in 1..Len(puts) /\ i < k
  BY <1>1
<1>7. \A k \in 1..Len(puts) : i < k => k \in (i + 1)..Len(puts)
  BY <1>1
<1> QED BY <1>2, <1>3, <1>5, <1>6, <1>7 DEF Newer

LEMMA InvsGiveNewest == ASSUME Inv, PutsInv PROVE StoredAreNewest
<1> SUFFICES ASSUME NEW s \in Signatures
             PROVE  Contains(order, s) <=> Contains(puts, s) /\ Cardinality(NewerThan(s)) < MaxPlans
  BY DEF StoredAreNewest
<1> DEFINE R == {t \in Signatures : Contains(order, t)}
<1>1. /\ order \in Seq(Signatures) /\ IsInjective(order) /\ Len(order) <= MaxPlans
      /\ MaxPlans \in Nat /\ Len(order) \in Nat
  BY GeminiPlansAssumption DEF Inv, TypeInv, PutsInv
<1>2. IsFiniteSet(R) /\ Cardinality(R) = Len(order)
  BY <1>1, FewBehind
<1>3. ASSUME Contains(order, s) PROVE Contains(puts, s) /\ Cardinality(NewerThan(s)) < MaxPlans
  <2>1. Contains(puts, s)
    BY <1>3 DEF PutsInv
  <2>2. \A x : x \in NewerThan(s) => Before(order, s, x)
    BY <1>3, <2>1, NewerThanPut DEF PutsInv
  <2>3. \A x : Before(order, s, x) => x \in R /\ x # s
    BY <1>1 DEF Before, Contains, IsInjective
  <2>4. NewerThan(s) \in SUBSET (R \ {s}) /\ s \in R
    BY <1>3, <2>2, <2>3
  <2> HIDE DEF R
  <2>5. IsFiniteSet(R \ {s}) /\ Cardinality(R \ {s}) = Len(order) - 1
    BY <1>2, <2>4, FS_RemoveElement
  <2>6. Cardinality(NewerThan(s)) <= Len(order) - 1 /\ Cardinality(NewerThan(s)) \in Nat
    BY <2>4, <2>5, FS_Subset, FS_CardinalityType
  <2> QED BY <1>1, <2>1, <2>6
<1>4. ASSUME Contains(puts, s), ~Contains(order, s) PROVE ~(Cardinality(NewerThan(s)) < MaxPlans)
  <2>1. Len(order) = MaxPlans /\ \A x : Contains(order, x) => Newer(puts, s, x)
    BY <1>4 DEF PutsInv
  <2>2. R \in SUBSET NewerThan(s)
    BY <1>4, <2>1, NewerThanPut
  <2>3. IsFiniteSet(NewerThan(s))
    <3> DEFINE later == (LastPut(s) + 1)..Len(puts)
    <3>1. IsFiniteSet(later)
      <4>1. LastPut(s) \in Int /\ Len(puts) \in Int
        BY <1>4, LastPutIsIndex DEF PutsInv
      <4> QED BY <4>1, FS_Interval
    <3>2. [k \in later |-> puts[k]] \in Surjection(later, NewerThan(s))
      BY DEF NewerThan, Surjection
    <3> HIDE DEF later
    <3> QED BY <3>1, <3>2, FS_Surjection
  <2> HIDE DEF R
  <2>4. Cardinality(R) <= Cardinality(NewerThan(s)) /\ Cardinality(NewerThan(s)) \in Nat
    BY <2>2, <2>3, FS_Subset, FS_CardinalityType
  <2> QED BY <1>1, <1>2, <2>1, <2>4
<1> QED BY <1>3, <1>4

\* No put undoes another, though each reads, changes and writes the origin's whole knowledge: stored
\* are the plans put last, one per signature, however many there are and whenever the worker dies.
THEOREM NoPutIsUndone == GeminiSpec => []StoredAreNewest
<1>1. GeminiInit => PutsInv
  <2> SUFFICES ASSUME GeminiInit PROVE PutsInv
    OBVIOUS
  <2>1. order = <<>> /\ puts = <<>> /\ Len(<<>>) = 0 /\ MaxPlans \in Nat
    BY GeminiPlansAssumption DEF GeminiInit
  <2>2. IsInjective(<<>>)
    BY DEF IsInjective
  <2> QED BY <2>1, <2>2 DEF PutsInv, Contains
<1>2. Inv /\ PutsInv /\ [GeminiNext]_geminiVars => PutsInv'
  BY PutsInvKeeps
<1>3. Inv /\ PutsInv => StoredAreNewest
  BY InvsGiveNewest
<1> QED BY <1>1, <1>2, <1>3, PlansInvariant, PTL DEF GeminiSpec
=============================================================================
