--------------------------- MODULE QAManagerProofs ---------------------------
(***************************************************************************)
(* What the QA manager promises, for any number of calls in any order and  *)
(* buffers of any sizes.  The invariant: only the run in the slot can be   *)
(* alive, and those that starts left behind which awaited the same run;    *)
(* and what a stop leaves alive or to begin is of calls that it met.       *)
(***************************************************************************)
EXTENDS QAManager, FiniteSetTheorems, TLAPS

Phases == {"none", "created", "opening", "loading", "acting", "closing", "crashing", "ended"}
Waits == [on : {None} \cup Runs, kind : {"start", "stop"}, turn : Nat, beside : SUBSET Runs]

TypeInv ==
    /\ phase \in [Runs -> Phases] /\ slot \in {None} \cup Runs /\ debounce \in {None} \cup Runs
    /\ waiting \in [Runs -> Waits] /\ requests \in Nat
    /\ cancelled \subseteq Active /\ outdated \subseteq Runs /\ orphans \subseteq Runs

SlotInv == Active \ orphans \subseteq {slot}

\* A call begins its run when it no longer waits, and none has begun one before it was made.
CallInv ==
    /\ \A n \in Going \cup ToBegin : n <= requests
    /\ \A n \in ToBegin : phase[n] = "none"
    /\ \A n \in Runs : n > requests => phase[n] = "none"

StopInv ==
    \A n \in Going : waiting[n].kind = "stop" =>
        \A m \in (Active \cup ToBegin) \ orphans :
            m = waiting[n].on \/ m \in waiting[n].beside \/ m > n

StaleInv == \A r \in outdated \ orphans : r \in cancelled \/ phase[r] \in {"closing", "ended"}

Inv == TypeInv /\ SlotInv /\ CallInv /\ StopInv /\ StaleInv

-----------------------------------------------------------------------------
\* A run's number is none.
LEMMA RunsAreNumbers == Runs \subseteq Nat /\ None \in Nat /\ None \notin Runs
BY QAManagerAssumption DEF Runs, None

\* A step of one run's task keeps the others as they are.
LEMMA TaskMoves ==
  ASSUME Inv, NEW r \in Active, NEW p \in Phases \ {"none"}, phase' = [phase EXCEPT ![r] = p],
         UNCHANGED callVars,
         (cancelled' = cancelled /\ r \notin cancelled) \/ cancelled' = cancelled \ {r},
         r \in outdated \ orphans => p \in {"closing", "ended"}
  PROVE  Inv'
<1>1. r \in Runs /\ phase[r] # "none"
  BY DEF Active
<1>2. /\ slot' = slot /\ waiting' = waiting /\ debounce' = debounce /\ outdated' = outdated
      /\ requests' = requests /\ orphans' = orphans /\ Going' = Going /\ ToBegin' = ToBegin
  BY DEF callVars, Going, ToBegin
<1>3. phase' \in [Runs -> Phases] /\ phase'[r] = p /\ \A x \in Runs \ {r} : phase'[x] = phase[x]
  BY <1>1 DEF Inv, TypeInv
<1>4. Active' \subseteq Active
  BY <1>3 DEF Active
<1>5. cancelled' \subseteq Active'
  BY <1>1, <1>3 DEF Inv, TypeInv, Active
<1>6. TypeInv'
  BY <1>2, <1>3, <1>5 DEF Inv, TypeInv, Runs, Waits
<1>7. StaleInv'
  BY <1>1, <1>2, <1>3 DEF Inv, StaleInv, TypeInv
<1>8. CallInv'
  <2>1. r \notin ToBegin /\ ~(r > requests) /\ ToBegin \subseteq Runs
    BY <1>1 DEF Inv, CallInv, ToBegin, Going, TypeInv
  <2> QED BY <1>2, <1>3, <2>1 DEF Inv, CallInv, Runs
<1>9. StopInv'
  BY <1>2, <1>4 DEF Inv, StopInv
<1>10. SlotInv'
  BY <1>2, <1>4 DEF Inv, SlotInv
<1> QED BY <1>6, <1>7, <1>8, <1>9, <1>10 DEF Inv

LEMMA NothingMoves == ASSUME Inv, UNCHANGED <<phase, cancelled, callVars>> PROVE Inv'
<1>1. UNCHANGED <<phase, cancelled, requests, slot, debounce, waiting, outdated, orphans>>
  BY DEF callVars
<1>2. Active' = Active /\ Going' = Going /\ ToBegin' = ToBegin
  BY <1>1 DEF Active, Going, ToBegin
<1> QED BY <1>1, <1>2 DEF Inv, TypeInv, SlotInv, CallInv, StopInv, StaleInv, Runs, Waits

LEMMA RunStepKeeps == ASSUME Inv, NEW r \in Runs,
  BodyStarts(r) \/ PageOpens(r) \/ RunStarted(r) \/ Step(r) \/ Finish(r)
    \/ Crash(r) \/ CrashReported(r) \/ PageClosed(r) \/ Cancelled(r)
  PROVE Inv'
<1>1. CASE Step(r)
  <2>1. UNCHANGED <<phase, cancelled, callVars>>
    BY <1>1 DEF Step
  <2> QED BY <2>1, NothingMoves
<1>2. CASE Cancelled(r)
  <2>1. r \in Active /\ cancelled' = cancelled \ {r} /\ callVars' = callVars
    BY <1>2 DEF Cancelled, Inv, TypeInv
  <2>2. phase' = [phase EXCEPT ![r] = "closing"] \/ phase' = [phase EXCEPT ![r] = "ended"]
    BY <1>2 DEF Cancelled, Move
  <2> QED BY <2>1, <2>2, TaskMoves DEF Phases
<1>3. ASSUME NEW p \in Phases \ {"none"}, NEW S \in SUBSET (Phases \ {"none", "ended"}),
             At(r, S), Move(r, p), "closing" \notin S \/ p = "ended", UNCHANGED <<cancelled, callVars>>
      PROVE  Inv'
  <2>1. r \in Active /\ r \notin cancelled
    BY <1>3 DEF At, Active
  <2>2. r \in outdated \ orphans => p \in {"closing", "ended"}
    BY <1>3 DEF At, Inv, StaleInv
  <2>3. phase' = [phase EXCEPT ![r] = p]
    BY <1>3 DEF Move
  <2> QED BY <1>3, <2>1, <2>2, <2>3, TaskMoves
<1>4. CASE BodyStarts(r)
  BY <1>3, <1>4 DEF BodyStarts, Phases
<1>5. CASE PageOpens(r)
  BY <1>3, <1>5 DEF PageOpens, Phases
<1>6. CASE RunStarted(r)
  BY <1>3, <1>6 DEF RunStarted, Phases
<1>7. CASE Finish(r)
  BY <1>3, <1>7 DEF Finish, Phases
<1>8. CASE Crash(r)
  BY <1>3, <1>8 DEF Crash, Phases
<1>9. CASE CrashReported(r)
  BY <1>3, <1>9 DEF CrashReported, Phases
<1>10. CASE PageClosed(r)
  BY <1>3, <1>10 DEF PageClosed, Phases
<1> QED BY <1>1, <1>2, <1>4, <1>5, <1>6, <1>7, <1>8, <1>9, <1>10

\* Starts ns begin their runs, of which n's gets the slot: whatever was alive is left behind.
LEMMA BeginKeeps ==
  ASSUME Inv, NEW ns \in SUBSET Runs, NEW n \in ns, Begin(ns, n), UNCHANGED <<cancelled, outdated>>,
         waiting' \in [Runs -> Waits], \A x \in Runs : waiting'[x] \in {waiting[x], NotWaiting},
         \A x \in ns : phase[x] = "none" /\ waiting'[x].on = None /\ x <= requests',
         requests' \in Nat, requests' >= requests, ns \subseteq ToBegin \/ ns = {requests + 1},
         Active \subseteq orphans', orphans \subseteq orphans', ns \ {n} \subseteq orphans', orphans' \subseteq Runs
  PROVE  Inv'
<1>1. /\ slot' = n /\ phase' = [r \in Runs |-> IF r \in ns THEN "created" ELSE phase[r]]
      /\ debounce' = IF debounce \in ns THEN None ELSE debounce
      /\ cancelled' = cancelled /\ outdated' = outdated /\ Runs' = Runs
  BY DEF Begin, Runs
<1>2. phase' \in [Runs -> Phases] /\ \A r \in Runs : phase'[r] = IF r \in ns THEN "created" ELSE phase[r]
  BY <1>1 DEF Inv, TypeInv, Phases
<1>3. Active' = Active \cup ns
  BY <1>1, <1>2 DEF Active
<1>4. \A x \in Going' : x \in Going /\ x \notin ns /\ waiting'[x] = waiting[x]
  BY <1>1 DEF Going, NotWaiting
<1>5. \A x \in ToBegin' : x \in ToBegin /\ x \notin ns
  BY <1>1, <1>4 DEF ToBegin
<1>6. TypeInv'
  BY <1>1, <1>2, <1>3, RunsAreNumbers DEF Inv, TypeInv, Waits
<1>7. SlotInv'
  BY <1>1, <1>3 DEF SlotInv
<1>8. CallInv'
  <2>1. \A x \in Going' \cup ToBegin' : x \in Runs /\ x <= requests'
    BY <1>4, <1>5, RunsAreNumbers DEF Inv, CallInv, TypeInv, Going, ToBegin
  <2>2. \A x \in ToBegin' : phase'[x] = "none"
    BY <1>2, <1>5, <2>1 DEF Inv, CallInv
  <2>3. ASSUME NEW x \in Runs, x > requests' PROVE phase'[x] = "none"
    BY <1>2, <2>3, RunsAreNumbers DEF Inv, CallInv, TypeInv
  <2> QED BY <1>1, <2>1, <2>2, <2>3 DEF CallInv
<1>9. StopInv'
  <2> SUFFICES ASSUME NEW x \in Going', waiting'[x].kind = "stop", NEW m \in (Active' \cup ToBegin') \ orphans'
               PROVE  m = waiting'[x].on \/ m \in waiting'[x].beside \/ m > x
    BY DEF StopInv
  <2>1. x \in Going /\ waiting'[x] = waiting[x] /\ waiting[x].kind = "stop" /\ m \notin orphans
    BY <1>4
  <2>2. CASE m \in Active \cup ToBegin
    BY <2>1, <2>2 DEF Inv, StopInv
  <2>3. CASE m \notin Active \cup ToBegin
    <3>1. m = requests + 1 /\ x <= requests /\ x \in Nat
      BY <1>3, <1>5, <2>1, <2>3, RunsAreNumbers DEF Inv, CallInv, Going
    <3> QED BY <3>1 DEF Inv, TypeInv
  <2> QED BY <2>2, <2>3
<1>10. StaleInv'
  <2> SUFFICES ASSUME NEW r \in outdated, r \notin orphans PROVE r \in cancelled \/ phase'[r] \in {"closing", "ended"}
    BY <1>1 DEF StaleInv
  <2>1. r \in cancelled \/ phase[r] \in {"closing", "ended"}
    BY DEF Inv, StaleInv
  <2> QED BY <1>2, <2>1 DEF Inv, TypeInv
<1> QED BY <1>6, <1>7, <1>8, <1>9, <1>10 DEF Inv

\* A call that cancels runs keeps the types, and what it outdates is cancelled or left behind.
LEMMA CancelKeeps ==
  ASSUME Inv, NEW rs, Cancel(rs), UNCHANGED <<phase, slot, orphans>>,
         requests' \in Nat, debounce' \in {None} \cup Runs, waiting' \in [Runs -> Waits],
         outdated' = outdated \/ (slot \in rs /\ outdated' = {r \in Runs : phase[r] # "none"})
  PROVE  TypeInv' /\ SlotInv' /\ StaleInv'
<1>1. /\ Active' = Active /\ cancelled' = cancelled \cup (rs \cap Active) /\ Runs' = Runs
      /\ phase' = phase /\ slot' = slot /\ orphans' = orphans
  BY DEF Active, Cancel, Runs
<1>2. TypeInv'
  BY <1>1 DEF Inv, TypeInv, Waits
<1>3. SlotInv'
  BY <1>1 DEF Inv, SlotInv
<1>4. StaleInv'
  <2>1. CASE outdated' = outdated
    BY <1>1, <2>1 DEF Inv, StaleInv
  <2>2. CASE slot \in rs /\ outdated' = {r \in Runs : phase[r] # "none"}
    BY <1>1, <2>2 DEF Inv, SlotInv, StaleInv, Active
  <2> QED BY <2>1, <2>2
<1> QED BY <1>2, <1>3, <1>4

LEMMA WaitersAreFew == ASSUME NEW r PROVE Cardinality(Waiters(r)) \in Nat
<1>1. IsFiniteSet(Runs)
  BY FS_Interval, QAManagerAssumption DEF Runs
<1> QED BY <1>1, FS_Subset, FS_CardinalityType DEF Waiters

\* A coroutine that begins to wait.
LEMMA AwaitIs ==
  ASSUME Inv, NEW n \in Runs, NEW kind \in {"start", "stop"}, slot \in Active, Await(n, kind)
  PROVE  /\ waiting' \in [Runs -> Waits] /\ Going' = Going \cup {n}
         /\ waiting'[n].kind = kind /\ waiting'[n].on = slot
         /\ kind = "stop" => waiting'[n].beside = Going
         /\ \A x \in Runs \ {n} : waiting'[x] = waiting[x]
<1> DEFINE w == [on |-> slot, kind |-> kind, turn |-> Cardinality(Waiters(slot)),
                 beside |-> IF kind = "stop" THEN Going ELSE {}]
<1>1. waiting' = [waiting EXCEPT ![n] = w] /\ waiting \in [Runs -> Waits]
  BY DEF Await, Inv, TypeInv
<1>2. w \in Waits /\ slot # None
  BY WaitersAreFew, RunsAreNumbers DEF Waits, Active, Going
<1>3. w.kind = kind /\ w.on = slot /\ (kind = "stop" => w.beside = Going)
  OBVIOUS
<1> HIDE DEF w
<1>4. waiting'[n] = w /\ \A x \in Runs \ {n} : waiting'[x] = waiting[x]
  BY <1>1
<1>5. Going' = Going \cup {n}
  BY <1>2, <1>3, <1>4 DEF Going, Runs
<1> QED BY <1>1, <1>2, <1>3, <1>4, <1>5

LEMMA StartByKeeps ==
  ASSUME Inv, NEW n \in Runs, StartBy(n), n \notin Going, phase[n] = "none", n <= requests',
         n = requests + 1 \/ (n = debounce /\ requests' = requests),
         requests' \in {requests, requests + 1}, UNCHANGED <<outdated, orphans>>
  PROVE  Inv'
<1>0. requests \in Nat /\ requests' \in Nat /\ requests' >= requests /\ n \in Nat /\ n # None
  BY RunsAreNumbers DEF Inv, TypeInv
<1>1. CASE slot \in Active
  <2>1. Cancel({slot}) /\ Await(n, "start") /\ UNCHANGED <<slot, debounce, phase>>
    BY <1>1 DEF StartBy
  <2>2. /\ waiting' \in [Runs -> Waits] /\ Going' = Going \cup {n} /\ waiting'[n].kind = "start"
        /\ \A x \in Runs \ {n} : waiting'[x] = waiting[x]
    BY <1>1, <2>1, AwaitIs
  <2>3. TypeInv' /\ SlotInv' /\ StaleInv'
    BY <1>0, <2>1, <2>2, CancelKeeps DEF Inv, TypeInv
  <2>4. ToBegin' = ToBegin \cup {n} /\ Active' = Active /\ Runs' = Runs
    BY <2>1, <2>2 DEF ToBegin, Active, Going, Runs
  <2>5. CallInv'
    <3>1. \A x \in Going \cup ToBegin : x \in Nat /\ x <= requests'
      BY <1>0, RunsAreNumbers DEF Inv, CallInv, Going, ToBegin, TypeInv
    <3>2. \A x \in Runs : x > requests' => x > requests
      BY <1>0, RunsAreNumbers
    <3> QED BY <2>1, <2>2, <2>4, <3>1, <3>2 DEF Inv, CallInv
  <2>6. StopInv'
    <3> SUFFICES ASSUME NEW x \in Going', waiting'[x].kind = "stop", NEW m \in (Active' \cup ToBegin') \ orphans'
                 PROVE  m = waiting'[x].on \/ m \in waiting'[x].beside \/ m > x
      BY DEF StopInv
    <3>1. x \in Going /\ waiting'[x] = waiting[x] /\ waiting[x].kind = "stop" /\ m \notin orphans
      BY <2>2 DEF Going
    <3>2. CASE m \in Active \cup ToBegin
      BY <3>1, <3>2 DEF Inv, StopInv
    <3>3. CASE m \notin Active \cup ToBegin
      <4>1. m = n /\ n \notin ToBegin
        BY <2>4, <3>3
      <4>2. m = requests + 1 /\ x <= requests /\ x \in Nat
        BY <1>0, <3>1, <4>1, RunsAreNumbers DEF ToBegin, Inv, CallInv, Going
      <4> QED BY <1>0, <4>2
    <3> QED BY <3>2, <3>3
  <2> QED BY <2>3, <2>5, <2>6 DEF Inv
<1>2. CASE slot \notin Active
  <2>1. Begin({n}, n) /\ UNCHANGED <<cancelled, waiting>>
    BY <1>2 DEF StartBy
  <2>2. Active \subseteq orphans
    BY <1>2 DEF Inv, SlotInv
  <2>3. waiting'[n].on = None
    BY <2>1 DEF Going
  <2>4. {n} \subseteq ToBegin \/ {n} = {requests + 1}
    BY <1>0 DEF ToBegin
  <2>5. waiting' \in [Runs -> Waits] /\ orphans \subseteq Runs /\ outdated' = outdated /\ cancelled' = cancelled
    BY <2>1 DEF Inv, TypeInv
  <2> QED BY <1>0, <2>1, <2>2, <2>3, <2>4, <2>5, BeginKeeps
<1> QED BY <1>1, <1>2

LEMMA StartKeeps == ASSUME Inv, Start PROVE Inv'
<1>1. StartBy(requests + 1) /\ requests' = requests + 1 /\ requests + 1 \in Runs /\ UNCHANGED <<outdated, orphans>>
  BY QAManagerAssumption DEF Start, Call, Runs, Inv, TypeInv
<1>2. requests + 1 > requests /\ ~(requests + 1 <= requests) /\ requests + 1 <= requests + 1
  BY DEF Inv, TypeInv
<1>3. requests + 1 \notin Going /\ phase[requests + 1] = "none"
  BY <1>1, <1>2 DEF Inv, CallInv
<1> QED BY <1>1, <1>2, <1>3, StartByKeeps

LEMMA DebounceKeeps == ASSUME Inv, DebounceOver PROVE Inv'
<1>1. /\ StartBy(debounce) /\ debounce \in Runs /\ debounce \notin Going
      /\ requests' = requests /\ UNCHANGED <<outdated, orphans>>
  BY DEF DebounceOver, Inv, TypeInv
<1>2. debounce \in ToBegin
  BY <1>1, RunsAreNumbers DEF ToBegin
<1>3. phase[debounce] = "none" /\ debounce <= requests
  BY <1>2 DEF Inv, CallInv
<1> QED BY <1>1, <1>3, StartByKeeps

LEMMA SaveKeeps == ASSUME Inv, Save PROVE Inv'
<1>1. /\ Cancel(AwaitedByDebounce \cup {slot}) /\ UNCHANGED <<phase, slot, waiting, orphans>>
      /\ requests' = requests + 1 /\ requests + 1 \in Runs /\ debounce' = requests + 1
      /\ outdated' = {r \in Runs : phase[r] # "none"} /\ requests \in Nat
  BY QAManagerAssumption DEF Save, Call, Runs, Inv, TypeInv
<1>2. TypeInv' /\ SlotInv' /\ StaleInv'
  BY <1>1, CancelKeeps DEF Inv, TypeInv
<1>3. /\ Active' = Active /\ Going' = Going /\ Runs' = Runs
      /\ ToBegin' \subseteq ToBegin \cup {requests + 1}
  BY <1>1 DEF Active, Going, ToBegin, Runs
<1>4. \A x \in Going \cup ToBegin : x \in Nat /\ x <= requests
  BY RunsAreNumbers DEF Inv, CallInv, Going, ToBegin, TypeInv
<1>5. CallInv'
  <2>1. \A x \in Going' \cup ToBegin' : x <= requests'
    BY <1>1, <1>3, <1>4
  <2>2. phase[requests + 1] = "none" /\ \A x \in Runs : x > requests' => x > requests
    BY <1>1, RunsAreNumbers DEF Inv, CallInv
  <2> QED BY <1>1, <1>3, <2>1, <2>2 DEF Inv, CallInv
<1>6. StopInv'
  <2>1. \A x \in Going : requests + 1 > x
    BY <1>1, <1>4
  <2> QED BY <1>1, <1>3, <2>1 DEF Inv, StopInv
<1> QED BY <1>2, <1>5, <1>6 DEF Inv

LEMMA StopKeeps == ASSUME Inv, Stop PROVE Inv'
<1>1. /\ Cancel(AwaitedByDebounce \cup {slot}) /\ UNCHANGED <<phase, slot, orphans, outdated>>
      /\ requests' = requests + 1 /\ requests + 1 \in Runs /\ debounce' = None /\ requests \in Nat
      /\ IF slot \in Active THEN Await(requests + 1, "stop") ELSE waiting' = waiting
  BY QAManagerAssumption DEF Stop, StopBy, Call, Runs, Inv, TypeInv
<1>2. CASE slot \in Active
  <2> DEFINE n == requests + 1
  <2>1. /\ waiting' \in [Runs -> Waits] /\ Going' = Going \cup {n} /\ waiting'[n].kind = "stop"
        /\ waiting'[n].on = slot /\ waiting'[n].beside = Going
        /\ \A x \in Runs \ {n} : waiting'[x] = waiting[x]
    BY <1>1, <1>2, AwaitIs
  <2>2. TypeInv' /\ SlotInv' /\ StaleInv'
    BY <1>1, <2>1, CancelKeeps, RunsAreNumbers DEF Inv, TypeInv
  <2>3. ToBegin' \subseteq ToBegin \cap Going /\ Active' = Active /\ Runs' = Runs
    BY <1>1, <2>1 DEF ToBegin, Active, Going, Runs
  <2>4. \A x \in Going \cup ToBegin : x \in Nat /\ x <= requests
    BY RunsAreNumbers DEF Inv, CallInv, Going, ToBegin, TypeInv
  <2>5. CallInv'
    <3>1. \A x \in Going' \cup ToBegin' : x <= requests'
      BY <1>1, <2>1, <2>3, <2>4
    <3>2. \A x \in Runs : x > requests' => x > requests
      BY <1>1, RunsAreNumbers
    <3> QED BY <1>1, <2>3, <3>1, <3>2 DEF Inv, CallInv
  <2>6. StopInv'
    <3> SUFFICES ASSUME NEW x \in Going', waiting'[x].kind = "stop", NEW m \in (Active' \cup ToBegin') \ orphans'
                 PROVE  m = waiting'[x].on \/ m \in waiting'[x].beside \/ m > x
      BY DEF StopInv
    <3>1. m \in Active \cup ToBegin /\ m \notin orphans
      BY <1>1, <2>3
    <3>2. CASE x = n
      BY <2>1, <2>3, <3>1, <3>2 DEF Inv, SlotInv
    <3>3. CASE x # n
      BY <2>1, <3>1, <3>3 DEF Inv, StopInv, Going
    <3> QED BY <3>2, <3>3
  <2> QED BY <2>2, <2>5, <2>6 DEF Inv
<1>3. CASE slot \notin Active
  <2>1. waiting' = waiting
    BY <1>1, <1>3
  <2>2. TypeInv' /\ SlotInv' /\ StaleInv'
    BY <1>1, <2>1, CancelKeeps, RunsAreNumbers DEF Inv, TypeInv
  <2>3. ToBegin' \subseteq ToBegin /\ Active' = Active /\ Runs' = Runs /\ Going' = Going
    BY <1>1, <2>1 DEF ToBegin, Active, Going, Runs
  <2>4. \A x \in Going \cup ToBegin : x \in Nat /\ x <= requests
    BY RunsAreNumbers DEF Inv, CallInv, Going, ToBegin, TypeInv
  <2>5. CallInv'
    <3>1. \A x \in Going' \cup ToBegin' : x <= requests'
      BY <1>1, <2>3, <2>4
    <3>2. \A x \in Runs : x > requests' => x > requests
      BY <1>1, RunsAreNumbers
    <3> QED BY <1>1, <2>3, <3>1, <3>2 DEF Inv, CallInv
  <2>6. StopInv'
    BY <1>1, <2>1, <2>3 DEF Inv, StopInv
  <2> QED BY <2>2, <2>5, <2>6 DEF Inv
<1> QED BY <1>2, <1>3

\* Those who awaited a run that has ended: none waits any more.
LEMMA Woken ==
  ASSUME Inv, NEW r \in Runs, Wake(r)
  PROVE  /\ waiting' \in [Runs -> Waits] /\ Going' = Going \ Waiters(r)
         /\ \A x \in Runs : waiting'[x] = IF x \in Waiters(r) THEN NotWaiting ELSE waiting[x]
         /\ Waiters(r) \subseteq Going
<1>1. /\ waiting' = [n \in Runs |-> IF n \in Waiters(r) THEN NotWaiting ELSE waiting[n]]
      /\ waiting \in [Runs -> Waits] /\ Runs' = Runs
  BY DEF Wake, Inv, TypeInv, Runs
<1>2. NotWaiting \in Waits
  BY DEF NotWaiting, Waits, None
<1>3. waiting' \in [Runs -> Waits]
  BY <1>1, <1>2
<1>4. \A x \in Runs : waiting'[x] = IF x \in Waiters(r) THEN NotWaiting ELSE waiting[x]
  BY <1>1
<1>5. Waiters(r) \subseteq Going
  BY RunsAreNumbers DEF Waiters, Going
<1>6. Going' = Going \ Waiters(r)
  BY <1>1, <1>4 DEF Going, NotWaiting
<1> QED BY <1>3, <1>4, <1>5, <1>6

LEMMA WakeKeeps == ASSUME Inv, NEW r \in Runs, Wake(r) PROVE Inv'
<1> DEFINE starts == {n \in Waiters(r) : waiting[n].kind = "start"}
<1>1. /\ waiting' \in [Runs -> Waits] /\ Going' = Going \ Waiters(r)
      /\ \A x \in Runs : waiting'[x] = IF x \in Waiters(r) THEN NotWaiting ELSE waiting[x]
      /\ Waiters(r) \subseteq Going
  BY Woken
<1>2. /\ phase[r] = "ended" /\ UNCHANGED <<requests, cancelled, outdated>>
      /\ \/ UNCHANGED <<slot, phase, debounce, orphans>>
         \/ \E last \in starts :
              /\ Begin(starts, last)
              /\ orphans' = orphans \cup ({slot} \cap Active) \cup (starts \ {last})
  BY DEF Wake
<1>3. starts \subseteq ToBegin /\ starts \subseteq Runs /\ starts \subseteq Waiters(r)
  BY <1>1 DEF ToBegin, Waiters
<1> HIDE DEF starts
<1>4. CASE UNCHANGED <<slot, phase, debounce, orphans>>
  <2>1. Active' = Active /\ ToBegin' \subseteq ToBegin /\ Runs' = Runs
    BY <1>1, <1>4 DEF Active, ToBegin, Runs, Going
  <2>2. TypeInv'
    BY <1>1, <1>2, <1>4, <2>1 DEF Inv, TypeInv, Waits
  <2>3. SlotInv' /\ StaleInv' /\ CallInv'
    BY <1>1, <1>2, <1>4, <2>1 DEF Inv, SlotInv, StaleInv, CallInv
  <2>4. StopInv'
    <3>1. \A x \in Going' : x \in Going /\ waiting'[x] = waiting[x]
      BY <1>1 DEF Going
    <3> QED BY <1>4, <2>1, <3>1 DEF Inv, StopInv
  <2> QED BY <2>2, <2>3, <2>4 DEF Inv
<1>5. ASSUME NEW last \in starts, Begin(starts, last),
             orphans' = orphans \cup ({slot} \cap Active) \cup (starts \ {last})
      PROVE  Inv'
  <2>1. \A x \in starts : phase[x] = "none" /\ waiting'[x].on = None /\ x <= requests'
    BY <1>1, <1>2, <1>3 DEF Inv, CallInv, NotWaiting
  <2>2. Active \subseteq orphans' /\ orphans \subseteq orphans' /\ starts \ {last} \subseteq orphans' /\ orphans' \subseteq Runs
    BY <1>3, <1>5 DEF Inv, SlotInv, TypeInv, Active
  <2>3. \A x \in Runs : waiting'[x] \in {waiting[x], NotWaiting}
    BY <1>1
  <2>4. requests' \in Nat /\ requests' >= requests /\ cancelled' = cancelled /\ outdated' = outdated
    BY <1>2 DEF Inv, TypeInv
  <2> QED BY <1>1, <1>3, <1>5, <2>1, <2>2, <2>3, <2>4, BeginKeeps
<1> QED BY <1>2, <1>4, <1>5

LEMMA InvIsInductive == ASSUME Inv, [Next]_vars PROVE Inv'
<1>1. CASE RunStep
  BY <1>1, RunStepKeeps DEF RunStep
<1>2. CASE \E r \in Runs : Wake(r)
  BY <1>2, WakeKeeps
<1>3. CASE Start \/ DebounceOver \/ Save \/ Stop
  BY <1>3, StartKeeps, DebounceKeeps, SaveKeeps, StopKeeps
<1>4. CASE Connect \/ Disconnect \/ Receive \/ UNCHANGED vars
  <2>1. UNCHANGED <<phase, cancelled, callVars>>
    BY <1>4 DEF Connect, Disconnect, Receive, vars, runVars
  <2> QED BY <2>1, NothingMoves
<1> QED BY <1>1, <1>2, <1>3, <1>4 DEF Next

LEMMA InvInit == Init => Inv
<1> SUFFICES ASSUME Init PROVE Inv
  OBVIOUS
<1>1. Active = {} /\ Going = {} /\ ToBegin = {}
  BY DEF Init, Active, Going, ToBegin, NotWaiting
<1>2. NotWaiting \in Waits
  BY DEF NotWaiting, Waits, None
<1> QED BY <1>1, <1>2 DEF Init, Inv, TypeInv, SlotInv, CallInv, StopInv, StaleInv, Phases

\* For any number of calls: which runs can be alive, who will begin one, and what a stop met.
THEOREM QAInvariant == Spec => []Inv
<1>1. Inv /\ [Next]_vars => Inv'
  BY InvIsInductive
<1> QED BY <1>1, InvInit, PTL DEF Spec

-----------------------------------------------------------------------------
\* "One QA run at a time", unless several starts awaited the end of the same run.
THEOREM OneRun == Spec => []OneRunAtATime
<1>1. Inv => OneRunAtATime
  BY DEF Inv, SlotInv, OneRunAtATime
<1> QED BY <1>1, QAInvariant, PTL

\* A run whose code has changed under it never reports a verdict, unless it was left behind.
THEOREM StaleRunsAreSilent == Spec => NoStaleVerdict
<1>1. ASSUME Inv, [Next]_vars PROVE verdicts' \cap outdated \subseteq verdicts \cup orphans
  <2>1. ASSUME NEW r \in Runs, Finish(r) \/ CrashReported(r)
        PROVE  verdicts' \cap outdated \subseteq verdicts \cup orphans
    <3>1. r \notin outdated \ orphans
      BY <1>1, <2>1 DEF Finish, CrashReported, At, Inv, StaleInv
    <3>2. verdicts' = verdicts \cup {r}
      BY <2>1 DEF Finish, CrashReported, Report
    <3> QED BY <3>1, <3>2
  <2>2. ASSUME NEW r \in Runs, Cancelled(r) PROVE verdicts' = verdicts
    BY <2>2 DEF Cancelled, Report
  <2>3. ASSUME NEW r \in Runs, BodyStarts(r) \/ PageOpens(r) \/ RunStarted(r) \/ Step(r) \/ Crash(r) \/ PageClosed(r)
        PROVE  verdicts' = verdicts
    BY <2>3 DEF BodyStarts, PageOpens, RunStarted, Step, Crash, PageClosed
  <2>4. CASE RunStep
    BY <2>1, <2>2, <2>3, <2>4 DEF RunStep
  <2>5. CASE ~RunStep
    BY <1>1, <2>5 DEF Next, Wake, Start, Save, DebounceOver, Stop, StopBy, Connect,
                      Disconnect, Receive, vars, runVars
  <2> QED BY <2>4, <2>5
<1> QED BY <1>1, QAInvariant, PTL DEF Spec, NoStaleVerdict

\* A stop that answers leaves alive, or to begin, only what calls it met and later ones began.
THEOREM StopIsFinal == Spec => StopStops
<1>1. ASSUME Inv, [Next]_vars, NEW n \in Going, waiting[n].kind = "stop", waiting'[n] = NotWaiting,
             NEW m \in (Active' \cup ToBegin') \ orphans'
      PROVE  m \in waiting[n].beside \/ m > n
  <2>1. waiting' # waiting /\ n \in Runs /\ waiting[n].on # None
    BY <1>1 DEF Going, NotWaiting
  <2>2. PICK r \in Runs : Wake(r)
    <3>1. ~(RunStep \/ Connect \/ Disconnect \/ Receive \/ UNCHANGED vars \/ Save)
      BY <2>1 DEF RunStep, BodyStarts, PageOpens, RunStarted, Step, Finish, Crash, CrashReported,
                  PageClosed, Cancelled, callVars, Connect, Disconnect, Receive, vars, Save
    <3>2. ASSUME NEW x \in Runs, NEW kind \in {"start", "stop"}, slot \in Active, Await(x, kind) PROVE FALSE
      BY <1>1, <2>1, <3>2, AwaitIs, RunsAreNumbers DEF NotWaiting, Going, Active
    <3>3. ~(Start \/ Stop)
      <4>1. requests' \in Runs \/ ~Call
        BY <1>1, QAManagerAssumption DEF Call, Runs, Inv, TypeInv
      <4> QED BY <2>1, <3>2, <4>1 DEF Start, Stop, StartBy, StopBy
    <3>4. ~DebounceOver
      BY <1>1, <2>1, <3>2 DEF DebounceOver, StartBy, Inv, TypeInv
    <3> QED BY <1>1, <3>1, <3>3, <3>4 DEF Next
  <2>3. /\ Going' = Going \ Waiters(r) /\ \A x \in Runs \ Waiters(r) : waiting'[x] = waiting[x]
    BY <1>1, <2>2, Woken
  <2>4. waiting[n].on = r /\ phase[r] = "ended"
    BY <2>1, <2>2, <2>3, <1>1 DEF Wake, Waiters, Going, NotWaiting
  <2>5. m \notin orphans /\ (m \in Active \cup ToBegin)
    <3> DEFINE starts == {x \in Waiters(r) : waiting[x].kind = "start"}
    <3>1. starts \subseteq ToBegin
      BY RunsAreNumbers DEF ToBegin, Waiters, Going
    <3>2. UNCHANGED <<slot, phase, debounce, orphans>>
            \/ \E last \in starts :
                 /\ Begin(starts, last)
                 /\ orphans' = orphans \cup ({slot} \cap Active) \cup (starts \ {last})
      BY <2>2 DEF Wake
    <3> HIDE DEF starts
    <3>3. orphans \subseteq orphans' /\ Active' \subseteq Active \cup starts
      BY <3>2 DEF Active, Begin, Runs
    <3>4. debounce' \in {None, debounce}
      BY <3>2 DEF Begin
    <3>5. ToBegin' \subseteq ToBegin
      BY <2>3, <3>4 DEF ToBegin, Going
    <3> QED BY <1>1, <3>1, <3>3, <3>5
  <2>6. m # r
    BY <1>1, <2>4, <2>5 DEF Active, Inv, CallInv
  <2> QED BY <1>1, <2>4, <2>5, <2>6 DEF Inv, StopInv
<1>2. Inv /\ [Next]_vars =>
        \A n \in Going :
          waiting[n].kind = "stop" /\ waiting'[n] = NotWaiting =>
             \A m \in (Active' \cup ToBegin') \ orphans' : m \in waiting[n].beside \/ m > n
  BY <1>1
<1> QED BY <1>2, QAInvariant, PTL DEF Spec, StopStops

\* What emit() keeps is as much about the slot's run, or one left behind, as what it had and what
\* it adds.
Kinds == {"run_started", "step", "done"}
Frames == [run : ({slot} \cup orphans) \cap Runs, kind : Kinds]
ReplayInv == replay \in Seq(Frames)

LEMMA EmitKeeps ==
  ASSUME ReplayInv, NEW f \in Frames, Emit(<<f>>)
  PROVE  replay' \in Seq(Frames)
<1>1. replay \o <<f>> \in Seq(Frames)
  BY DEF ReplayInv
<1>2. ASSUME NEW s \in Seq(Frames) PROVE Newest(s, ReplaySize) \in Seq(Frames)
  <2>1. Len(s) \in Nat /\ ReplaySize \in Nat
    BY QAManagerAssumption
  <2>2. CASE Len(s) > ReplaySize
    BY <2>1, <2>2 DEF Newest
  <2>3. CASE ~(Len(s) > ReplaySize)
    BY <2>1, <2>3 DEF Newest
  <2> QED BY <2>2, <2>3
<1> QED BY <1>1, <1>2 DEF Emit

\* "late subscribers replay only this run", or those left behind, for buffers of any size.
LEMMA ReplayInvHolds == Spec => []ReplayInv
<1>1. Init => ReplayInv
  BY DEF Init, ReplayInv
<1>2. ASSUME Inv, ReplayInv, [Next]_vars PROVE ReplayInv'
  <2>1. ASSUME NEW r \in Active, NEW k \in Kinds, Emit(<<Frame(r, k)>>), UNCHANGED callVars
        PROVE  ReplayInv'
    <3>1. Frame(r, k) \in Frames /\ Frames' = Frames
      BY <1>2, <2>1 DEF Frame, Frames, Inv, SlotInv, Active, callVars, Runs
    <3> QED BY <1>2, <2>1, <3>1, EmitKeeps DEF ReplayInv
  <2>2. ASSUME UNCHANGED <<replay, slot, orphans>> PROVE ReplayInv'
    BY <1>2, <2>2 DEF ReplayInv, Frames, Runs
  <2>3. ASSUME NEW ns, NEW n, Begin(ns, n) PROVE ReplayInv'
    BY <2>3 DEF Begin, ReplayInv
  <2>4. CASE RunStep
    <3>1. PICK r \in Runs : \/ BodyStarts(r) \/ PageOpens(r) \/ RunStarted(r) \/ Step(r) \/ Finish(r)
                            \/ Crash(r) \/ CrashReported(r) \/ PageClosed(r) \/ Cancelled(r)
      BY <2>4 DEF RunStep
    <3>2. CASE RunStarted(r) \/ Step(r)
      <4>1. r \in Active /\ UNCHANGED callVars
        BY <3>2 DEF RunStarted, Step, At, Active
      <4>2. Emit(<<Frame(r, "run_started")>>) \/ Emit(<<Frame(r, "step")>>)
        BY <3>2 DEF RunStarted, Step
      <4> QED BY <2>1, <4>1, <4>2 DEF Kinds
    <3>3. CASE Finish(r) \/ CrashReported(r)
      <4>1. r \in Active /\ UNCHANGED callVars
        BY <3>3 DEF Finish, CrashReported, At, Active
      <4>2. Emit(<<Frame(r, "done")>>)
        BY <3>3 DEF Finish, CrashReported, Report
      <4> QED BY <2>1, <4>1, <4>2 DEF Kinds
    <3>4. CASE Cancelled(r)
      <4>1. r \in Active /\ UNCHANGED callVars
        BY <1>2, <3>4 DEF Cancelled, Inv, TypeInv
      <4>2. Emit(<<Frame(r, "done")>>) \/ replay' = replay
        BY <3>4 DEF Cancelled, Report, streamVars
      <4> QED BY <2>1, <2>2, <4>1, <4>2 DEF Kinds, callVars
    <3>5. CASE BodyStarts(r) \/ PageOpens(r) \/ Crash(r) \/ PageClosed(r)
      BY <2>2, <3>5 DEF BodyStarts, PageOpens, Crash, PageClosed, streamVars, callVars
    <3> QED BY <3>1, <3>2, <3>3, <3>4, <3>5
  <2>5. CASE \E r \in Runs : Wake(r)
    BY <2>2, <2>3, <2>5 DEF Wake, streamVars
  <2>6. CASE Start \/ DebounceOver
    BY <2>2, <2>3, <2>6 DEF Start, DebounceOver, StartBy, streamVars
  <2>7. CASE Save \/ Stop \/ Connect \/ Disconnect \/ Receive \/ UNCHANGED vars
    BY <2>2, <2>7 DEF Save, Stop, StopBy, Connect, Disconnect, Receive, vars, streamVars, callVars
  <2> QED BY <1>2, <2>4, <2>5, <2>6, <2>7 DEF Next
<1> QED BY <1>1, <1>2, QAInvariant, PTL DEF Spec

LEMMA ReplayRuns == ASSUME ReplayInv, NEW i \in DOMAIN replay
  PROVE replay[i].run \in {slot} \cup orphans /\ replay[i].run \in Runs
<1>1. replay[i] \in Frames
  BY DEF ReplayInv
<1> QED BY <1>1 DEF Frames

THEOREM ReplayStaysCurrent == Spec => []ReplayIsCurrent
<1>1. ReplayInv => ReplayIsCurrent
  BY ReplayRuns DEF ReplayIsCurrent
<1> QED BY <1>1, ReplayInvHolds, PTL

-----------------------------------------------------------------------------
\* How far a run's task is says whether it has reported.
ReportInv ==
    /\ reports \in [Runs -> Nat] /\ cancelled \subseteq disturbed
    /\ \A r \in Runs :
         /\ reports[r] <= 1
         /\ phase[r] \in Phases \ {"closing", "ended"} => reports[r] = 0
         /\ phase[r] = "closing" => reports[r] = 1
         /\ phase[r] = "ended" /\ r \notin disturbed => reports[r] = 1

\* A step of one run's task reports when the run leaves its work, and only then.
LEMMA RunStepReports == ASSUME Inv, ReportInv, NEW r \in Runs,
  BodyStarts(r) \/ PageOpens(r) \/ RunStarted(r) \/ Step(r) \/ Finish(r)
    \/ Crash(r) \/ CrashReported(r) \/ PageClosed(r) \/ Cancelled(r)
  PROVE ReportInv'
<1>0. phase \in [Runs -> Phases] /\ cancelled \subseteq Active /\ Runs' = Runs /\ Phases' = Phases
  BY DEF Inv, TypeInv, Runs, Phases
<1>1. CASE BodyStarts(r) \/ PageOpens(r) \/ RunStarted(r) \/ Step(r) \/ Crash(r)
  <2>1. /\ phase[r] \in Phases \ {"closing", "ended"} /\ reports' = reports
        /\ cancelled' = cancelled /\ disturbed' = disturbed
    BY <1>0, <1>1 DEF BodyStarts, PageOpens, RunStarted, Step, Crash, At, Phases
  <2>2. phase' = phase \/ \E p \in Phases \ {"closing", "ended"} : phase' = [phase EXCEPT ![r] = p]
    BY <1>1 DEF BodyStarts, PageOpens, RunStarted, Step, Crash, Move, Phases
  <2> QED BY <1>0, <2>1, <2>2 DEF ReportInv
<1>2. CASE Finish(r) \/ CrashReported(r)
  <2>1. /\ phase[r] \in Phases \ {"closing", "ended"}
        /\ cancelled' = cancelled /\ disturbed' = disturbed
        /\ reports' = [reports EXCEPT ![r] = @ + 1]
    BY <1>0, <1>2 DEF Finish, CrashReported, At, Report, Phases
  <2>2. \E p \in {"closing", "ended"} : phase' = [phase EXCEPT ![r] = p]
    BY <1>2 DEF Finish, CrashReported, Move
  <2> QED BY <1>0, <2>1, <2>2 DEF ReportInv
<1>3. CASE PageClosed(r)
  <2>1. /\ phase[r] = "closing" /\ phase' = [phase EXCEPT ![r] = "ended"]
        /\ reports' = reports /\ cancelled' = cancelled /\ disturbed' = disturbed
    BY <1>3 DEF PageClosed, At, Move
  <2> QED BY <1>0, <2>1 DEF ReportInv
<1>4. CASE Cancelled(r)
  <2>1. r \in cancelled /\ r \in disturbed /\ cancelled' = cancelled \ {r} /\ disturbed' = disturbed
    BY <1>4 DEF Cancelled, ReportInv
  <2>2. CASE phase[r] \in {"loading", "acting"}
    <3>1. phase' = [phase EXCEPT ![r] = "closing"] /\ reports' = [reports EXCEPT ![r] = @ + 1]
      BY <1>4, <2>2 DEF Cancelled, Move, Report
    <3> QED BY <1>0, <2>1, <2>2, <3>1 DEF ReportInv, Phases
  <2>3. CASE phase[r] \notin {"loading", "acting"}
    <3>1. phase' = [phase EXCEPT ![r] = "ended"] /\ reports' = reports
      BY <1>4, <2>3 DEF Cancelled, Move
    <3> QED BY <1>0, <2>1, <3>1 DEF ReportInv
  <2> QED BY <2>2, <2>3
<1> QED BY <1>1, <1>2, <1>3, <1>4

\* A run that begins has reported nothing: it has not existed before.
LEMMA BeginReports ==
  ASSUME Inv, ReportInv, NEW ns, NEW n, Begin(ns, n), \A x \in ns : phase[x] = "none",
         UNCHANGED <<reports, cancelled, disturbed>>
  PROVE  ReportInv'
<1>1. Runs' = Runs /\ \A r \in Runs : phase'[r] = IF r \in ns THEN "created" ELSE phase[r]
  BY DEF Begin, Runs
<1>2. \A r \in Runs \cap ns : reports[r] = 0
  BY DEF ReportInv, Phases
<1> QED BY <1>1, <1>2 DEF ReportInv, Phases

\* No call reports; a run that is cancelled is remembered as disturbed.
LEMMA CallReports ==
  ASSUME Inv, ReportInv, NEW rs, Cancel(rs), UNCHANGED <<reports, phase>> PROVE ReportInv'
<1>1. cancelled' \subseteq disturbed' /\ disturbed \subseteq disturbed' /\ Runs' = Runs
  BY DEF Cancel, ReportInv, Runs
<1> QED BY <1>1 DEF ReportInv, Phases

LEMMA ReportInvHolds == Spec => []ReportInv
<1>1. Init => ReportInv
  BY DEF Init, ReportInv, Phases
<1>2. ASSUME Inv, ReportInv, [Next]_vars PROVE ReportInv'
  <2>1. ASSUME UNCHANGED runVars PROVE ReportInv'
    BY <1>2, <2>1 DEF ReportInv, runVars, Phases, Runs
  <2>2. CASE RunStep
    BY <1>2, <2>2, RunStepReports DEF RunStep
  <2>3. ASSUME NEW r \in Runs, Wake(r) PROVE ReportInv'
    <3> DEFINE starts == {n \in Waiters(r) : waiting[n].kind = "start"}
    <3>1. \A x \in starts : phase[x] = "none"
      BY <1>2, RunsAreNumbers DEF Waiters, Going, ToBegin, Inv, CallInv
    <3>2. /\ UNCHANGED <<steps, reports, cancelled, disturbed, verdicts>>
          /\ phase' = phase \/ \E last \in starts : Begin(starts, last)
      BY <2>3 DEF Wake
    <3> HIDE DEF starts
    <3> QED BY <1>2, <2>1, <3>1, <3>2, BeginReports DEF runVars
  <2>4. ASSUME NEW n, StartBy(n), UNCHANGED reports, phase[n] = "none" PROVE ReportInv'
    BY <1>2, <2>4, BeginReports, CallReports DEF StartBy
  <2>5. CASE Start
    <3>1. phase[requests + 1] = "none" /\ requests' = requests + 1
      BY <1>2, <2>5, QAManagerAssumption DEF Start, Call, Inv, CallInv, TypeInv, Runs
    <3> QED BY <2>4, <2>5, <3>1 DEF Start
  <2>6. CASE DebounceOver
    <3>1. phase[debounce] = "none"
      BY <1>2, <2>6 DEF DebounceOver, Inv, CallInv, ToBegin
    <3> QED BY <2>4, <2>6, <3>1 DEF DebounceOver
  <2>7. CASE Save \/ Stop
    BY <1>2, <2>7, CallReports DEF Save, Stop, StopBy
  <2>8. CASE Connect \/ Disconnect \/ Receive \/ UNCHANGED vars
    BY <2>1, <2>8 DEF Connect, Disconnect, Receive, vars
  <2> QED BY <1>2, <2>2, <2>3, <2>5, <2>6, <2>7, <2>8 DEF Next
<1> QED BY <1>1, <1>2, QAInvariant, PTL DEF Spec

\* A run that nobody cancels reports, and no run reports twice, for any number of runs and calls.
THEOREM EveryRunIsReportedOnce == Spec => []ReportsOnce
<1>1. ReportInv => ReportsOnce
  BY DEF ReportInv, ReportsOnce
<1> QED BY <1>1, ReportInvHolds, PTL

-----------------------------------------------------------------------------
(* The panel.  Of the run whose start came last, what the manager still replays, and what a panel *)
(* has read and still has to read, hold the start and the report; what comes between is of that   *)
(* run or of one left behind, and the panel tells them apart.                                     *)

NoStartAfter(s, i) == \A k \in DOMAIN s : k > i => s[k].kind # "run_started"

\* The last run sequence s begins is r, and what follows has its report if it has reported n = 1 times.
Tells(s, r, n) ==
    \E i \in DOMAIN s :
        /\ s[i] = Frame(r, "run_started") /\ NoStartAfter(s, i)
        /\ n = 1 => \E k \in DOMAIN s : k > i /\ s[k] = Frame(r, "done")

\* Panel p is at run r, and sequence s begins no other, and has r's report unless p has it.
Completes(s, p, r, n) ==
    /\ p.run = r /\ p.shown = {r}
    /\ NoStartAfter(s, 0)
    /\ n = 1 => p.report = r \/ \E k \in DOMAIN s : s[k] = Frame(r, "done")

AnyFrames == [run : Runs, kind : Kinds]
Panels == [run : Nat, shown : SUBSET Nat, report : Nat]

FollowInv ==
    /\ replay \in Seq(AnyFrames) /\ queue \in Seq(AnyFrames) /\ panel \in Panels
    /\ \A r \in Runs : Tells(replay, r, 0) =>
         /\ Tells(replay, r, reports[r])
         /\ conn.open /\ ~dropped =>
              Tells(queue, r, reports[r]) \/ Completes(queue, panel, r, reports[r])

LEMMA Domains == ASSUME NEW S, NEW s \in Seq(S) PROVE DOMAIN s = 1..Len(s) /\ Len(s) \in Nat
OBVIOUS

LEMMA FrameIs == \A r, kind : Frame(r, kind).run = r /\ Frame(r, kind).kind = kind
BY DEF Frame

\* A sequence tells of one run only.
LEMMA TellsOne ==
  ASSUME NEW s \in Seq(AnyFrames), NEW r, NEW x, NEW d, NEW e, Tells(s, r, d), Tells(s, x, e)
  PROVE  r = x
<1>1. PICK i \in DOMAIN s : s[i] = Frame(r, "run_started") /\ NoStartAfter(s, i)
  BY DEF Tells
<1>2. PICK j \in DOMAIN s : s[j] = Frame(x, "run_started") /\ NoStartAfter(s, j)
  BY DEF Tells
<1>3. ~(j > i) /\ ~(i > j) /\ i \in Nat /\ j \in Nat
  BY <1>1, <1>2, FrameIs, Domains DEF NoStartAfter
<1> QED BY <1>1, <1>2, <1>3, FrameIs

\* What a full buffer keeps is the end of what was put into it.
LEMMA NewestIs ==
  ASSUME NEW s \in Seq(AnyFrames), NEW n \in Nat
  PROVE  /\ Newest(s, n) \in Seq(AnyFrames)
         /\ Len(s) <= n => Newest(s, n) = s
         /\ \E m \in Nat :
              /\ DOMAIN Newest(s, n) = 1..(Len(s) - m)
              /\ m <= Len(s)
              /\ n >= 1 => m < Len(s) \/ Len(s) = 0
              /\ \A k \in 1..(Len(s) - m) : Newest(s, n)[k] = s[k + m]
<1>1. Len(s) \in Nat
  OBVIOUS
<1>2. CASE Len(s) > n
  <2> DEFINE m == Len(s) - n
             t == SubSeq(s, m + 1, Len(s))
  <2>1. m \in Nat /\ m >= 1 /\ m <= Len(s) /\ Newest(s, n) = t
    BY <1>1, <1>2 DEF Newest
  <2>2. t \in Seq(AnyFrames) /\ Len(t) = Len(s) - m /\ \A k \in 1..(Len(s) - m) : t[k] = s[k + m]
    BY <2>1
  <2>3. DOMAIN t = 1..(Len(s) - m) /\ (n >= 1 => m < Len(s)) /\ ~(Len(s) <= n)
    BY <1>1, <1>2, <2>1, <2>2
  <2> HIDE DEF m, t
  <2> QED BY <2>1, <2>2, <2>3
<1>3. CASE ~(Len(s) > n)
  <2>1. Newest(s, n) = s
    BY <1>1, <1>3 DEF Newest
  <2>2. DOMAIN s = 1..(Len(s) - 0) /\ 0 <= Len(s) /\ (0 < Len(s) \/ Len(s) = 0)
        /\ \A k \in 1..(Len(s) - 0) : s[k] = s[k + 0]
    BY <1>1
  <2> QED BY <2>1, <2>2
<1> QED BY <1>2, <1>3

\* A full buffer that still has the start of the last run has all that came after it.
LEMMA NewestTells ==
  ASSUME NEW s \in Seq(AnyFrames), NEW n \in Nat, NEW r, NEW x, NEW d,
         Tells(s, r, d), Tells(Newest(s, n), x, 0)
  PROVE  x = r /\ Tells(Newest(s, n), r, d)
<1> DEFINE t == Newest(s, n)
<1>1. PICK m \in Nat : /\ DOMAIN t = 1..(Len(s) - m) /\ m <= Len(s)
                       /\ \A k \in 1..(Len(s) - m) : t[k] = s[k + m]
  BY NewestIs
<1>2. DOMAIN s = 1..Len(s) /\ Len(s) \in Nat
  OBVIOUS
<1> HIDE DEF t
<1>3. PICK i \in DOMAIN s : /\ s[i] = Frame(r, "run_started") /\ NoStartAfter(s, i)
                            /\ d = 1 => \E k \in DOMAIN s : k > i /\ s[k] = Frame(r, "done")
  BY DEF Tells
<1>4. PICK j \in DOMAIN t : t[j] = Frame(x, "run_started") /\ NoStartAfter(t, j)
  BY DEF Tells, t
<1>5. i > m
  <2>1. j + m \in DOMAIN s /\ s[j + m].kind = "run_started" /\ j \in Nat /\ j >= 1
    BY <1>1, <1>2, <1>4, FrameIs
  <2>2. ~(j + m > i)
    BY <1>3, <2>1 DEF NoStartAfter
  <2> QED BY <1>2, <2>1, <2>2
<1>6. ASSUME NEW k \in DOMAIN s, k > m PROVE k - m \in DOMAIN t /\ t[k - m] = s[k]
  <2>1. k \in Nat /\ k - m \in 1..(Len(s) - m) /\ (k - m) + m = k
    BY <1>1, <1>2, <1>6
  <2> QED BY <1>1, <2>1
<1>7. i - m \in DOMAIN t /\ t[i - m] = Frame(r, "run_started") /\ i \in Nat
  BY <1>2, <1>3, <1>5, <1>6
<1>8. NoStartAfter(t, i - m)
  <2> SUFFICES ASSUME NEW k \in DOMAIN t, k > i - m PROVE t[k].kind # "run_started"
    BY DEF NoStartAfter
  <2>1. t[k] = s[k + m] /\ k + m \in DOMAIN s /\ k + m > i
    BY <1>1, <1>2, <1>7
  <2> QED BY <1>3, <2>1 DEF NoStartAfter
<1>9. ASSUME d = 1 PROVE \E k \in DOMAIN t : k > i - m /\ t[k] = Frame(r, "done")
  <2>1. PICK k \in DOMAIN s : k > i /\ s[k] = Frame(r, "done")
    BY <1>3, <1>9
  <2>2. k > m /\ k \in Nat /\ k - m > i - m
    BY <1>2, <1>5, <1>7, <2>1
  <2>3. k - m \in DOMAIN t /\ t[k - m] = Frame(r, "done")
    BY <1>6, <2>1, <2>2
  <2> QED BY <2>2, <2>3
<1>10. Tells(t, r, d)
  BY <1>7, <1>8, <1>9 DEF Tells
<1>11. t \in Seq(AnyFrames) /\ Tells(t, x, 0)
  BY NewestIs DEF t
<1>12. x = r
  BY <1>10, <1>11, TellsOne
<1> QED BY <1>10, <1>12 DEF t

\* One event more, of any run, which begins none.
LEMMA MoreTells ==
  ASSUME NEW s \in Seq(AnyFrames), NEW r, NEW x, NEW d, NEW e, NEW kind \in {"step", "done"},
         Tells(s, r, d), e = 1 => d = 1 \/ (kind = "done" /\ x = r)
  PROVE  Tells(Append(s, Frame(x, kind)), r, e)
<1> DEFINE t == Append(s, Frame(x, kind))
<1>1. /\ Len(s) \in Nat /\ DOMAIN t = 1..(Len(s) + 1) /\ DOMAIN s = 1..Len(s)
      /\ t[Len(s) + 1] = Frame(x, kind) /\ \A k \in DOMAIN s : t[k] = s[k]
  OBVIOUS
<1> HIDE DEF t
<1>2. PICK i \in DOMAIN s : /\ s[i] = Frame(r, "run_started") /\ NoStartAfter(s, i)
                            /\ d = 1 => \E k \in DOMAIN s : k > i /\ s[k] = Frame(r, "done")
  BY DEF Tells
<1>3. i \in DOMAIN t /\ t[i] = Frame(r, "run_started")
  BY <1>1, <1>2
<1>4. NoStartAfter(t, i)
  <2> SUFFICES ASSUME NEW k \in DOMAIN t, k > i PROVE t[k].kind # "run_started"
    BY DEF NoStartAfter
  <2>1. k \in DOMAIN s \/ k = Len(s) + 1
    BY <1>1
  <2> QED BY <1>1, <1>2, <2>1, FrameIs DEF NoStartAfter
<1>5. ASSUME e = 1 PROVE \E k \in DOMAIN t : k > i /\ t[k] = Frame(r, "done")
  <2>1. CASE kind = "done" /\ x = r
    <3>1. Len(s) + 1 \in DOMAIN t /\ Len(s) + 1 > i
      BY <1>1, <1>2
    <3> QED BY <1>1, <2>1, <3>1
  <2>2. CASE d = 1
    <3>1. PICK k \in DOMAIN s : k > i /\ s[k] = Frame(r, "done")
      BY <1>2, <2>2
    <3>2. k \in DOMAIN t /\ t[k] = s[k]
      BY <1>1
    <3> QED BY <3>1, <3>2
  <2> QED BY <1>5, <2>1, <2>2
<1>6. Tells(t, r, e)
  BY <1>3, <1>4, <1>5 DEF Tells
<1> QED BY <1>6 DEF t

\* The same for a panel that has begun to read about the run.
LEMMA MoreCompletes ==
  ASSUME NEW s \in Seq(AnyFrames), NEW p, NEW r, NEW x, NEW d, NEW e, NEW kind \in {"step", "done"},
         Completes(s, p, r, d), e = 1 => d = 1 \/ (kind = "done" /\ x = r)
  PROVE  Completes(Append(s, Frame(x, kind)), p, r, e)
<1> DEFINE t == Append(s, Frame(x, kind))
<1>1. /\ Len(s) \in Nat /\ DOMAIN t = 1..(Len(s) + 1) /\ DOMAIN s = 1..Len(s)
      /\ t[Len(s) + 1] = Frame(x, kind) /\ \A k \in DOMAIN s : t[k] = s[k]
  OBVIOUS
<1> HIDE DEF t
<1>2. NoStartAfter(t, 0)
  <2> SUFFICES ASSUME NEW k \in DOMAIN t, k > 0 PROVE t[k].kind # "run_started"
    BY DEF NoStartAfter
  <2>1. k \in DOMAIN s \/ k = Len(s) + 1
    BY <1>1
  <2> QED BY <1>1, <2>1, FrameIs DEF Completes, NoStartAfter
<1>3. ASSUME e = 1 PROVE p.report = r \/ \E k \in DOMAIN t : t[k] = Frame(r, "done")
  <2>1. CASE kind = "done" /\ x = r
    BY <1>1, <2>1
  <2>2. CASE d = 1
    <3>1. ASSUME NEW k \in DOMAIN s, s[k] = Frame(r, "done") PROVE \E y \in DOMAIN t : t[y] = Frame(r, "done")
      <4>1. k \in DOMAIN t /\ t[k] = s[k]
        BY <1>1
      <4> QED BY <3>1, <4>1
    <3> QED BY <2>2, <3>1 DEF Completes
  <2> QED BY <1>3, <2>1, <2>2
<1>4. Completes(t, p, r, e)
  BY <1>2, <1>3 DEF Completes
<1> QED BY <1>4 DEF t

\* The start of a run, as the last event of a buffer, tells of the run.
LEMMA StartTells ==
  ASSUME NEW s \in Seq(AnyFrames), NEW r \in Runs
  PROVE  Tells(Append(s, Frame(r, "run_started")), r, 0)
<1> DEFINE t == Append(s, Frame(r, "run_started"))
<1>1. Len(s) \in Nat /\ DOMAIN t = 1..(Len(s) + 1) /\ t[Len(s) + 1] = Frame(r, "run_started")
  OBVIOUS
<1> HIDE DEF t
<1>2. Len(s) + 1 \in DOMAIN t /\ \A k \in DOMAIN t : ~(k > Len(s) + 1)
  BY <1>1
<1>3. Tells(t, r, 0)
  BY <1>1, <1>2 DEF Tells, NoStartAfter
<1> QED BY <1>3 DEF t

\* An event that begins no run changes nothing about which run began last.
LEMMA LessTells ==
  ASSUME NEW s \in Seq(AnyFrames), NEW n \in Nat, NEW r, NEW x, NEW kind \in {"step", "done"},
         Frame(x, kind) \in AnyFrames, Tells(Newest(Append(s, Frame(x, kind)), n), r, 0)
  PROVE  Tells(s, r, 0)
<1> DEFINE a == Append(s, Frame(x, kind))
           t == Newest(a, n)
<1>1. /\ a \in Seq(AnyFrames) /\ Len(s) \in Nat /\ Len(a) = Len(s) + 1 /\ DOMAIN s = 1..Len(s)
      /\ a[Len(s) + 1] = Frame(x, kind) /\ \A k \in DOMAIN s : a[k] = s[k]
  OBVIOUS
<1> HIDE DEF a
<1>2. PICK m \in Nat : /\ DOMAIN t = 1..(Len(a) - m) /\ m <= Len(a)
                       /\ \A k \in 1..(Len(a) - m) : t[k] = a[k + m]
  BY <1>1, NewestIs
<1> HIDE DEF t
<1>3. PICK j \in DOMAIN t : t[j] = Frame(r, "run_started") /\ NoStartAfter(t, j)
  BY DEF Tells, t, a
<1>4. j \in 1..(Len(a) - m) /\ a[j + m] = Frame(r, "run_started") /\ j + m \in 1..(Len(s) + 1)
  BY <1>1, <1>2, <1>3
<1>5. j + m # Len(s) + 1
  BY <1>1, <1>4, FrameIs
<1>6. j + m \in DOMAIN s /\ s[j + m] = Frame(r, "run_started")
  BY <1>1, <1>4, <1>5
<1>7. NoStartAfter(s, j + m)
  <2> SUFFICES ASSUME NEW k \in DOMAIN s, k > j + m PROVE s[k].kind # "run_started"
    BY DEF NoStartAfter
  <2>1. k - m \in 1..(Len(a) - m) /\ k - m > j /\ (k - m) + m = k
    BY <1>1, <1>4
  <2>2. t[k - m] = s[k] /\ k - m \in DOMAIN t
    BY <1>1, <1>2, <2>1
  <2> QED BY <1>3, <2>1, <2>2 DEF NoStartAfter
<1> QED BY <1>6, <1>7 DEF Tells

\* What a panel reads brings it to the run, or on with it.
LEMMA ReceiveFollows ==
  ASSUME NEW s \in Seq(AnyFrames), s # <<>>, NEW p \in Panels, NEW r \in Runs, NEW d,
         Tells(s, r, d) \/ Completes(s, p, r, d)
  PROVE  Tells(Tail(s), r, d) \/ Completes(Tail(s), Reduce(p, Head(s)), r, d)
<1> DEFINE t == Tail(s)
<1>1. /\ Len(s) \in Nat /\ DOMAIN s = 1..Len(s) /\ DOMAIN t = 1..(Len(s) - 1)
      /\ Head(s) = s[1] /\ \A k \in DOMAIN t : t[k] = s[k + 1]
  OBVIOUS
<1>2. \A k \in DOMAIN t : k \in Nat /\ k >= 1 /\ k + 1 \in DOMAIN s
  BY <1>1
<1>3. \A k \in DOMAIN s : k > 1 => k - 1 \in DOMAIN t /\ t[k - 1] = s[k]
  BY <1>1
<1>4. 1 \in DOMAIN s /\ s[1] \in AnyFrames /\ r \in Nat /\ r # None
  BY <1>1, RunsAreNumbers
<1> HIDE DEF t
<1>5. CASE Tells(s, r, d)
  <2>1. PICK i \in DOMAIN s : /\ s[i] = Frame(r, "run_started") /\ NoStartAfter(s, i)
                              /\ d = 1 => \E k \in DOMAIN s : k > i /\ s[k] = Frame(r, "done")
    BY <1>5 DEF Tells
  <2>2. i \in Nat /\ i >= 1
    BY <1>1
  <2>3. ASSUME NEW k \in DOMAIN t, k > i - 1 PROVE t[k].kind # "run_started"
    <3>1. t[k] = s[k + 1] /\ k + 1 \in DOMAIN s /\ k + 1 > i
      BY <1>1, <1>2, <2>2, <2>3
    <3> QED BY <2>1, <3>1 DEF NoStartAfter
  <2>4. ASSUME d = 1 PROVE \E k \in DOMAIN t : k > i - 1 /\ t[k] = Frame(r, "done")
    <3>1. PICK k \in DOMAIN s : k > i /\ s[k] = Frame(r, "done")
      BY <2>1, <2>4
    <3>2. k - 1 \in DOMAIN t /\ t[k - 1] = s[k] /\ k - 1 > i - 1
      BY <1>1, <1>3, <2>2, <3>1
    <3> QED BY <3>1, <3>2
  <2>5. CASE i > 1
    <3>1. i - 1 \in DOMAIN t /\ t[i - 1] = Frame(r, "run_started")
      BY <1>3, <2>1, <2>5
    <3>2. Tells(t, r, d)
      BY <2>3, <2>4, <3>1 DEF Tells, NoStartAfter
    <3> QED BY <3>2 DEF t
  <2>6. CASE i = 1
    <3>1. Reduce(p, Head(s)) = [run |-> r, shown |-> {r}, report |-> None]
      <4>1. Head(s).kind = "run_started" /\ Head(s).run = r
        BY <1>1, <2>1, <2>6, FrameIs
      <4> QED BY <4>1 DEF Reduce
    <3>2. Completes(t, Reduce(p, Head(s)), r, d)
      BY <2>3, <2>4, <2>6, <3>1 DEF Completes, NoStartAfter
    <3> QED BY <3>2 DEF t
  <2> QED BY <2>2, <2>5, <2>6
<1>6. CASE Completes(s, p, r, d)
  <2>1. p.run = r /\ p.shown = {r} /\ Head(s).kind \in {"step", "done"} /\ Head(s).run \in Nat
    <3>1. s[1].kind # "run_started"
      BY <1>4, <1>6 DEF Completes, NoStartAfter
    <3>2. s[1].kind \in Kinds /\ s[1].run \in Nat
      BY <1>4, RunsAreNumbers DEF AnyFrames
    <3> QED BY <1>1, <1>6, <3>1, <3>2 DEF Completes, Kinds
  <2>2. /\ Reduce(p, Head(s)).run = r /\ Reduce(p, Head(s)).shown = {r}
        /\ Reduce(p, Head(s)).report
             = IF Head(s).kind = "done" /\ Head(s).run = r THEN r ELSE p.report
    <3>1. CASE Head(s).kind = "step" /\ Head(s).run = r
      <4>1. Reduce(p, Head(s)) = [p EXCEPT !.shown = @ \cup {r}]
        BY <2>1, <3>1 DEF Reduce
      <4> QED BY <2>1, <3>1, <4>1 DEF Panels
    <3>2. CASE Head(s).kind = "done" /\ Head(s).run = r
      <4>1. Reduce(p, Head(s)) = [p EXCEPT !.run = r, !.report = r]
        BY <2>1, <3>2 DEF Reduce
      <4> QED BY <2>1, <3>2, <4>1 DEF Panels
    <3>3. CASE Head(s).run # r
      <4>1. Reduce(p, Head(s)) = p
        BY <1>4, <2>1, <3>3 DEF Reduce
      <4> QED BY <2>1, <3>3, <4>1
    <3> QED BY <2>1, <3>1, <3>2, <3>3
  <2>3. NoStartAfter(t, 0)
    BY <1>1, <1>2, <1>6 DEF Completes, NoStartAfter
  <2>4. ASSUME d = 1, Reduce(p, Head(s)).report # r PROVE \E k \in DOMAIN t : t[k] = Frame(r, "done")
    <3>1. p.report # r
      BY <2>2, <2>4
    <3>2. PICK k \in DOMAIN s : s[k] = Frame(r, "done")
      BY <1>6, <2>4, <3>1 DEF Completes
    <3>3. k \in Nat /\ k >= 1 /\ k # 1
      BY <1>1, <2>2, <2>4, <3>2, FrameIs
    <3>4. k - 1 \in DOMAIN t /\ t[k - 1] = s[k]
      BY <1>3, <3>3
    <3> QED BY <3>2, <3>4
  <2>5. Completes(t, Reduce(p, Head(s)), r, d)
    BY <2>2, <2>3, <2>4 DEF Completes
  <2> QED BY <2>5 DEF t
<1> QED BY <1>5, <1>6

\* An event of run x, sent while its reports go from what they are to what they are next.
LEMMA EmitFollows ==
  ASSUME FollowInv, NEW x \in Runs, NEW kind \in Kinds, Emit(<<Frame(x, kind)>>),
         panel' = panel, conn' = conn, \A r \in Runs \ {x} : reports'[r] = reports[r],
         reports'[x] = 1 => reports[x] = 1 \/ kind = "done",
         kind = "run_started" => reports'[x] = 0
  PROVE  FollowInv'
<1> DEFINE f == Frame(x, kind)
           s == Append(replay, f)
           t == Append(queue, f)
<1>1. /\ replay \in Seq(AnyFrames) /\ queue \in Seq(AnyFrames) /\ panel \in Panels
      /\ f \in AnyFrames /\ Runs' = Runs
      /\ s \in Seq(AnyFrames) /\ t \in Seq(AnyFrames) /\ replay \o <<f>> = s /\ queue \o <<f>> = t
      /\ ReplaySize \in Nat /\ QueueSize \in Nat /\ Len(t) \in Nat
  <2>1. f \in AnyFrames
    BY DEF Frame, AnyFrames
  <2> QED BY <2>1, QAManagerAssumption DEF FollowInv, Runs
<1>2. /\ replay' = Newest(s, ReplaySize)
      /\ queue' = IF conn.open THEN Newest(t, QueueSize) ELSE queue
      /\ dropped' = (dropped \/ (conn.open /\ Len(t) > QueueSize))
  BY <1>1 DEF Emit
<1>3. replay' \in Seq(AnyFrames) /\ queue' \in Seq(AnyFrames) /\ panel' \in Panels
  BY <1>1, <1>2, NewestIs
<1>4. ASSUME conn'.open, ~dropped' PROVE conn.open /\ ~dropped /\ queue' = t
  <2>1. conn.open /\ ~dropped /\ ~(Len(t) > QueueSize)
    BY <1>2, <1>4
  <2>2. Len(t) <= QueueSize
    BY <1>1, <2>1
  <2> QED BY <1>1, <1>2, <2>1, <2>2, NewestIs
<1>5. ASSUME NEW r \in Runs, Tells(replay', r, 0)
      PROVE  /\ Tells(replay', r, reports'[r])
             /\ conn'.open /\ ~dropped' => Tells(queue', r, reports'[r]) \/ Completes(queue', panel', r, reports'[r])
  <2>1. CASE kind = "run_started"
    <3>1. Tells(s, x, reports'[x]) /\ Tells(t, x, reports'[x])
      BY <1>1, <2>1, StartTells
    <3> HIDE DEF s, t
    <3>0. Tells(Newest(s, ReplaySize), r, 0)
      BY <1>2, <1>5
    <3>2. r = x /\ Tells(replay', x, reports'[x])
      BY <1>1, <1>2, <3>0, <3>1, NewestTells
    <3> QED BY <1>4, <3>1, <3>2
  <2>2. CASE kind \in {"step", "done"}
    <3>1. Tells(replay, r, 0)
      BY <1>1, <1>2, <1>5, <2>2, LessTells
    <3>2. reports'[r] = 1 => reports[r] = 1 \/ (kind = "done" /\ x = r)
      BY <1>1
    <3>3. Tells(replay, r, reports[r])
      BY <3>1 DEF FollowInv
    <3>4. Tells(s, r, reports'[r])
      BY <1>1, <2>2, <3>2, <3>3, MoreTells
    <3>5. Tells(replay', r, reports'[r])
      BY <1>1, <1>2, <1>5, <3>4, NewestTells
    <3>6. ASSUME conn'.open, ~dropped' PROVE Tells(queue', r, reports'[r]) \/ Completes(queue', panel', r, reports'[r])
      <4>1. Tells(queue, r, reports[r]) \/ Completes(queue, panel, r, reports[r])
        BY <1>4, <3>1, <3>6 DEF FollowInv
      <4>2. Tells(t, r, reports'[r]) \/ Completes(t, panel, r, reports'[r])
        BY <1>1, <2>2, <3>2, <4>1, MoreTells, MoreCompletes
      <4> QED BY <1>4, <3>6, <4>2
    <3> QED BY <3>5, <3>6
  <2> QED BY <2>1, <2>2 DEF Kinds
<1> HIDE DEF f, s, t
<1>6. AnyFrames' = AnyFrames /\ Panels' = Panels
  BY <1>1 DEF AnyFrames, Panels, Kinds
<1> QED BY <1>1, <1>3, <1>5, <1>6 DEF FollowInv

\* A step of one run's task tells of that run, if it tells anything.
LEMMA RunStepFollows ==
  ASSUME Inv, ReportInv, FollowInv, NEW r \in Runs,
         \/ BodyStarts(r) \/ PageOpens(r) \/ RunStarted(r) \/ Step(r) \/ Finish(r)
         \/ Crash(r) \/ CrashReported(r) \/ PageClosed(r) \/ Cancelled(r)
  PROVE  FollowInv'
<1>1. panel' = panel /\ conn' = conn
  <2>1. UNCHANGED panelVars
    BY DEF BodyStarts, PageOpens, RunStarted, Step, Finish, Crash, CrashReported, PageClosed, Cancelled
  <2> QED BY <2>1 DEF panelVars
<1>2. ASSUME UNCHANGED <<streamVars, reports>> PROVE FollowInv'
  BY <1>1, <1>2 DEF streamVars, FollowInv, AnyFrames, Kinds, Panels, Runs
<1>3. reports \in [Runs -> Nat]
  BY DEF ReportInv
<1>4. CASE RunStarted(r) \/ Step(r)
  <2>1. /\ reports' = reports /\ phase[r] \in {"loading", "acting"}
        /\ Emit(<<Frame(r, "run_started")>>) \/ Emit(<<Frame(r, "step")>>)
    BY <1>4 DEF RunStarted, Step, At
  <2>2. reports'[r] = 0
    BY <2>1 DEF ReportInv, Phases
  <2> QED BY <1>1, <2>1, <2>2, EmitFollows DEF Kinds
<1>5. ASSUME Emit(<<Frame(r, "done")>>), reports' = [reports EXCEPT ![r] = @ + 1] PROVE FollowInv'
  BY <1>1, <1>3, <1>5, EmitFollows DEF Kinds
<1>6. CASE Finish(r) \/ CrashReported(r)
  BY <1>5, <1>6 DEF Finish, CrashReported, Report
<1>7. CASE Cancelled(r)
  BY <1>2, <1>5, <1>7 DEF Cancelled, Report
<1>8. CASE BodyStarts(r) \/ PageOpens(r) \/ Crash(r) \/ PageClosed(r)
  BY <1>2, <1>8 DEF BodyStarts, PageOpens, Crash, PageClosed
<1> QED BY <1>4, <1>6, <1>7, <1>8

\* The panel's own steps.
LEMMA PanelStepFollows ==
  ASSUME FollowInv, Connect \/ Disconnect \/ Receive
  PROVE  FollowInv'
<1>1. replay' = replay /\ reports' = reports /\ Runs' = Runs
  BY DEF Connect, Disconnect, Receive, runVars, Runs
<1>2. CASE Connect
  BY <1>1, <1>2 DEF Connect, FollowInv, AnyFrames, Kinds, Panels
<1>3. CASE Disconnect
  <2>1. ~conn'.open /\ queue' = <<>> /\ panel' = panel
    <3>1. conn' = [conn EXCEPT !.open = FALSE] /\ conn.open
      BY <1>3 DEF Disconnect
    <3> QED BY <1>3, <3>1 DEF Disconnect
  <2>2. queue' \in Seq(AnyFrames)
    BY <2>1
  <2> QED BY <1>1, <2>1, <2>2 DEF FollowInv, AnyFrames, Kinds, Panels
<1>4. CASE Receive
  <2>1. /\ queue # <<>> /\ queue' = Tail(queue) /\ panel' = Reduce(panel, Head(queue))
        /\ conn' = conn /\ dropped' = dropped /\ queue \in Seq(AnyFrames) /\ panel \in Panels
    BY <1>4 DEF Receive, FollowInv
  <2>2. queue' \in Seq(AnyFrames) /\ Head(queue) \in AnyFrames
    BY <2>1
  <2>3. panel' \in Panels
    BY <2>1, <2>2, RunsAreNumbers DEF Reduce, Panels, AnyFrames
  <2>4. ASSUME NEW r \in Runs, Tells(replay, r, 0), conn.open, ~dropped
        PROVE  Tells(queue', r, reports[r]) \/ Completes(queue', panel', r, reports[r])
    <3>1. Tells(queue, r, reports[r]) \/ Completes(queue, panel, r, reports[r])
      BY <2>4 DEF FollowInv
    <3> QED BY <2>1, <3>1, ReceiveFollows
  <2>5. AnyFrames' = AnyFrames /\ Panels' = Panels
    BY <1>1 DEF AnyFrames, Panels, Kinds
  <2>6. conn'.open = conn.open /\ dropped' = dropped
    BY <2>1
  <2> QED BY <1>1, <2>2, <2>3, <2>4, <2>5, <2>6 DEF FollowInv
<1> QED BY <1>2, <1>3, <1>4

LEMMA FollowInvHolds == Spec => []FollowInv
<1>1. Init => FollowInv
  BY DEF Init, FollowInv, Tells, NoPanel, Panels, None
<1>2. ASSUME Inv, ReportInv, FollowInv, [Next]_vars PROVE FollowInv'
  <2>1. ASSUME UNCHANGED <<streamVars, panelVars, reports>> PROVE FollowInv'
    BY <1>2, <2>1 DEF FollowInv, streamVars, panelVars, AnyFrames, Kinds, Panels, Runs
  <2>2. ASSUME NEW ns, NEW n, Begin(ns, n), panel' = panel PROVE FollowInv'
    <3>1. replay' = <<>> /\ queue' = queue /\ panel' = panel
      BY <2>2 DEF Begin
    <3>2. replay' \in Seq(AnyFrames) /\ \A r : ~Tells(replay', r, 0)
      BY <3>1 DEF Tells
    <3> QED BY <1>2, <3>1, <3>2 DEF FollowInv, AnyFrames, Kinds, Panels, Runs
  <2>3. CASE RunStep
    BY <1>2, <2>3, RunStepFollows DEF RunStep
  <2>4. CASE \E r \in Runs : Wake(r)
    BY <2>1, <2>2, <2>4 DEF Wake, panelVars
  <2>5. CASE Start \/ DebounceOver
    BY <2>1, <2>2, <2>5 DEF Start, DebounceOver, StartBy, panelVars
  <2>6. CASE Save \/ Stop \/ UNCHANGED vars
    BY <2>1, <2>6 DEF Save, Stop, StopBy, vars, runVars
  <2>7. CASE Connect \/ Disconnect \/ Receive
    BY <1>2, <2>7, PanelStepFollows
  <2> QED BY <1>2, <2>3, <2>4, <2>5, <2>6, <2>7 DEF Next
<1> QED BY <1>1, <1>2, ReportInvHolds, QAInvariant, PTL DEF Spec

\* A panel that has read everything shows the run that began to show itself last, and its report,
\* for buffers of any size, however often the stream breaks, and however the panel's reading falls
\* among the events of the runs that are alive.
THEOREM PanelFollowsRun == Spec => []PanelFollows
<1>1. FollowInv /\ ReplayInv => PanelFollows
  <2> SUFFICES ASSUME FollowInv, ReplayInv, conn.open, ~dropped, queue = <<>>, NEW i \in DOMAIN replay,
                      replay[i].kind = "run_started",
                      \A k \in DOMAIN replay : k > i => replay[k].kind # "run_started"
               PROVE  LET r == replay[i].run
                      IN  /\ r \in {slot} \cup orphans
                          /\ panel.run = r /\ panel.shown = {r}
                          /\ reports[r] = 1 => panel.report = r
    BY DEF PanelFollows
  <2> DEFINE r == replay[i].run
  <2>1. r \in Runs /\ r \in {slot} \cup orphans
    BY ReplayRuns
  <2>2. replay[i] = Frame(r, "run_started")
    <3>1. replay[i] \in AnyFrames
      BY DEF FollowInv
    <3> QED BY <3>1 DEF AnyFrames, Frame
  <2>3. Tells(replay, r, 0)
    BY <2>2 DEF Tells, NoStartAfter
  <2>4. Completes(queue, panel, r, reports[r])
    BY <2>1, <2>3 DEF FollowInv, Tells
  <2> QED BY <2>1, <2>4 DEF Completes
<1> QED BY <1>1, FollowInvHolds, ReplayInvHolds, PTL
=============================================================================
